----------------------------- MODULE PortfolioJoin -----------------------------
(***************************************************************************)
(* Assets joined to canonical curves (workflows/portfolio.py,              *)
(* workflows/_portfolio.py): which columns of the assets are used and      *)
(* kept, which curve an asset gets for each scenario, what is refused, and *)
(* the merging of flood curves that share a cell.                          *)
(*                                                                         *)
(* A point lies on a line, a source geometry is an interval of it, and a   *)
(* cell is the CellSize points that start at a multiple of it.             *)
(***************************************************************************)
EXTENDS Integers, FiniteSets, Sequences, SequencesExt

CONSTANTS
    Missing,    \* None, or a null
    Error,      \* an exception
    CellSize

-----------------------------------------------------------------------------
(* Columns. *)

Scenario == {"hazard_name", "horizon", "pathway"}
Reserved == Scenario \cup {"cell_index", "source_id", "spatial_match", "curve_kind"}
ReservedFor(values) == Reserved \cup values

\* A location is [kind |-> "point", lon, lat] or [kind |-> "cell", name].
LocationColumns(location) ==
    IF location.kind = "point" THEN <<location.lon, location.lat>> ELSE <<location.name>>

\* The location an asset source with these columns is given by default.
Inferred(columns) ==
    IF columns = Missing THEN Error
    ELSE IF {"longitude", "latitude"} \subseteq columns
    THEN [kind |-> "point", lon |-> "longitude", lat |-> "latitude"]
    ELSE IF "cell_index" \in columns THEN [kind |-> "cell", name |-> "cell_index"] ELSE Error

Kept(columns, required) == columns \ (required \cup Reserved)

\* AssetPortfolio.__post_init__; the columns of an SQL source are Missing.
Portfolio(columns, id, location, passthrough) ==
    LET where == IF location = Missing THEN Inferred(columns) ELSE location
        required == {id} \cup ToSet(LocationColumns(where)) IN
    IF where = Error THEN Error
    ELSE IF columns # Missing /\ ~(required \subseteq columns) THEN Error
    ELSE [columns |-> columns, id |-> id, location |-> where, inferred |-> passthrough = Missing,
          passthrough |-> IF passthrough # Missing THEN passthrough
                          ELSE IF columns = Missing THEN <<>>
                          ELSE SetToSeq(Kept(columns, required))]

\* Names after those that are there already.
Extend(names, more) == names \o SelectSeq(more, LAMBDA n : n \notin ToSet(names))

\* Mutation of Passthrough: value columns are not looked at.
PassthroughAll(portfolio, values) == portfolio.passthrough

\* write_parquet: an inferred column gives way to a value column of its name.
Passthrough(portfolio, values) ==
    IF portfolio.inferred
    THEN SelectSeq(portfolio.passthrough, LAMBDA n : n \notin ReservedFor(values))
    ELSE portfolio.passthrough

\* The columns that are read: the context of an impact function needs its own.
IdentityColumns(portfolio, values, context) ==
    Extend(Extend(<<portfolio.id>> \o Passthrough(portfolio, values), context),
           LocationColumns(portfolio.location))

\* The asset columns that are written; a cell column is not one of them.
AssetColumns(portfolio, values) ==
    LET first == <<portfolio.id>> \o Passthrough(portfolio, values) IN
    IF portfolio.location.kind = "point" THEN Extend(first, LocationColumns(portfolio.location))
    ELSE first

OutputColumns(portfolio, values, context) ==
    LET identity == IdentityColumns(portfolio, values, context)
        asset == AssetColumns(portfolio, values) IN
    IF \/ portfolio.columns # Missing /\ ~(ToSet(identity) \subseteq portfolio.columns)
       \/ ~IsInjective(identity)
       \/ ToSet(asset) \cap ReservedFor(values) # {}
    THEN Error
    ELSE asset \o SetToSeq(Scenario \cup {"cell_index", "source_id", "spatial_match"}) \o SetToSeq(values)

-----------------------------------------------------------------------------
(* The join.  An asset is [id, at], where `at` is a point or a cell; a curve  *)
(* is [cell, scenario, geometry, source, value].                              *)

\* A second select replaces the filters it names.
Select(current, new) ==
    [f \in DOMAIN current |-> IF new[f] # Missing THEN new[f] ELSE current[f]]

\* A filter without values lets nothing pass.
Passes(curve, filter) == \A f \in DOMAIN filter : filter[f] # Missing => curve.scenario[f] \in filter[f]

CellAt(asset, point) ==
    IF asset.at = Missing THEN Missing ELSE IF point THEN asset.at \div CellSize ELSE asset.at

\* ST_Covers has the boundary, ST_Contains has not.
Covers(geometry, x) == geometry[1] <= x /\ x <= geometry[2]
InsideOf(geometry, x) == geometry[1] < x /\ x < geometry[2]
FromCentroid(geometry, x) ==
    LET d == 2 * x - geometry[1] - geometry[2] IN IF d < 0 THEN -d ELSE d

Candidates(asset, scenario, curves, filter, point) ==
    {c \in curves : /\ asset.at # Missing /\ c.cell = CellAt(asset, point)
                    /\ c.scenario = scenario /\ Passes(c, filter)
                    /\ (point /\ c.geometry # Missing) => Covers(c.geometry, asset.at)}

\* Mutation of Before: the nearest centroid wins, whoever contains the point.
BeforeNearest(c, d, x) ==
    IF c.geometry = Missing \/ d.geometry = Missing
    THEN IF c.geometry = d.geometry THEN c.source < d.source ELSE c.geometry # Missing
    ELSE \/ FromCentroid(c.geometry, x) < FromCentroid(d.geometry, x)
         \/ /\ FromCentroid(c.geometry, x) = FromCentroid(d.geometry, x)
            /\ c.source < d.source

\* The order of a point's candidates: containing it, nearest centroid, source;
\* a row without a geometry comes last.
Before(c, d, x) ==
    IF c.geometry = Missing \/ d.geometry = Missing
    THEN IF c.geometry = d.geometry THEN c.source < d.source ELSE c.geometry # Missing
    ELSE LET inside(e) == InsideOf(e.geometry, x)
             distance(e) == FromCentroid(e.geometry, x) IN
         \/ inside(c) /\ ~inside(d)
         \/ /\ inside(c) = inside(d)
            /\ \/ distance(c) < distance(d)
               \/ distance(c) = distance(d) /\ c.source < d.source

Matched(asset, scenario, curves, filter, point) ==
    LET all == Candidates(asset, scenario, curves, filter, point) IN
    IF ~point THEN all
    ELSE {c \in all : \A d \in all \ {c} : Before(c, d, asset.at)}

\* Mutation of Ambiguous: only curves without a geometry are.
AmbiguousCells(asset, all, point) ==
    Cardinality(all) > 1 /\ \E c \in all : c.geometry = Missing

\* Two geometries that contain the point, or a curve without one and another.
Ambiguous(asset, all, point) ==
    /\ Cardinality(all) > 1
    /\ ~point \/ (\E c \in all : c.geometry = Missing)
              \/ Cardinality({c \in all : InsideOf(c.geometry, asset.at)}) > 1

Scenarios(curves, filter) == {c.scenario : c \in {d \in curves : Passes(d, filter)}}

Value(c) == c.value
Largest(values) == CHOOSE v \in values : \A w \in values : w <= v
Smallest(values) == CHOOSE v \in values : \A w \in values : w >= v

\* Mutation of Aggregate: the largest value, whichever tail.
AggregateLargest(curves, tail) ==
    LET values == {Value(c) : c \in curves} \ {Missing} IN
    IF values = {} THEN Missing ELSE Largest(values)

\* _aggregate_jrc_cells: the worst of the curves of a cell; no data is no value.
Aggregate(curves, tail) ==
    LET values == {Value(c) : c \in curves} \ {Missing} IN
    IF values = {} THEN Missing ELSE IF tail = "upper" THEN Largest(values) ELSE Smallest(values)

\* Mutation of Refused: an asset without a curve is left out.
RefusedUnlessMissing(assets, curves, filter, point, merge) ==
    \/ \E i, j \in DOMAIN assets : i # j /\ assets[i].id = assets[j].id
    \/ \E i \in DOMAIN assets : assets[i].id = Missing
    \/ ~merge /\ \E i \in DOMAIN assets, s \in Scenarios(curves, filter) :
            Ambiguous(assets[i], Candidates(assets[i], s, curves, filter, point), point)

\* Ids that are repeated or null, ambiguous curves, and assets without a curve.
Refused(assets, curves, filter, point, merge) ==
    \/ \E i, j \in DOMAIN assets : i # j /\ assets[i].id = assets[j].id
    \/ \E i \in DOMAIN assets : assets[i].id = Missing
    \/ ~merge /\ \E i \in DOMAIN assets, s \in Scenarios(curves, filter) :
            Ambiguous(assets[i], Candidates(assets[i], s, curves, filter, point), point)
    \/ \E i \in DOMAIN assets, s \in Scenarios(curves, filter) :
            Matched(assets[i], s, curves, filter, point) = {}

\* The rows of the output; the cells of flood curves are merged.
Joined(assets, curves, filter, point, provider, tail) ==
    LET matched(i, s) == Matched(assets[i], s, curves, filter, point)
        pairs == (DOMAIN assets) \X Scenarios(curves, filter) IN
    IF ~point /\ provider = "jrc"
    THEN {[id |-> assets[q[1]].id, scenario |-> q[2], source |-> "jrc-cell-aggregate",
           match |-> "h3_cell_aggregate", value |-> Aggregate(matched(q[1], q[2]), tail)] : q \in pairs}
    ELSE UNION {{[id |-> assets[q[1]].id, scenario |-> q[2], source |-> c.source,
                  match |-> IF point /\ c.geometry # Missing THEN "exact_geometry" ELSE "h3_cell",
                  value |-> c.value] : c \in matched(q[1], q[2])} : q \in pairs}

\* evaluate_hazard_portfolio: the output is staged, and published whole.
Evaluate(assets, curves, filter, point, provider, tail) ==
    IF Refused(assets, curves, filter, point, ~point /\ provider = "jrc") THEN Error
    ELSE Joined(assets, curves, filter, point, provider, tail)

-----------------------------------------------------------------------------
\* A portfolio that was accepted with the columns it found is not refused for
\* them later, unless the caller's own names are reserved, and no name is written
\* twice.
AcceptedColumnsAreWritten(columns, id, location, values, context) ==
    LET portfolio == Portfolio(columns, id, location, Missing)
        output == OutputColumns(portfolio, values, context) IN
    portfolio # Error =>
        LET own == <<id>> \o LocationColumns(portfolio.location) IN
        /\ (/\ IsInjective(own) /\ ToSet(context) \subseteq columns /\ id # "cell_index"
            /\ (ToSet(own) \ {"cell_index"}) \cap ReservedFor(values) = {})
           => output # Error
        /\ output # Error => IsInjective(output) /\ ToSet(output) \subseteq columns \cup ReservedFor(values)

\* Every asset has one row for every scenario, or the portfolio is refused; the
\* row is of the geometry that contains the asset if there is one, else of the
\* nearest that touches it, else of its cell, and the worst of a flood cell's.
EveryAssetHasItsCurve(assets, curves, filter, point, provider, tail) ==
    LET result == Evaluate(assets, curves, filter, point, provider, tail)
        scenarios == Scenarios(curves, filter)
        all(i, s) == Candidates(assets[i], s, curves, filter, point) IN
    IF result = Error
    THEN \/ \E i, j \in DOMAIN assets : i # j /\ assets[i].id = assets[j].id
         \/ \E i \in DOMAIN assets : assets[i].id = Missing
         \/ \E i \in DOMAIN assets, s \in scenarios : all(i, s) = {} \/ Cardinality(all(i, s)) > 1
    ELSE \A i \in DOMAIN assets, s \in scenarios :
        LET own == {r \in result : r.id = assets[i].id /\ r.scenario = s}
            containing == {c \in all(i, s) : c.geometry # Missing /\ InsideOf(c.geometry, assets[i].at)} IN
        /\ Cardinality(own) = 1
        /\ \A r \in own :
            /\ (point /\ containing # {}) => \E c \in containing : r.source = c.source /\ r.value = c.value
            /\ (provider # "jrc" \/ point) => \E c \in all(i, s) : r.source = c.source /\ r.value = c.value
            /\ ~point => \A c \in all(i, s) : c.value # Missing =>
                    r.value # Missing /\ (IF tail = "upper" THEN r.value >= c.value ELSE r.value <= c.value)
=============================================================================
