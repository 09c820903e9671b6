--------------------------- MODULE BlockReduction ---------------------------
(***************************************************************************)
(* Block-extrema curves (connectors/blocks.py): how a calendar is cut into *)
(* blocks, sub-daily samples become days, days become one value per block, *)
(* block values become an empirical curve, and how a window of a grid is   *)
(* selected and streamed in strips.                                        *)
(*                                                                         *)
(* Integers stand for values, hours and grid coordinates.  A fraction is a *)
(* pair; a month is the number of months since year 0.                     *)
(***************************************************************************)
EXTENDS Integers, FiniteSets, Sequences, SequencesExt

CONSTANT Missing    \* NaN

Ceiling(n, d) == (n + d - 1) \div d
Sum(f, S) == MapThenSumSet(LAMBDA x : f[x], S)

-----------------------------------------------------------------------------
(* Blocks: one per label year. *)

Month(year, month) == 12 * year + month - 1

\* Mutation of Span: a season that wraps the new year starts in its label year.
SpanUnwrapped(block, label) ==
    CASE block.kind = "annual" -> <<Month(label, 1), Month(label + 1, 1)>>
      [] block.kind = "water_year" ->
            <<Month(label - 1, block.start), Month(label, block.start)>>
      [] block.kind = "season" ->
            LET first == Head(block.months)
                last == block.months[Len(block.months)]
            IN <<Month(label, first), Month(label, last) + 1>>

\* BlockDefinition.span: [start, stop) in months.
Span(block, label) ==
    CASE block.kind = "annual" -> <<Month(label, 1), Month(label + 1, 1)>>
      [] block.kind = "water_year" ->
            <<Month(label - 1, block.start), Month(label, block.start)>>
      [] block.kind = "season" ->
            LET first == Head(block.months)
                last == block.months[Len(block.months)]
                start == IF last >= first THEN label ELSE label - 1
            IN <<Month(start, first), Month(label, last) + 1>>

ValidSeason(months) ==
    /\ Len(months) \in 1..11
    /\ \A i \in 1..Len(months) : months[i] \in 1..12
    /\ \A i \in 1..Len(months) - 1 : months[i + 1] = (months[i] % 12) + 1

\* Blocks of successive labels do not overlap, a block ends in its label year
\* and holds the months it is named for; years leave no gap between them.
BlocksPartitionTime(block, label) ==
    LET span == Span(block, label)
        next == Span(block, label + 1)
        months == {(m % 12) + 1 : m \in span[1]..span[2] - 1}
    IN  /\ span[1] < span[2] /\ span[2] <= next[1]
        /\ (span[2] - 1) \div 12 = label
        /\ block.kind # "season" => span[2] = next[1] /\ Cardinality(months) = 12
        /\ block.kind = "season" =>
            /\ months = Range(block.months) /\ span[2] - span[1] = Len(block.months)

-----------------------------------------------------------------------------
(* Days: agg = [how, step, valid, offset, endStamps], in hours. *)

\* The local start of the interval a stamp stands for.
StampShift(agg) == agg.offset - (IF agg.endStamps THEN agg.step ELSE 0)

\* Mutation of DayOf: the stamp is taken for the start of its interval.
DayOfStamp(stamp, agg) == (stamp + agg.offset) \div 24

DayOf(stamp, agg) == (stamp + StampShift(agg)) \div 24

Needed(fraction, n) == LET k == Ceiling(fraction[1] * n, fraction[2]) IN IF k > 1 THEN k ELSE 1

\* aggregate_daily: samples maps stamps to values or Missing; day d of days days.
AggregateDaily(samples, agg, days) ==
    [d \in 1..days |->
        LET own == {t \in DOMAIN samples :
                        samples[t] # Missing /\ DayOf(t, agg) = d - 1}
            values == {samples[t] : t \in own}
        IN  IF Cardinality(own) < Needed(agg.valid, 24 \div agg.step) THEN Missing
            ELSE CASE agg.how = "max" -> Max(values)
                   [] agg.how = "min" -> Min(values)
                   [] agg.how = "sum" -> Sum(samples, own)]

\* With enough samples in every day each interval counts once, in the local day
\* it covers: the totals of whole days are the total of their samples.
IntervalsFallInTheirDay(samples, agg, days) ==
    LET daily == AggregateDaily(samples, [agg EXCEPT !.how = "sum"], days)
        within == {t \in DOMAIN samples :
            LET start == t + agg.offset - (IF agg.endStamps THEN agg.step ELSE 0)
            IN  start >= 0 /\ start + agg.step <= 24 * days}
    IN  (\A d \in 1..days : daily[d] # Missing) =>
            Sum(daily, 1..days) = Sum(samples, {t \in within : samples[t] # Missing})

-----------------------------------------------------------------------------
(* Blocks of days: stat = [kind, window, rolling, threshold]. *)

Severer(stat, a, b) == IF stat.kind \in {"min", "count_below"} THEN a < b ELSE a > b

Valid(days) == {i \in 1..Len(days) : days[i] # Missing}

\* Mutation of Windows: a gap is bridged.
WindowsOverGaps(days, k) == {i \in 1..Len(days) - k + 1 : i \in Valid(days)}

\* The starts of the windows of k valid days.
Windows(days, k) == {i \in 1..Len(days) - k + 1 : i..i + k - 1 \subseteq Valid(days)}

WindowSum(days, i, k) ==
    Sum(days, {j \in i..i + k - 1 : days[j] # Missing})

\* reduce_days: one value for the block, or Missing.
ReduceDays(days, stat, valid) ==
    LET sums == {WindowSum(days, i, stat.window) : i \in Windows(days, stat.window)} IN
    IF Len(days) = 0 \/ Cardinality(Valid(days)) < Needed(valid, Len(days)) THEN Missing
    ELSE CASE stat.kind = "count_above" ->
                Cardinality({i \in Valid(days) : days[i] > stat.threshold})
           [] stat.kind = "count_below" ->
                Cardinality({i \in Valid(days) : days[i] < stat.threshold})
           [] stat.kind = "max" -> IF sums = {} THEN Missing ELSE Max(sums)
           [] stat.kind = "min" -> IF sums = {} THEN Missing ELSE Min(sums)

\* A block that still has a value with any of its days lost had one before.  An
\* extreme is then no more severe than it was.  A count is lower, by no more than
\* the days min_valid_fraction lets be missing: for count_below, whose severe
\* tail is the low one, a record with gaps does look more severe.
GapsAreBounded(days, stat, valid) ==
    LET full == ReduceDays(days, stat, valid) IN
    \A lost \in SUBSET Valid(days) :
        LET gap == ReduceDays([i \in 1..Len(days) |-> IF i \in lost THEN Missing ELSE days[i]],
                              stat, valid)
        IN  gap # Missing =>
                /\ full # Missing
                /\ IF stat.kind \in {"max", "min"} THEN ~Severer(stat, gap, full)
                   ELSE full - gap \in 0..Len(days) - Needed(valid, Len(days))

-----------------------------------------------------------------------------
(* Curves: block values, sorted; a return period is a fraction. *)

MinimumBlocks == 4

\* Mutation of Rank: the ranks run from the mild end.
RankMild(i, n, tail) == IF tail = "upper" THEN i ELSE n + 1 - i

\* The values ascend; the severe end has rank 1.
Rank(i, n, tail) == IF tail = "upper" THEN n + 1 - i ELSE i

\* plotting_position_curve: periods by Gringorten's constant 0.44, in value order.
PlottingPositions(blocks, tail, minimum) ==
    LET values == SortSeq(SelectSeq(blocks, LAMBDA v : v # Missing), <)
        n == Len(values)
    IN  IF n < minimum \/ n < MinimumBlocks THEN << >>
        ELSE [i \in 1..n |-> [period |-> <<100 * n + 12, 100 * Rank(i, n, tail) - 44>>,
                              value |-> values[i]]]

\* iter_curves: what becomes of a cell of the window, a curve or a reason.
CellOutcome(blocks, tail, minimum) ==
    LET curve == PlottingPositions(blocks, tail, minimum) IN
    [curve |-> curve,
     reason |-> IF Valid(blocks) = {} THEN "no_data"
                ELSE IF curve = << >> THEN "too_few_blocks" ELSE "none"]

\* gringorten_support: the shortest and the longest period of n blocks.
Support(n) == <<<<100 * n + 12, 100 * n - 44>>, <<100 * n + 12, 56>>>>

Longer(p, q) == p[1] * q[2] > q[1] * p[2]

\* The longest period goes with the severest value, whichever tail is severe,
\* all periods lie in the stated support, and the two tails mirror each other.
SeverityHasThePeriod(blocks, tail, minimum) ==
    LET outcome == CellOutcome(blocks, tail, minimum)
        curve == outcome.curve
        n == Len(curve)
        mirror == PlottingPositions(
            [i \in 1..Len(blocks) |-> IF blocks[i] = Missing THEN Missing ELSE -blocks[i]],
            IF tail = "upper" THEN "lower" ELSE "upper", minimum)
    IN  IF outcome.reason # "none" THEN Cardinality(Valid(blocks)) < minimum ELSE
        /\ n = Cardinality(Valid(blocks)) /\ n >= minimum
        /\ \A i, j \in 1..n : Longer(curve[i].period, curve[j].period) =>
            IF tail = "upper" THEN curve[i].value >= curve[j].value
                              ELSE curve[i].value <= curve[j].value
        /\ {curve[i].period : i \in {1, n}} = Range(Support(n))
        /\ \A i \in 1..n : mirror[n + 1 - i] = [curve[i] EXCEPT !.value = -curve[i].value]

-----------------------------------------------------------------------------
(* Grid windows: longitudes on a circle of `circle` units, cells of width 4. *)

Half == 2
Normal(x, circle) == ((x + circle \div 2) % circle) - circle \div 2

\* Mutation of Seam: the meridian stays in the west.
SeamWest(x, low, circle) == x

\* The meridian of the seam is in the east for a window that does not start
\* in the west.
Seam(x, low, circle) ==
    IF low > Half - circle \div 2 /\ x = -(circle \div 2) THEN circle \div 2 ELSE x

\* select_grid_window: the columns and their longitudes, west to east; a single
\* column borrows its neighbour.
GridWindow(lon, low, high, circle) ==
    LET at == [i \in 1..Len(lon) |-> Seam(Normal(lon[i], circle), low, circle)]
        inside == {i \in 1..Len(lon) : at[i] >= low - Half /\ at[i] <= high + Half}
        columns == SetToSortSeq(inside, LAMBDA i, j : at[i] < at[j])
        only == Head(columns)
        other == IF only < Len(lon) THEN only + 1 ELSE only - 1
        place(i) == at[only] + Normal(lon[i] - lon[only], circle)
    IN  IF inside = {} THEN << >>
        ELSE IF Len(columns) > 1
        THEN [k \in 1..Len(columns) |-> [column |-> columns[k], lon |-> at[columns[k]]]]
        ELSE LET pair == <<Min({only, other}), Max({only, other})>>
             IN  [k \in 1..2 |-> [column |-> pair[k], lon |-> place(pair[k])]]

\* Each selected column is where its longitude says and near the window,
\* neighbours are a step apart or more, and together they hold all that the
\* grid has of the window (a cell on the seam is at one of its sides).  The
\* seam is a centre or an edge of the grid's cells.
WindowCovers(lon, low, high, circle) ==
    LET window == GridWindow(lon, low, high, circle)
        same(x, y) == (x - y) % circle = 0
        holds(c, x) == \E d \in 1 - Half..Half - 1 : same(c + d, x)
    IN  /\ \A k \in 1..Len(window) :
            /\ same(window[k].lon, lon[window[k].column])
            /\ window[k].lon \in low - 3 * Half..high + 3 * Half
        /\ \A k \in 1..Len(window) - 1 : window[k].lon + 2 * Half <= window[k + 1].lon
        /\ \A x \in low..high, c \in Range(lon) :
            holds(c, x) => \E k \in 1..Len(window) : holds(window[k].lon, x)

\* _index_range: the half-open range of the rows that touch [low, high], along
\* an ascending or a descending axis.
IndexRange(coords, low, high) ==
    LET hit == {i \in 1..Len(coords) : coords[i] >= low - Half /\ coords[i] <= high + Half}
    IN  IF hit = {} THEN << >> ELSE <<Min(hit), Max(hit) + 1>>

\* Every row of the range touches the bounds, and no other row does.
RangeIsExact(coords, low, high) ==
    LET range == IndexRange(coords, low, high) IN
    \A i \in 1..Len(coords) :
        (range # << >> /\ i >= range[1] /\ i < range[2]) <=>
            \E d \in -Half..Half : coords[i] + d \in low..high

\* contiguous_runs: maximal runs of consecutive columns, [start, stop).
Runs(columns) ==
    LET n == Len(columns)
        starts == {1} \cup {i \in 2..n : columns[i] # columns[i - 1] + 1}
        stop(i) == Min({j \in i..n : j = n \/ j + 1 \in starts})
        order == SetToSortSeq(starts, <)
    IN  IF n = 0 THEN << >>
        ELSE [k \in 1..Len(order) |-> <<columns[order[k]], columns[stop(order[k])] + 1>>]

RunsAreTheColumns(columns) ==
    FlattenSeq([k \in 1..Len(Runs(columns)) |->
        [i \in 1..Runs(columns)[k][2] - Runs(columns)[k][1] |-> Runs(columns)[k][1] + i - 1]])
            = columns

-----------------------------------------------------------------------------
(* Strips: budget and width in values; leading samples per pixel. *)

\* _strip_row_count: a multiple of the block height that fits, or one block.
StripRows(budget, width, height, leading) ==
    LET fit == Max({height, budget \div Max({1, width * leading})})
    IN  Max({height, (fit \div height) * height})

\* iter_curves: the strips of rows [start, stop).
Strips(start, stop, rows) ==
    [k \in 1..Ceiling(stop - start, rows) |->
        <<start + (k - 1) * rows, Min({start + k * rows, stop})>>]

\* The strips are the window, each of them within the budget unless a single
\* block of rows exceeds it.
StripsTileTheWindow(budget, width, height, leading, start, stop) ==
    LET rows == StripRows(budget, width, height, leading)
        strips == Strips(start, stop, rows)
    IN  /\ rows * width * leading <= Max({budget, height * width * leading})
        /\ \A r \in start..stop - 1 :
            Cardinality({k \in 1..Len(strips) : r >= strips[k][1] /\ r < strips[k][2]}) = 1
        /\ \A k \in 1..Len(strips) : strips[k][2] <= stop
=============================================================================
