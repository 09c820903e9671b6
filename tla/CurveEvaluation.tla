---------------------------- MODULE CurveEvaluation ----------------------------
(***************************************************************************)
(* Canonical curve rows evaluated at return periods                        *)
(* (workflows/distributions.py): periods to probabilities and column       *)
(* names, what is warned about, and the evaluation of batches of rows,     *)
(* which remembers curves it has seen and may be spread over processes.    *)
(*                                                                         *)
(* A period is in hundredths, a probability a fraction <<n, d>>.  The      *)
(* quantile of a curve and the result of an impact function are            *)
(* uninterpreted: tuples of what they depend on.                           *)
(***************************************************************************)
EXTENDS Integers, FiniteSets, Sequences, SequencesExt

CONSTANTS
    Missing,    \* None, or a null
    Error,      \* an exception
    ProbeRows,  \* _MEMO_PROBE_ROWS
    Cpus        \* detected_cpu_count

-----------------------------------------------------------------------------
(* Return periods. *)

ValidPeriods(periods) ==
    periods # <<>> /\ (\A i \in DOMAIN periods : periods[i] > 100) /\ IsInjective(periods)

\* Mutation of Probability: the lower tail is read as the upper one.
ProbabilityOfUpper(period, tail, convention) ==
    IF convention = "poisson" THEN [exp |-> period, complement |-> FALSE]
    ELSE <<period - 100, period>>

\* The probability a curve is evaluated at: exp(-1/T) or 1 - 1/T for the upper
\* tail, their complements for the lower one.
Probability(period, tail, convention) ==
    IF convention = "poisson" THEN [exp |-> period, complement |-> tail = "lower"]
    ELSE IF tail = "upper" THEN <<period - 100, period>> ELSE <<100, period>>

ToProbabilities(periods, tail, convention) ==
    IF ~ValidPeriods(periods) THEN Error
    ELSE [i \in DOMAIN periods |-> Probability(periods[i], tail, convention)]

\* _period_label: the whole part and the decimals that are left without zeros.
Label(period) ==
    IF period % 100 = 0 THEN <<period \div 100>>
    ELSE IF period % 10 = 0 THEN <<period \div 100, (period % 100) \div 10>>
    ELSE <<period \div 100, (period % 100) \div 10, period % 10>>

ValueColumns(periods) ==
    LET columns == [i \in DOMAIN periods |-> Label(periods[i])] IN
    IF ~ValidPeriods(periods) \/ ~IsInjective(columns) THEN Error ELSE columns

Extrapolated(periods, support) ==
    IF ~ValidPeriods(periods) THEN Error
    ELSE IF support = Missing THEN <<>>
    ELSE SelectSeq(periods, LAMBDA t : t < support[1] \/ t > support[2])

\* Only these two are not the probability of a year.
NotReturnPeriods == {"within_period_percentile", "projection_uncertainty"}

CheckSemantics(semantics, strict) ==
    IF semantics \notin NotReturnPeriods THEN TRUE ELSE IF strict THEN Error ELSE FALSE

\* A window without years is time-invariant and has a reference year.
InsideWindow(horizon, window, strict) ==
    LET inside == IF window.kind = "time_invariant" THEN horizon = window.reference
                  ELSE horizon \in window.start .. window.end IN
    IF window = Missing \/ inside THEN TRUE ELSE IF strict THEN Error ELSE FALSE

-----------------------------------------------------------------------------
(* One row: [curve, sign, kind, cell, context].  The curve's parameters are a *)
(* number and its sign; the number 0 has two signs that compare equal.  The   *)
(* kind is "plain", "list" (tabulated), "no_data" or "invalid".               *)

Quantiles(row, probabilities) ==
    IF row.kind = "no_data" THEN Missing
    ELSE [i \in DOMAIN probabilities |-> <<row.curve, row.sign, probabilities[i]>>]

\* Mutation of Key: 0.0 and -0.0 are one key.
KeyUnsigned(row) == <<row.kind, row.curve, IF row.curve = 0 THEN 1 ELSE row.sign>>

\* _curve_key.
Key(row) == <<row.kind, row.curve, row.sign>>

\* Mutation of Context: a missing value is put in the context.
ContextOfRow(row, impact) ==
    [field \in DOMAIN impact.base |->
        IF field = "cell" \/ field \in impact.columns THEN row.context[field]
        ELSE impact.base[field]]

\* The row's cell and asset columns, where it has them, over the function's own.
Context(row, impact) ==
    [field \in DOMAIN impact.base |->
        IF (field = "cell" \/ field \in impact.columns) /\ row.context[field] # Missing
        THEN row.context[field] ELSE impact.base[field]]

Outcome(row, values, impact, width) ==
    IF values = Missing THEN [i \in 1..width |-> Missing]
    ELSE IF impact = Missing THEN values
    ELSE [i \in 1..width |-> <<values, Context(row, impact), i>>]

\* One row more: curves seen before are not evaluated again, until the first
\* rows have turned out to be nearly all distinct; lists cannot be remembered.
Step(done, row, probabilities, impact) ==
    LET rows == Len(done.results)
        memoize == done.memoize /\ ~(rows = ProbeRows /\ 10 * Cardinality(DOMAIN done.seen) > 9 * rows)
        keyed == memoize /\ row.kind # "list"
        key == Key(row)
        values == IF keyed /\ key \in DOMAIN done.seen THEN done.seen[key]
                  ELSE Quantiles(row, probabilities) IN
    [memoize |-> memoize,
     seen |-> IF keyed THEN [k \in DOMAIN done.seen \cup {key} |->
                                IF k = key THEN values ELSE done.seen[k]]
              ELSE done.seen,
     results |-> Append(done.results, Outcome(row, values, impact, Len(probabilities)))]

\* What is known and remembered after each of the first rows.
Evaluated(rows, probabilities, impact) ==
    LET done[n \in 0..Len(rows)] ==
            IF n = 0 THEN [memoize |-> TRUE, seen |-> <<>>, results |-> <<>>]
            ELSE Step(done[n - 1], rows[n], probabilities, impact)
    IN  done

\* _curve_quantiles; a row whose curve is not valid raises.
CurveQuantiles(rows, probabilities, impact) == Evaluated(rows, probabilities, impact)[Len(rows)].results

-----------------------------------------------------------------------------
(* Batches. *)

\* Mutation of Chunks: rows after the last whole chunk are left out.
ChunksWhole(rows, size) ==
    [i \in 1..Len(rows) \div size |-> SubSeq(rows, (i - 1) * size + 1, i * size)]

Chunks(rows, size) ==
    [i \in 1..(Len(rows) + size - 1) \div size |->
        SubSeq(rows, (i - 1) * size + 1, IF i * size < Len(rows) THEN i * size ELSE Len(rows))]

\* _evaluate_in_chunks: the pool's results are in the order of the chunks.
InChunks(rows, probabilities, size, pool, impact) ==
    IF ~pool \/ Len(rows) <= size THEN CurveQuantiles(rows, probabilities, impact)
    ELSE LET chunks == Chunks(rows, size) IN
         FlattenSeq([i \in DOMAIN chunks |-> CurveQuantiles(chunks[i], probabilities, impact)])

\* A pool is opt-in, unless rows run an impact function.
Workers(max, impact) ==
    IF max # Missing THEN max ELSE IF impact # Missing THEN Cpus ELSE 1

ValidOutput(probabilities, columns, passthrough) ==
    /\ probabilities # <<>> /\ Len(probabilities) = Len(columns)
    /\ IsInjective(columns) /\ ToSet(columns) \cap passthrough = {}

\* stream_curve_quantiles_wide_to_parquet: what is published; an exception leaves
\* the staged file behind it and the output as it was.
Stream(batches, probabilities, columns, passthrough, options) ==
    LET rows == FlattenSeq(batches)
        pool(batch) == Len(batch) > options.chunk /\ Workers(options.workers, options.impact) > 1 IN
    IF ~ValidOutput(probabilities, columns, passthrough) \/ (\E i \in DOMAIN rows : rows[i].kind = "invalid")
    THEN Error
    ELSE FlattenSeq([b \in DOMAIN batches |->
            InChunks(batches[b], probabilities, options.chunk, pool(batches[b]), options.impact)])

-----------------------------------------------------------------------------
\* The result of a call that fails is none of the results of a call that does
\* not, and a missing value is not the values of a curve.
PeriodsAreApart(periods) ==
    /\ \A tail \in {"upper", "lower"} :
        Error # [i \in DOMAIN periods |-> Probability(periods[i], tail, "one_minus_inverse")]
    /\ Error # [i \in DOMAIN periods |-> Label(periods[i])]

ResultsAreApart(rows, probabilities, impact) ==
    /\ Error # [i \in DOMAIN rows |->
                    Outcome(rows[i], Quantiles(rows[i], probabilities), impact, Len(probabilities))]
    /\ \A i \in DOMAIN rows : rows[i].kind # "no_data" => Quantiles(rows[i], probabilities) # Missing

\* Periods that are accepted have names and probabilities of their own, the tails
\* are complements, and a longer period is further out in its tail.
PeriodsAreMapped(periods) ==
    LET upper == ToProbabilities(periods, "upper", "one_minus_inverse")
        lower == ToProbabilities(periods, "lower", "one_minus_inverse") IN
    /\ (upper = Error) = (lower = Error) /\ (upper = Error) = (ValueColumns(periods) = Error)
    /\ upper # Error => \A i, j \in DOMAIN periods :
        /\ upper[i][1] * lower[i][2] + lower[i][1] * upper[i][2] = upper[i][2] * lower[i][2]
        /\ periods[i] > periods[j] =>
            /\ upper[i][1] * upper[j][2] > upper[j][1] * upper[i][2]
            /\ lower[i][1] * lower[j][2] < lower[j][1] * lower[i][2]

\* However the rows are cut into batches and chunks, whatever was remembered and
\* whoever evaluated it, a row's values are those of its own curve and context,
\* at its place; one invalid row and nothing is published.
EvaluationIsPerRow(batches, probabilities, columns, passthrough, options) ==
    LET rows == FlattenSeq(batches)
        result == Stream(batches, probabilities, columns, passthrough, options)
        own(r) == Outcome(r, Quantiles(r, probabilities), options.impact, Len(probabilities)) IN
    IF result = Error
    THEN ~ValidOutput(probabilities, columns, passthrough) \/ \E i \in DOMAIN rows : rows[i].kind = "invalid"
    ELSE /\ Len(result) = Len(rows)
         /\ \A i \in DOMAIN rows :
                /\ result[i] = own(rows[i])
                /\ options.impact # Missing /\ rows[i].kind # "no_data" =>
                    \A field \in DOMAIN options.impact.base :
                        result[i][1][2][field] # Missing
=============================================================================
