------------------------------ MODULE CurvePolicy ------------------------------
(***************************************************************************)
(* One pixel of a curve source under an ingest policy                      *)
(* (connectors/adapters.py): the policies that can be made, the sources    *)
(* they are refused for, the estimator and its gates, the fallback family, *)
(* and the rows and the diagnostics record that come of it.  What an       *)
(* estimator computes is an input: family -> fit.                          *)
(***************************************************************************)
EXTENDS Integers, FiniteSets, Sequences, SequencesExt

CONSTANTS
    Missing,    \* a field that is None
    Beyond      \* a return period so long that 1 - 1/T rounds to one

GEV == "genextreme"
LMomentsFamilies == {GEV, "gumbel_r", "gumbel_l"}
SampleMethods == {"sample_mle", "sample_lmoments"}
Within(v, low, high) == (low = Missing \/ v >= low) /\ (high = Missing \/ v <= high)

-----------------------------------------------------------------------------
(* Policies. *)

ValidHurdle(h) == h = Missing \/ h.atom \in 1..99

\* Mutation of ValidPolicy: a fallback is not tied to the estimator it is for.
ValidPolicyAnyFallback(p) ==
    /\ p.method \in SampleMethods => p.hurdle = Missing /\ p.rmse = Missing /\ p.residual = Missing
    /\ p.method = "censored_quantile" => p.hurdle = Missing
    /\ ValidHurdle(p.hurdle)
    /\ p.method = "sample_lmoments" => p.family \in LMomentsFamilies
    /\ \A t \in p.periods : t > 1
    /\ p.low # Missing /\ p.high # Missing => p.low <= p.high
    /\ p.low # Missing \/ p.high # Missing => p.periods # {}
    /\ p.support => p.method \in SampleMethods
    /\ p.fallback # Missing => p.fallback \in LMomentsFamilies \ {GEV} /\ p.diagnostics

\* CurveFitIngestPolicy.__post_init__.
ValidPolicy(p) ==
    /\ p.method \in SampleMethods => p.hurdle = Missing /\ p.rmse = Missing /\ p.residual = Missing
    /\ p.method = "censored_quantile" => p.hurdle = Missing
    /\ ValidHurdle(p.hurdle)
    /\ p.method = "sample_lmoments" => p.family \in LMomentsFamilies
    /\ \A t \in p.periods : t > 1
    /\ p.low # Missing /\ p.high # Missing => p.low <= p.high
    /\ p.low # Missing \/ p.high # Missing => p.periods # {}
    /\ p.support => p.method \in SampleMethods
    /\ p.fallback # Missing =>
        /\ p.family = GEV /\ p.method = "sample_lmoments"
        /\ p.fallback \in LMomentsFamilies \ {GEV}
        /\ p.diagnostics

\* The sources a policy is refused for, before a pixel is read.
Accepts(p, source) ==
    /\ source.tail \in {Missing, p.tail}
    /\ source.axis = "return period"
    /\ p.method \in SampleMethods => source.samples

\* The fitting section of the dataset's metadata.
Provenance(p, source) ==
    [method |-> p.method,
     input |-> IF source.samples THEN "samples" ELSE "probability_labelled",
     families |-> IF p.fallback = Missing THEN <<p.family>> ELSE <<p.family, p.fallback>>,
     low |-> p.low, high |-> p.high, periods |-> p.periods]

-----------------------------------------------------------------------------
(* Gates.  A fit has a quality, sound parameters or not, a range of values   *)
(* it supports, the values at the return periods, and the mass at the bound. *)

\* _validate_return_levels: every configured period, at a probability that
\* can be represented.
LevelsPass(fit, p) ==
    p.periods # {} =>
        /\ p.tail = "upper" => Beyond \notin p.periods
        /\ \A t \in p.periods : Within(fit.level, p.low, p.high)

\* Mutation of SampleFitPasses: the smallest sample is enough.
SampleFitPassesLow(fit, family, samples, p) ==
    /\ fit.sound
    /\ p.support /\ family = GEV =>
        \E i \in DOMAIN samples : samples[i] >= fit.support[1] /\ samples[i] <= fit.support[2]
    /\ LevelsPass(fit, p)

\* _validate_sample_fit: the samples' extremes are inside a GEV's support.
SampleFitPasses(fit, family, samples, p) ==
    /\ fit.sound
    /\ p.support /\ family = GEV =>
        \A i \in DOMAIN samples : fit.support[1] <= samples[i] /\ samples[i] <= fit.support[2]
    /\ LevelsPass(fit, p)

\* _fit_curve: convergence, the two quality gates, the return levels, and for
\* a censored fit a mass at the bound that is no certainty.
QuantileFitPasses(fit, p) ==
    /\ p.method = "censored_quantile" => fit.mass \in 1..99
    /\ fit.converged
    /\ Within(fit.rmse, Missing, p.rmse)
    /\ Within(fit.residual, Missing, p.residual)
    /\ LevelsPass(fit, p)

-----------------------------------------------------------------------------
(* A pixel.  Its values are increasing in the order of its return periods    *)
(* unless it is sampled; Missing is a value that is not finite.              *)

\* The values that are finite, in their places.
Known(values) == [i \in {j \in DOMAIN values : values[j] # Missing} |-> values[i]]

TooFew(values) == Cardinality(DOMAIN values) < 4
Alike(values) == \A i, j \in DOMAIN values : values[i] = values[j]
Monotone(values) == \A i, j \in DOMAIN values : i < j => values[i] <= values[j]

Skipped(reason, attempted, failed) ==
    [outcome |-> "skipped", reason |-> reason, family |-> Missing,
     attempted |-> attempted, failed |-> failed]

Fit(family, attempted, failed) ==
    [outcome |-> "fitted", reason |-> IF failed = <<>> THEN Missing ELSE "primary_fit_failed",
     family |-> family, attempted |-> attempted, failed |-> failed]

Failure(attempted, failed) == [outcome |-> "failed", attempted |-> attempted, failed |-> failed]

\* Mutation of Refit: the fallback is tried under the primary's own checks.
RefitUnchecked(values, p, fits) ==
    IF fits[p.fallback].sound THEN Fit(p.fallback, <<p.family, p.fallback>>, <<p.family>>)
    ELSE Failure(<<p.family, p.fallback>>, <<p.family, p.fallback>>)

\* The fallback family under a policy of its own: replace() checks it anew.
Refit(values, p, fits) ==
    LET q == [p EXCEPT !.family = p.fallback, !.fallback = Missing]
        both == <<p.family, p.fallback>>
    IN  IF ValidPolicy(q) /\ SampleFitPasses(fits[q.family], q.family, values, q)
        THEN Fit(q.family, both, <<p.family>>)
        ELSE Failure(both, both)

\* One estimator for a pixel of samples or of quantiles.
Estimate(values, p, fits) ==
    IF p.method \in SampleMethods
    THEN CASE Alike(values) -> Failure(<<p.family>>, <<>>)
           [] OTHER ->
                IF SampleFitPasses(fits[p.family], p.family, values, p) THEN Fit(p.family, <<p.family>>, <<>>)
                ELSE IF p.fallback = Missing THEN Failure(<<p.family>>, <<p.family>>)
                ELSE Refit(values, p, fits)
    ELSE IF Monotone(values) /\ QuantileFitPasses(fits[p.family], p)
         THEN Fit(p.family, <<p.family>>, <<>>)
         ELSE Failure(<<p.family>>, <<>>)

FailureReason(p) == IF p.method = "censored_quantile" THEN "censored_fit_failed" ELSE "fit_failed"

\* What becomes of a pixel that covers `cells` cells: its diagnostics record,
\* or an error that ends the stream.
Pixel(pixel, p, fits) ==
    LET values == Known(pixel.values)
        fit == Estimate(values, p, fits)
    IN  IF TooFew(values) THEN Skipped("too_few_knots", <<p.family>>, <<p.family>>)
        ELSE IF fit.outcome = "failed"
        THEN IF p.failure = "skip"
             THEN Skipped(FailureReason(p), fit.attempted,
                          IF fit.failed = <<>> THEN <<p.family>> ELSE fit.failed)
             ELSE [outcome |-> "error"]
        ELSE IF pixel.cells = {} THEN Skipped("no_cells", <<p.family>>, <<p.family>>)
        ELSE fit

\* A row for each cell; a point is in one cell.
Rows(pixel, p, fits) ==
    LET result == Pixel(pixel, p, fits) IN
    IF result.outcome # "fitted" THEN {}
    ELSE {[cell |-> c, family |-> result.family,
           kind |-> IF p.method = "censored_quantile" \/ p.hurdle # Missing THEN "hurdle" ELSE "fitted",
           atom |-> CASE p.method = "censored_quantile" -> fits[p.family].mass
                      [] p.hurdle # Missing -> p.hurdle.atom
                      [] OTHER -> Missing] : c \in pixel.cells}

-----------------------------------------------------------------------------
(* Properties. *)

\* A curve that is published passes every gate of the policy, whichever family
\* made it; another family than the policy's is its fallback, after the first
\* was tried and failed; and a hurdle's atom is neither impossible nor certain.
PublishedCurvesPass(pixel, p, fits) ==
    \A row \in Rows(pixel, p, fits) :
        LET f == fits[row.family]
            record == Pixel(pixel, p, fits)
        IN  /\ \A t \in p.periods : Within(f.level, p.low, p.high)
            /\ p.method \in SampleMethods => f.sound
            /\ p.support /\ row.family = GEV =>
                \A v \in ToSet(pixel.values) \ {Missing} : v \in f.support[1]..f.support[2]
            /\ p.method \notin SampleMethods => f.converged /\ Within(f.rmse, Missing, p.rmse)
            /\ row.family # p.family =>
                row.family = p.fallback /\ record.failed = <<p.family>> /\ p.diagnostics
            /\ row.kind = "hurdle" <=> row.atom # Missing
            /\ row.kind = "hurdle" => row.atom \in 1..99

\* A policy that can be made can be met: where every family fits, a pixel of
\* an accepted source gets its rows, one for each of its cells, from the
\* policy's own family, and from the fallback when only that one fits; but for
\* return periods beyond what a probability can hold.
AcceptedPoliciesFit(pixel, p, fits) ==
    LET values == Known(pixel.values)
        Usable(family) == /\ fits[family].sound /\ fits[family].converged /\ fits[family].mass \in 1..99
                          /\ Within(fits[family].rmse, Missing, p.rmse)
                          /\ Within(fits[family].residual, Missing, p.residual)
                          /\ Within(fits[family].level, p.low, p.high)
                          /\ \A i \in DOMAIN values : values[i] \in fits[family].support[1]..fits[family].support[2]
        suits == /\ ~TooFew(values) /\ ~Alike(values) /\ Monotone(values)
                 /\ Beyond \in p.periods => p.tail = "lower"
    IN  suits =>
        /\ Usable(p.family) => {r.cell : r \in Rows(pixel, p, fits)} = pixel.cells
                               /\ \A r \in Rows(pixel, p, fits) : r.family = p.family
        /\ p.fallback # Missing /\ Usable(p.fallback) => {r.cell : r \in Rows(pixel, p, fits)} = pixel.cells

\* The record of a pixel accounts for every family that was tried, in the order
\* the dataset's provenance gives, and every pixel without a row has a reason;
\* what a sample estimator was given, the provenance of an accepted source calls
\* samples.
RecordsAccount(pixel, p, source, fits) ==
    LET record == Pixel(pixel, p, fits)
        told == Provenance(p, source)
    IN  record.outcome # "error" =>
        /\ p.method \in SampleMethods => told.input = "samples"
        /\ IsPrefix(record.attempted, told.families)
        /\ record.outcome = "skipped" <=> Rows(pixel, p, fits) = {}
        /\ record.outcome = "skipped" => record.reason # Missing
        /\ record.outcome = "fitted" => Append(record.failed, record.family) = record.attempted
        /\ record.outcome = "skipped" => IsPrefix(record.failed, record.attempted)
=============================================================================
