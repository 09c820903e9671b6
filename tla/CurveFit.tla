------------------------------- MODULE CurveFit -------------------------------
(***************************************************************************)
(* How one source row becomes a canonical curve (fitting/workflows.py,     *)
(* workflows/distributions.py): the probability axis, the screens, the     *)
(* families tried in order, the tabulated fallback and the physical lower  *)
(* bound.  Probabilities are counted in units of 1/One.  What a parametric *)
(* fit computes is an input: the families that pass the policy's gates.    *)
(***************************************************************************)
EXTENDS Integers, FiniteSets, Sequences, SequencesExt, FiniteSetsExt

CONSTANTS
    Missing,    \* a value that is NaN, and a field that is None
    One         \* the probability one; a multiple of the return periods

MinimumFitKnots == 4

Rejected(reason) == [kind |-> "rejected", reason |-> reason]
NoData(reason) == [kind |-> "no_data", reason |-> reason]
PointMass(at) == [kind |-> "point_mass", at |-> at]
Tabulated(knots) == [kind |-> "tabulated", knots |-> knots]
Fitted(family, failed) == [kind |-> "fitted", family |-> family, failed |-> failed]

\* A knot is a pair <<probability, value>>.
Prob(knots) == [i \in DOMAIN knots |-> knots[i][1]]
Value(knots) == [i \in DOMAIN knots |-> knots[i][2]]
AtLeast(v, bound) == IF bound # Missing /\ v < bound THEN bound ELSE v

-----------------------------------------------------------------------------
(* The axis. *)

\* Mutation of Probability: the lower tail is read like the upper one.
ProbabilityUpper(period, tail) == One - One \div period

\* The non-exceedance probability of a return period, 1 - 1/T or 1/T.
Probability(period, tail) ==
    IF tail = "upper" THEN One - One \div period ELSE One \div period

\* Rows on their own axis, in the stable order of its labels.
Sorted(axis, values) ==
    SortSeq([i \in DOMAIN axis |-> <<axis[i], values[i]>>], LAMBDA a, b : a[1] < b[1])

\* _prepare_row: a row's knots, or why it is rejected.
PrepareRow(row, policy) ==
    LET axis == IF row.kind = "periods"
                THEN [i \in DOMAIN row.axis |-> Probability(row.axis[i], policy.tail)]
                ELSE row.axis
    IN  IF Len(row.axis) = 0 /\ row.kind # "shared" THEN Rejected("missing_axis_labels")
        ELSE IF Len(row.axis) # Len(row.values) THEN Rejected("axis_length_mismatch")
        ELSE IF row.kind = "periods" /\ \E i \in DOMAIN row.axis : row.axis[i] <= 1
             THEN Rejected("invalid_return_periods")
        ELSE IF \E i \in DOMAIN axis : axis[i] \notin 0..One THEN Rejected("invalid_probabilities")
        ELSE IF ~IsInjective(axis) THEN Rejected("duplicate_axis_labels")
        ELSE [kind |-> "knots", knots |-> Sorted(axis, row.values)]

\* _resample_samples: order statistics on `count` even probabilities, each
\* multiplied by count - 1.
Resample(samples, count, bound) ==
    LET n == Len(samples)
        s == [i \in 1..n |-> AtLeast(SortSeq(samples, <)[i], bound)]
        At(k) == LET position == k * (n - 1)
                     i == 1 + position \div (count - 1)
                     part == position % (count - 1)
                 IN  s[i] * (count - 1) + IF part = 0 THEN 0 ELSE (s[i + 1] - s[i]) * part
    IN  [k \in 1..count |-> At(k - 1)]

-----------------------------------------------------------------------------
(* The screens and the families. *)

\* The policies that can be made.
ValidPolicy(policy) ==
    /\ IsInjective(policy.families)
    /\ policy.short \in {"tabulated", "reject"} /\ policy.failure \in {"raise", "skip", "tabulated"}
    /\ policy.knots >= 0 /\ policy.distinct >= 0
    /\ policy.version = "1.2" => policy.bound = Missing

Or(value, default) == IF value = Missing THEN default ELSE value

\* Mutation of Eligibility: the search for an override does not stop at the
\* row's own name.
EligibilityOfAlias(policy, labels) ==
    LET named == {i \in DOMAIN labels : labels[i] \in DOMAIN policy.overrides}
        r == policy.registry
    IN  [floor |-> IF named # {} THEN policy.overrides[labels[Max(named)]]
                   ELSE IF r # Missing THEN r.floor ELSE policy.floor,
         knots |-> IF r # Missing THEN Or(r.knots, policy.knots) ELSE policy.knots,
         distinct |-> IF r # Missing THEN Or(r.distinct, policy.distinct) ELSE policy.distinct]

\* The screens of a hazard.  Its floor is an override under the row's name, the
\* canonical name or an alias, in this order, then the registry's, then the
\* policy's.
Eligibility(policy, labels) ==
    LET named == {i \in DOMAIN labels : labels[i] \in DOMAIN policy.overrides}
        r == policy.registry
    IN  [floor |-> IF named # {} THEN policy.overrides[labels[Min(named)]]
                   ELSE IF r # Missing THEN r.floor ELSE policy.floor,
         knots |-> IF r # Missing THEN Or(r.knots, policy.knots) ELSE policy.knots,
         distinct |-> IF r # Missing THEN Or(r.distinct, policy.distinct) ELSE policy.distinct]

Constant(seq) == \A i \in DOMAIN seq : seq[i] = seq[1]

\* Mutation of Compact: the ends of plateaus go with their interiors.
CompactStarts(knots) ==
    LET keep == {i \in DOMAIN knots : i \in {1, Len(knots)} \/ knots[i][2] # knots[i - 1][2]}
    IN  SetToSortSeq({knots[i] : i \in keep}, LAMBDA a, b : a[1] < b[1])

\* _compact_tabulated: only the interiors of plateaus are removed.
Compact(knots) ==
    LET keep == {i \in DOMAIN knots :
                    \/ i \in {1, Len(knots)}
                    \/ knots[i][2] # knots[i - 1][2] \/ knots[i][2] # knots[i + 1][2]}
    IN  SetToSortSeq({knots[i] : i \in keep}, LAMBDA a, b : a[1] < b[1])

\* The families in order; the first that is acceptable, or what the policy does
\* when none is.
TryFamilies(knots, policy) ==
    LET ok == {i \in DOMAIN policy.families : policy.families[i] \in policy.acceptable} IN
    IF ok # {}
    THEN Fitted(policy.families[Min(ok)], SubSeq(policy.families, 1, Min(ok) - 1))
    ELSE CASE policy.failure = "tabulated" -> Tabulated(Compact(knots))
           [] policy.failure = "skip" -> [kind |-> "skipped"]
           [] policy.failure = "raise" -> [kind |-> "error"]

\* _fit_parameters.
FitParameters(knots, policy, eligible) ==
    LET floor == eligible.floor
        values == [i \in DOMAIN knots |-> AtLeast(knots[i][2], policy.bound)]
        bounded == [i \in DOMAIN knots |-> <<knots[i][1], values[i]>>]
        inner == SelectSeq(bounded, LAMBDA k : k[1] > 0 /\ k[1] < One)
        informative == SelectSeq(inner, LAMBDA k : floor = Missing \/ k[2] >= floor)
    IN  IF \E i \in DOMAIN knots : knots[i][2] = Missing THEN Rejected("non_finite_values")
        ELSE IF \E i \in 1..Len(values) - 1 : values[i] > values[i + 1]
             THEN Rejected("non_monotone_values")
        ELSE IF Constant(values) THEN PointMass(values[1])
        ELSE IF Len(inner) < 2 THEN Rejected("insufficient_axis")
        ELSE IF floor # Missing /\ informative = <<>> THEN NoData("below_effective_resolution")
        ELSE IF Len(informative) < eligible.knots THEN NoData("insufficient_informative_support")
        ELSE IF Cardinality(ToSet(Value(informative))) < eligible.distinct
             THEN NoData("degenerate_effective_range")
        ELSE IF Constant(Value(inner)) THEN PointMass(inner[1][2])
        ELSE IF Len(inner) < MinimumFitKnots
             THEN IF policy.short = "reject" THEN Rejected("short_axis") ELSE Tabulated(Compact(inner))
        ELSE TryFamilies(inner, policy)

\* _fit_or_error.
Fit(row, policy, labels) ==
    LET prepared == PrepareRow(row, policy) IN
    IF prepared.kind = "rejected" THEN prepared
    ELSE FitParameters(prepared.knots, policy, Eligibility(policy, labels))

-----------------------------------------------------------------------------
(* The physical lower bound.  A fitted distribution is its quantile function *)
(* over 0..One, and a hurdle has an atom below the probability `mass`.       *)

\* The share of the distribution that is not above the bound.
Mass(base, bound) == Max({0} \cup {p \in DOMAIN base : base[p] <= bound})

\* Mutation of CensorAtBound: the atom takes what is at the bound only.
CensorAtBoundExactly(base, bound) ==
    [base |-> base, mass |-> Cardinality({p \in DOMAIN base : base[p] = bound}), at |-> bound]

CensorAtBound(base, bound) == [base |-> base, mass |-> Mass(base, bound), at |-> bound]

\* HurdleDistribution: the base above the atom, the atom's location below.
HurdleQuantile(h, p) == IF p > h.mass THEN h.base[p] ELSE h.at

-----------------------------------------------------------------------------
(* Properties. *)

\* The quantile function of a tabulated curve between its first and last knot,
\* as <<numerator, denominator>>.
Interpolated(knots, p) ==
    LET i == Max({j \in DOMAIN knots : knots[j][1] <= p}) IN
    IF knots[i][1] = p THEN <<knots[i][2], 1>>
    ELSE LET width == knots[i + 1][1] - knots[i][1] IN
         <<knots[i][2] * width + (knots[i + 1][2] - knots[i][2]) * (p - knots[i][1]), width>>

Same(a, b) == a[1] * b[2] = b[1] * a[2]

\* Compacting removes knots and changes no quantile between the first and the
\* last of them.
CompactIsExact(knots) ==
    \A p \in knots[1][1]..knots[Len(knots)][1] :
        Same(Interpolated(Compact(knots), p), Interpolated(knots, p))

\* A row on a return-period axis that is kept as a table reads, at each of its
\* own periods, the value it was given, whatever the order of its labels and
\* whichever tail is the severe one.
PeriodsReadBack(row, policy, labels) ==
    LET fit == Fit(row, policy, labels) IN
    row.kind = "periods" /\ fit.kind = "tabulated" =>
        \A i \in DOMAIN row.axis :
            Same(Interpolated(fit.knots, IF policy.tail = "upper" THEN One - One \div row.axis[i]
                                         ELSE One \div row.axis[i]),
                 <<AtLeast(row.values[i], policy.bound), 1>>)

\* A constant row is a point mass under every policy; an override under another
\* name changes nothing for a row with one of its own; raising the floor never
\* gives a row data; and a family is given up only when it was tried and failed.
ScreensAreOrdered(row, policy, labels) ==
    LET fit == Fit(row, policy, labels)
        With(o) == Fit(row, [policy EXCEPT !.overrides = o], labels)
    IN  /\ PrepareRow(row, policy).kind = "knots" /\ Missing \notin ToSet(row.values)
              /\ Constant(row.values) =>
            fit = PointMass(AtLeast(row.values[1], policy.bound))
        /\ labels[1] \in DOMAIN policy.overrides =>
            LET own == policy.overrides[labels[1]] IN
            /\ fit = With(labels[1] :> own)
            /\ fit.kind = "no_data" /\ own # Missing =>
                    With(labels[1] :> own + 1).kind = "no_data"
        /\ fit.kind = "fitted" =>
            /\ ToSet(fit.failed) \cap policy.acceptable = {} /\ fit.family \in policy.acceptable
            /\ IsPrefix(Append(fit.failed, fit.family), policy.families)

\* Censoring at a bound keeps every quantile above it and lifts the others to it.
BoundKeepsQuantiles(base, bound) ==
    LET h == CensorAtBound(base, bound) IN
    \A p \in DOMAIN base : p > 0 => HurdleQuantile(h, p) = AtLeast(base[p], bound)

\* Resampling keeps the order and the extremes, and a sample of the right size.
ResamplingIsFaithful(samples, count, bound) ==
    LET r == Resample(samples, count, bound)
        all == {AtLeast(v, bound) : v \in ToSet(samples)}
    IN  /\ r[1] = (count - 1) * Min(all) /\ r[count] = (count - 1) * Max(all)
        /\ \A k \in 1..count - 1 : r[k] <= r[k + 1]
        /\ Len(samples) = count => \A k \in 1..count :
                r[k] = (count - 1) * AtLeast(SortSeq(samples, <)[k], bound)
=============================================================================
