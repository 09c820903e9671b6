------------------------------ MODULE FitStream ------------------------------
(***************************************************************************)
(* Quantile rows become a canonical Parquet file (fitting/workflows.py,    *)
(* connectors/parquet.py): a thread reads the source one batch ahead, a    *)
(* thread fits one batch ahead of the writer and keeps the diagnostics     *)
(* sidecar, and the writer stages, checks the keys and publishes.  Without *)
(* prefetching the same steps run when the next batch is asked for.        *)
(***************************************************************************)
EXTENDS Integers, FiniteSets, Sequences, Functions

CONSTANTS
    Sources,    \* what a source may hold: sequences of batches, each a sequence of rows
    MinRows     \* no_data_min_rows; the threshold is a half

\* Rows: [key, fit], where fit is how _fit_or_error ends for the row.
RowsIn(s) == UNION {{s[k][i] : i \in DOMAIN s[k]} : k \in DOMAIN s}
FitStreamAssumption ==
    \A s \in Sources :
        /\ s \in Seq(Seq(RowsIn(s)))
        /\ \A r \in RowsIn(s) : r.fit \in {"fitted", "no_data", "skipped", "rejected", "invalid"}

VARIABLES
    source,     \* the source
    policy,     \* [prefetch, skip, strict, overwrite]
    read,       \* batches the reading thread has pulled
    pulled,     \* the future of the reading thread
    fit,        \* the fitting generator: "idle", "running", "failed" or "ended"
    fitted,     \* the future of the fitting thread
    summary,    \* CDFFitSummary
    partial,    \* the rows in <path>.partial, or No
    sidecar,    \* the published sidecar: rows, Old or No
    pc,         \* of the writer
    staged,     \* rows in the writer's staging file
    output      \* the destination: rows, Old or No

vars == <<source, policy, read, pulled, fit, fitted, summary, partial, sidecar, pc, staged, output>>
reader == <<read, pulled>>
fitter == <<fit, summary, partial, sidecar>>
writer == <<pc, staged, output>>

No == [is |-> "none"]
Old == [is |-> "old"]
File(rows) == [is |-> "file", rows |-> rows]
Running == [is |-> "running"]
Waiting == [is |-> "waiting"]       \* nothing submitted
Raised == [is |-> "raised"]
End == [is |-> "end"]
Batch(rows) == [is |-> "batch", rows |-> rows]

\* The rows of the first batches of a source, and of all of them.
FirstRows(s) ==
    LET rows[k \in 0..Len(s)] == IF k = 0 THEN <<>> ELSE rows[k - 1] \o s[k] IN rows
Rows(s) == FirstRows(s)[Len(s)]

\* The rows whose fit ends in one of these ways, in their order.
Select(rows, kinds) ==
    LET first[n \in 0..Len(rows)] ==
            IF n = 0 THEN <<>>
            ELSE IF rows[n].fit \in kinds THEN Append(first[n - 1], rows[n]) ELSE first[n - 1]
    IN  first[Len(rows)]
Canonical(rows) == Select(rows, {"fitted", "no_data"})

\* _prefetch_one submits the next pull before it hands out an item.
Next1 == IF policy.prefetch THEN Running ELSE Waiting

Init ==
    /\ source \in Sources
    /\ policy \in [prefetch : BOOLEAN, skip : BOOLEAN, strict : BOOLEAN, overwrite : BOOLEAN]
    /\ read = 0 /\ pulled = Waiting /\ fit = "idle" /\ fitted = Waiting
    /\ summary = [source |-> 0, canonical |-> 0, skipped |-> 0, no_data |-> 0]
    /\ partial = No /\ sidecar \in {No, Old}
    /\ pc = "start" /\ staged = <<>> /\ output \in {No, Old}

-----------------------------------------------------------------------------
(* The reading thread. *)

Pull ==
    /\ pulled = Running
    /\ \/ /\ read < Len(source) /\ read' = read + 1
          /\ pulled' = Batch(source[read + 1])
       \/ /\ read = Len(source) /\ pulled' = End /\ UNCHANGED read
       \/ pulled' = Raised /\ UNCHANGED read
    /\ UNCHANGED <<source, policy, fitter, fitted, writer>>

-----------------------------------------------------------------------------
(* The fitting generator. *)

\* The first next() opens the sidecar and asks for a batch.
StartFit ==
    /\ fitted = Running /\ fit = "idle"
    /\ fit' = "running" /\ partial' = File(<<>>) /\ pulled' = Running
    /\ UNCHANGED <<source, policy, read, fitted, summary, sidecar, writer>>

\* Resumed after a batch was handed out.
Ask ==
    /\ fitted = Running /\ fit = "running" /\ pulled = Waiting
    /\ pulled' = Running
    /\ UNCHANGED <<source, policy, read, fitter, fitted, writer>>

FitEnds(state) == fit' = state /\ fitted' = IF state = "failed" THEN Raised ELSE End

\* Mutation of Abort: the partial sidecar is published whatever happened.
AbortPublishes == sidecar' = partial /\ partial' = No

\* finally: the sidecar of a fit that did not complete is removed.
Abort == partial' = No /\ UNCHANGED sidecar

SourceFails ==
    /\ fitted = Running /\ fit = "running" /\ pulled = Raised
    /\ FitEnds("failed") /\ Abort
    /\ UNCHANGED <<source, policy, reader, summary, writer>>

\* The row ends the fit: _ParametricFitSkipped rows never do.
Unfit(r) == r.fit \in {"rejected", "invalid"} /\ ~policy.skip

\* Rows are counted in order, up to one that ends the fit.
Counted(rows) ==
    LET bad == {i \in DOMAIN rows : Unfit(rows[i])} IN
    SubSeq(rows, 1, IF bad = {} THEN Len(rows)
                    ELSE CHOOSE i \in bad : \A j \in bad : i <= j)

HowMany(rows, kinds) == Len(Select(rows, kinds))

Tally(rows, ends) ==
    [source |-> summary.source + Len(rows),
     canonical |-> summary.canonical + HowMany(rows, {"fitted", "no_data"}),
     no_data |-> summary.no_data + HowMany(rows, {"no_data"}),
     skipped |-> summary.skipped
                    + HowMany(rows, {"skipped", "rejected", "invalid"}) - IF ends THEN 1 ELSE 0]

\* check_no_data_rates under strict.
TooManyWithoutData(s) == policy.strict /\ s.source >= MinRows /\ 2 * s.no_data > s.source

\* A batch is fitted by the pool, in the order of its rows, its diagnostics are
\* written, and its canonical rows, if there are any, are the next item.
FitBatch ==
    /\ fitted = Running /\ fit = "running" /\ pulled.is = "batch"
    /\ LET rows == pulled.rows
           counted == Counted(rows)
           ends == \E i \in DOMAIN rows : Unfit(rows[i])
           total == Tally(counted, ends)
           out == Canonical(rows)
       IN /\ summary' = total
          /\ IF ends \/ TooManyWithoutData(total)
             THEN FitEnds("failed") /\ Abort
             ELSE /\ partial' = File(partial.rows \o rows)
                  /\ fitted' = IF out = <<>> THEN Running ELSE Batch(out)
                  /\ UNCHANGED <<fit, sidecar>>
    /\ pulled' = Next1
    /\ UNCHANGED <<source, policy, read, writer>>

\* The sidecar is moved into place before the last next() returns.
Complete ==
    /\ fitted = Running /\ fit = "running" /\ pulled = End
    /\ \/ FitEnds("ended") /\ sidecar' = partial /\ partial' = No
       \/ FitEnds("failed") /\ Abort                    \* the move fails
    /\ UNCHANGED <<source, policy, reader, summary, writer>>

\* An abandoned generator is closed when its thread is done with it.
Close ==
    /\ pc = "failed" /\ fitted.is \in {"batch", "waiting"} /\ fit = "running"
    /\ fit' = "failed" /\ Abort
    /\ UNCHANGED <<source, policy, reader, fitted, summary, writer>>

-----------------------------------------------------------------------------
(* write_hazard_stream. *)

Start ==
    /\ pc = "start"
    /\ IF output # No /\ ~policy.overwrite
       THEN pc' = "failed" /\ UNCHANGED fitted          \* FileExistsError, nothing is consumed
       ELSE pc' = "next" /\ fitted' = Running
    /\ UNCHANGED <<source, policy, reader, fitter, staged, output>>

\* Mutation of Take: an item that raises ends the stream like the last one.
TakeAll ==
    /\ pc = "next"
    /\ \/ /\ fitted.is = "batch"
          /\ staged' = staged \o fitted.rows /\ fitted' = Next1 /\ pc' = "write"
       \/ fitted \in {End, Raised} /\ pc' = "check" /\ UNCHANGED <<fitted, staged>>
    /\ UNCHANGED <<source, policy, reader, fitter, output>>

\* The next item is validated and appended to the staging file or table.
Take ==
    /\ pc = "next"
    /\ \/ /\ fitted.is = "batch"
          /\ staged' = staged \o fitted.rows /\ fitted' = Next1 /\ pc' = "write"
       \/ fitted = End /\ pc' = "check" /\ UNCHANGED <<fitted, staged>>
       \/ fitted = Raised /\ pc' = "failed" /\ staged' = <<>> /\ UNCHANGED fitted
    /\ UNCHANGED <<source, policy, reader, fitter, output>>

\* The batch is written while the threads go on.
Write ==
    /\ pc = "write" /\ pc' = "next"
    /\ fitted' = IF fitted = Waiting THEN Running ELSE fitted
    /\ UNCHANGED <<source, policy, reader, fitter, staged, output>>

Keys == {staged[i].key : i \in DOMAIN staged}

\* Duplicate keys are refused once everything is staged; then the staging file
\* is renamed over the destination.
Publish ==
    /\ pc = "check"
    /\ IF Cardinality(Keys) = Len(staged)
       THEN pc' = "done" /\ output' = File(staged)
       ELSE pc' = "failed" /\ UNCHANGED output
    /\ staged' = <<>>
    /\ UNCHANGED <<source, policy, reader, fitter, fitted>>

\* Validation, the disk or the caller fails; the generator is left as it is.
WriterFails ==
    /\ pc \in {"write", "check"}
    /\ pc' = "failed" /\ staged' = <<>>
    /\ UNCHANGED <<source, policy, reader, fitter, fitted, output>>

Next ==
    \/ Pull \/ StartFit \/ Ask \/ SourceFails \/ FitBatch \/ Complete \/ Close
    \/ Start \/ Take \/ Write \/ Publish \/ WriterFails

Spec == Init /\ [][Next]_vars

-----------------------------------------------------------------------------
\* "A half-written sidecar is never mistaken for a result": a sidecar that is
\* there has one row for each source row, in their order, and the fit came to
\* its end.
SidecarIsWhole ==
    sidecar \notin {No, Old} => sidecar = File(Rows(source)) /\ fit = "ended"

\* A published file has the canonical rows of the whole source, each key once,
\* in the order of the source: no failure of a thread or of the writer reaches
\* the destination, and the sidecar of the fit is there before it.  Every row
\* that was counted became a canonical row or was skipped, but for the one that
\* ended the fit.
OutputIsWhole ==
    /\ output \notin {No, Old} =>
        /\ output = File(Canonical(Rows(source))) /\ IsInjective([i \in DOMAIN output.rows |-> output.rows[i].key])
        /\ fit = "ended" /\ pulled = End /\ sidecar = File(Rows(source))
        /\ summary.source = Len(Rows(source)) /\ summary.canonical = Len(output.rows)
    /\ summary.source - (summary.canonical + summary.skipped) \in
            IF fit = "failed" THEN {0, 1} ELSE {0}

-----------------------------------------------------------------------------
(* The inductive invariant. *)

\* What of the source is fitted, and what of that the writer has not taken yet.
Taken == IF pulled.is = "batch" THEN read - 1 ELSE read
FittedRows == FirstRows(source)[Taken]
Offered == IF fitted.is = "batch" THEN fitted.rows ELSE <<>>
Writing == pc \in {"start", "next", "write", "check"}

ReaderOK ==
    /\ source \in Sources /\ read \in 0..Len(source)
    /\ \/ pulled \in {Running, Waiting, Raised, End}
       \/ read > 0 /\ pulled = Batch(source[read])
    /\ pulled = End => read = Len(source)

FitterOK ==
    /\ fit \in {"idle", "running", "failed", "ended"}
    /\ \/ fitted \in {Running, Waiting, Raised, End}
       \/ fitted = Batch(fitted.rows) /\ fitted.rows \in Seq(RowsIn(source))
    /\ fit = "idle" => read = 0 /\ pulled = Waiting /\ fitted \in {Running, Waiting}
    /\ fit = "running" => partial = File(FittedRows)
    /\ fit # "ended" => sidecar \in {No, Old} /\ fitted # End
    /\ fit \in {"idle", "running"} => fitted # Raised
    /\ fit = "failed" /\ Writing => fitted = Raised
    /\ fit = "ended" => pulled = End /\ fitted = End /\ sidecar = File(Rows(source))

SummaryOK ==
    /\ summary.source \in Nat /\ summary.canonical \in Nat /\ summary.skipped \in Int
    /\ fit # "failed" => /\ summary.source = Len(FittedRows)
                         /\ summary.canonical = Len(Canonical(FittedRows))
    /\ summary.source - (summary.canonical + summary.skipped) \in
            IF fit = "failed" THEN {0, 1} ELSE {0}

WriterOK ==
    /\ pc \in {"start", "next", "write", "check", "done", "failed"}
    /\ staged \in Seq(RowsIn(source))
    /\ Writing /\ fit # "failed" => staged \o Offered = Canonical(FittedRows)
    /\ pc = "start" => fitted = Waiting /\ fit = "idle"
    /\ pc = "check" => fitted = End
    /\ output \in {No, Old} \/ pc = "done"
    /\ pc = "done" => /\ fit = "ended" /\ output = File(Canonical(Rows(source)))
                      /\ IsInjective([i \in DOMAIN output.rows |-> output.rows[i].key])

IInv == ReaderOK /\ FitterOK /\ SummaryOK /\ WriterOK
=============================================================================
