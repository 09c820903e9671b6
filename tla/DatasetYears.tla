---------------------------- MODULE DatasetYears ----------------------------
(***************************************************************************)
(* CMIP6 plans on one cache directory (workflows/cmip6.py): which dataset  *)
(* (grid and DRS version of one model, pathway and member) the cached      *)
(* years of a call belong to, what is fetched, and under which licence the *)
(* result, or an output fitted earlier, is handed back.                    *)
(*                                                                         *)
(* A DRS version never changes, and the key of an entry and the name of    *)
(* its file contain the dataset: entries are only ever added.  The fetch   *)
(* of the missing years and its one merge of the manifest are the ones of  *)
(* YearCache, seen here as a step that succeeds or fails.                  *)
(*                                                                         *)
(* The catalogue of published datasets is read once per cache directory    *)
(* (CMIP6Catalogue.ensure_local), also by calls that refresh, so what can  *)
(* be resolved is constant.                                                *)
(***************************************************************************)
EXTENDS Integers

CONSTANTS
    Proc,           \* processes sharing the cache directory
    Year,
    Grid,           \* the grids the model is published on
    PreferredGrid,  \* the first of GRID_PREFERENCE among them
    MaxVersion,     \* the DRS versions in the catalogue are 1..MaxVersion
    Restrictive,    \* the versions under a restrictive or unrecognised licence
    Request,        \* bound: the requests made, of all that could be
    AnyGrid, Latest, NoDataset

ASSUME DatasetYearsAssumption ==
    /\ PreferredGrid \in Grid /\ AnyGrid \notin Grid
    /\ MaxVersion \in Nat \ {0} /\ Latest \notin Int
    /\ Restrictive \subseteq 1..MaxVersion
    /\ Request \subseteq [grid    : Grid \cup {AnyGrid},
                           version : 1..MaxVersion \cup {Latest},
                           years   : (SUBSET Year) \ {{}}]
    /\ Request # {}

VARIABLES
    entry,      \* the (dataset, year) pairs recorded in the manifest
    output,     \* the dataset the fitted output of each request was made from
    pc,
    call,       \* what each process asked for
    found,      \* the dataset of the cached entry of each year, or NoDataset
    dataset,    \* the dataset a call serves its result from
    resolved    \* whether the call went to the catalogue

vars == <<entry, output, pc, call, found, dataset, resolved>>

-----------------------------------------------------------------------------
Version == 1..MaxVersion
Dataset == [grid : Grid, version : Version]

ASSUME NoDatasetAssumption == NoDataset \notin Dataset

\* A request is what identifies an output: not the cache mode, not the licence
\* policy of the call.
Call == [request : Request, mode : {"reuse", "offline", "refresh"},
         strict : BOOLEAN, materialize : BOOLEAN]
NoCall == CHOOSE c \in Call : TRUE

Matches(d, r) == r.grid \in {AnyGrid, d.grid} /\ r.version \in {Latest, d.version}

Idle == {"idle", "done", "failed", "spans", "missing"}

TypeOK ==
    /\ entry \subseteq Dataset \X Year
    /\ output \in [Request -> Dataset \cup {NoDataset}]
    /\ pc \in [Proc -> Idle \cup {"look", "decide", "fetch", "fit"}]
    /\ call \in [Proc -> Call]
    /\ found \in [Proc -> [Year -> Dataset \cup {NoDataset}]]
    /\ dataset \in [Proc -> Dataset \cup {NoDataset}]
    /\ resolved \in [Proc -> BOOLEAN]

Init ==
    /\ entry = {}
    /\ output = [r \in Request |-> NoDataset]
    /\ pc = [p \in Proc |-> "idle"]
    /\ call = [p \in Proc |-> NoCall]
    /\ found = [p \in Proc |-> [y \in Year |-> NoDataset]]
    /\ dataset = [p \in Proc |-> NoDataset]
    /\ resolved = [p \in Proc |-> FALSE]

-----------------------------------------------------------------------------
\* enforce_licence: such a licence is refused under strict_licence, and
\* otherwise only warned about.
LicenceRefuses(d, c) == c.strict /\ d.version \in Restrictive

\* Mutation of CheckReuse: a fitted output is handed back as it is.
NoCheckReuse(d, c) == FALSE

\* _check_reuse: the licence of an output that is handed back.
CheckReuse(d, c) == LicenceRefuses(d, c)

\* prefetch, or ensure_materialized: an output fitted earlier is handed back,
\* unless the call refreshes, after _check_reuse has looked at its licence.
Start(p) ==
    /\ pc[p] = "idle"
    /\ \E c \in Call :
        LET reuse == c.materialize /\ c.mode # "refresh" /\ output[c.request] # NoDataset
        IN
        /\ call' = [call EXCEPT ![p] = c]
        /\ dataset' = [dataset EXCEPT ![p] = IF reuse THEN output[c.request] ELSE NoDataset]
        /\ pc' = [pc EXCEPT ![p] =
                    IF ~reuse THEN "look"
                    ELSE IF CheckReuse(output[c.request], c) THEN "failed" ELSE "done"]
    /\ UNCHANGED <<entry, output, found, resolved>>

\* _cached_entries: for each year the newest version recorded, of any grid the
\* request allows.
Newest(ds) == {d \in ds : \A e \in ds : e.version <= d.version}

Look(p) ==
    LET c == call[p]
        cached(y) == Newest({d \in Dataset : <<d, y>> \in entry /\ Matches(d, c.request)})
    IN
    /\ pc[p] = "look"
    /\ \E f \in [Year -> Dataset \cup {NoDataset}] :
        /\ \A y \in Year :
            IF c.mode # "refresh" /\ y \in c.request.years /\ cached(y) # {}
            THEN f[y] \in cached(y) ELSE f[y] = NoDataset
        /\ found' = [found EXCEPT ![p] = f]
    /\ pc' = [pc EXCEPT ![p] = "decide"]
    /\ UNCHANGED <<entry, output, call, dataset, resolved>>

Years(p) == call[p].request.years
AllCached(p) == \A y \in Years(p) : found[p][y] # NoDataset

\* Mutation of Identities: one year stands for all.
IdentityOfOne(p) == {found[p][CHOOSE y \in Years(p) : TRUE]}

Identities(p) == {found[p][y] : y \in Years(p)}

\* Where a call goes once its years are prepared.
Prepared(p) == IF call[p].materialize THEN "fit" ELSE "done"

\* Every year is cached: they must be of one dataset (_from_entries), whose
\* licence is enforced although the store is not opened.
ServeFromCache(p) ==
    /\ pc[p] = "decide" /\ AllCached(p)
    /\ \/ \E d \in Dataset :
            /\ Identities(p) = {d}
            /\ dataset' = [dataset EXCEPT ![p] = d]
            /\ pc' = [pc EXCEPT ![p] =
                        IF LicenceRefuses(d, call[p]) THEN "failed" ELSE Prepared(p)]
       \/ /\ \A d \in Dataset : Identities(p) # {d}
          /\ pc' = [pc EXCEPT ![p] = "spans"]
          /\ UNCHANGED dataset
    /\ UNCHANGED <<entry, output, call, found, resolved>>

OfflineMissing(p) ==
    /\ pc[p] = "decide" /\ ~AllCached(p) /\ call[p].mode = "offline"
    /\ pc' = [pc EXCEPT ![p] = "missing"]
    /\ UNCHANGED <<entry, output, call, found, dataset, resolved>>

\* Mutation of Resolution: "latest" is kept as the version.
ResolutionOfGrid(r) ==
    [grid    |-> IF r.grid = AnyGrid THEN PreferredGrid ELSE r.grid,
     version |-> r.version]

\* CMIP6Catalogue.resolve: the preferred grid, the newest version.
Resolution(r) ==
    [grid    |-> IF r.grid = AnyGrid THEN PreferredGrid ELSE r.grid,
     version |-> IF r.version = Latest THEN MaxVersion ELSE r.version]

\* Mutation of SameDataset: every cached year counts.
KeepAll(f, d) == f

\* Years cached from another dataset do not count.
SameDataset(f, d) == [y \in Year |-> IF f[y] = d THEN d ELSE NoDataset]

\* The call resolves its dataset and checks the licence.
Resolve(p) ==
    LET d == Resolution(call[p].request) IN
    /\ pc[p] = "decide" /\ ~AllCached(p) /\ call[p].mode # "offline"
    /\ resolved' = [resolved EXCEPT ![p] = TRUE]
    /\ dataset' = [dataset EXCEPT ![p] = d]
    /\ found' = [found EXCEPT ![p] = SameDataset(@, d)]
    /\ pc' = [pc EXCEPT ![p] = IF LicenceRefuses(d, call[p]) THEN "failed" ELSE "fetch"]
    /\ UNCHANGED <<entry, output, call>>

\* The missing years are fetched, all years recorded, and the result built from
\* the entries: fetched ones carry the resolved dataset, cached ones their own.
FetchAndMerge(p) ==
    LET f == [y \in Year |->
                IF y \in Years(p) /\ found[p][y] = NoDataset THEN dataset[p] ELSE found[p][y]]
    IN
    /\ pc[p] = "fetch"
    /\ entry' = entry \cup {<<dataset[p], y>> : y \in Years(p)}
    /\ found' = [found EXCEPT ![p] = f]
    /\ pc' = [pc EXCEPT ![p] =
                IF \A y \in Years(p) : f[y] = dataset[p] THEN Prepared(p) ELSE "spans"]
    /\ UNCHANGED <<output, call, dataset, resolved>>

\* The catalogue, the store or a year cannot be read.
NetworkFails(p) ==
    /\ pc[p] = "fetch" \/ (pc[p] = "decide" /\ ~AllCached(p) /\ call[p].mode # "offline")
    /\ pc' = [pc EXCEPT ![p] = "failed"]
    /\ UNCHANGED <<entry, output, call, found, dataset, resolved>>

\* materialize_staged: the curves are fitted into a staged file, which then
\* replaces the output.
PublishOutput(p) ==
    /\ pc[p] = "fit"
    /\ output' = [output EXCEPT ![call[p].request] = dataset[p]]
    /\ pc' = [pc EXCEPT ![p] = "done"]
    /\ UNCHANGED <<entry, call, found, dataset, resolved>>

FitFails(p) ==
    /\ pc[p] = "fit"
    /\ pc' = [pc EXCEPT ![p] = "failed"]
    /\ UNCHANGED <<entry, output, call, found, dataset, resolved>>

Return(p) ==
    /\ pc[p] \in Idle \ {"idle"}
    /\ pc' = [pc EXCEPT ![p] = "idle"]
    /\ call' = [call EXCEPT ![p] = NoCall]
    /\ found' = [found EXCEPT ![p] = [y \in Year |-> NoDataset]]
    /\ dataset' = [dataset EXCEPT ![p] = NoDataset]
    /\ resolved' = [resolved EXCEPT ![p] = FALSE]
    /\ UNCHANGED <<entry, output>>

Next ==
    \E p \in Proc :
        \/ Start(p) \/ Look(p) \/ ServeFromCache(p) \/ OfflineMissing(p)
        \/ Resolve(p) \/ FetchAndMerge(p) \/ NetworkFails(p)
        \/ PublishOutput(p) \/ FitFails(p) \/ Return(p)

Spec == Init /\ [][Next]_vars

-----------------------------------------------------------------------------
(***************************************************************************)
(* PROPERTIES                                                              *)
(***************************************************************************)

\* A result is made of the years of one dataset, one the request asked for,
\* whether they come from the cache, the store or both; and so is the sample
\* behind every output.
OneDataset ==
    \A p \in Proc :
        /\ pc[p] \in {"fit", "done"} => Matches(dataset[p], call[p].request)
        /\ pc[p] = "fit" => \A y \in Years(p) : found[p][y] = dataset[p] /\ <<dataset[p], y>> \in entry

\* strict_licence is a property of the output, not of the read: data under a
\* restrictive licence is not handed to a strict call, by a warm cache or by an
\* output another call fitted without the policy (cmip6.py:341-343, 560-562).
StrictIsStrict ==
    \A p \in Proc : pc[p] \in {"fit", "done"} => ~LicenceRefuses(dataset[p], call[p])

\* "Entries cached from another DRS version do not count" (cmip6.py:373): a
\* call that resolves its dataset never fails because of what other requests
\* left in the cache.
ResolvedCallIsUniform == \A p \in Proc : resolved[p] => pc[p] # "spans"

(***************************************************************************)
(* The inductive invariant behind the three of them.                       *)
(***************************************************************************)
\* What a call found for a year is recorded, and is what it asked for.
FoundIsRecorded ==
    \A p \in Proc, y \in Year :
        pc[p] \in {"decide", "fetch", "fit"} /\ found[p][y] # NoDataset =>
            y \in Years(p) /\ <<found[p][y], y>> \in entry /\ Matches(found[p][y], call[p].request)

\* A call that resolved its dataset has kept only years of it, and checked its
\* licence.
ResolvedIsKept ==
    \A p \in Proc :
        /\ pc[p] \in {"idle", "look", "decide"} => ~resolved[p]
        /\ pc[p] = "fetch" =>
            /\ Matches(dataset[p], call[p].request) /\ ~LicenceRefuses(dataset[p], call[p])
            /\ dataset[p] \in Dataset
            /\ \A y \in Year : found[p][y] \in {dataset[p], NoDataset}
        /\ pc[p] = "fit" => dataset[p] \in Dataset

\* An output was made of a dataset its request allows.
OutputMatches == \A r \in Request : output[r] # NoDataset => Matches(output[r], r)

IInv ==
    /\ TypeOK
    /\ FoundIsRecorded
    /\ ResolvedIsKept
    /\ OutputMatches
    /\ OneDataset
    /\ StrictIsStrict
    /\ ResolvedCallIsUniform
=============================================================================
