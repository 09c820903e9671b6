-------------------------------- MODULE BYOCache --------------------------------
(***************************************************************************)
(* Plans over a user's own data (workflows/byo.py): tables, Zarr arrays    *)
(* and GeoTIFFs that are read, fitted and written to one canonical file.   *)
(* ensure_materialized() names the file by a fingerprint of the source,    *)
(* the area and the policy, and hands it out again while the name is the   *)
(* same; the user may change the source at any time, also while it is      *)
(* read.                                                                   *)
(*                                                                         *)
(* A source is a version.  A read has two halves, and an output is the     *)
(* pair of versions that were read and what they were fitted by.           *)
(***************************************************************************)
EXTENDS Integers, FiniteSets, Sequences, Functions, TLC

CONSTANTS
    Proc,           \* processes that share the cache directory
    Keepers,        \* processes that only keep and reuse: the others do all there is
    Tails,          \* the policies that differ: by their return period tail
    MaxVersion,     \* bound on the changes of the source
    None            \* no area, no policy, no name

BYOCacheAssumption == MaxVersion \in Nat \ {0} /\ None \notin 1..MaxVersion

VARIABLES
    kind,       \* the source of the plans
    data,       \* its version now
    outputs,    \* the canonical files of the cache: [name, content]
    pc,
    call        \* the plan of each process and its local variables

vars == <<kind, data, outputs, pc, call>>

-----------------------------------------------------------------------------
(* Sources. *)

Tables == {"table file", "table url", "table in memory"}
Kinds == Tables \cup {"store", "array", "raster"}

\* Local files, directories and globs: paths, sizes and times.  A URL and an
\* array in memory are known by their names only.
Stamped == {"table file", "store", "raster"}

\* A table in memory is hashed, and cannot be changed.
InMemory == kind = "table in memory"

Mode == {"reuse", "refresh"}
Policies == [class : {"cdf", "ingest"}, tail : Tails]
Accepts(policy) == policy.class = IF kind \in Tables THEN "cdf" ELSE "ingest"

\* Only rasters and arrays are read inside bounds.
Areas == IF kind \in Tables THEN {None} ELSE {None, "area"}

\* The return periods of the GeoTIFFs a caller names in this order.
Given == IF kind = "raster" THEN {<<10, 100, 20, 50>>, <<10, 20, 50, 20>>, <<10, 20, 50>>} ELSE {<<>>}

\* Mutation of Ordered: the periods are sorted without their paths.
OrderedPeriods(periods) ==
    LET sorted == SortSeq(periods, <) IN [i \in DOMAIN periods |-> <<sorted[i], i>>]

\* Periods in their order, with the paths they were given with.
Ordered(periods) ==
    LET places == DOMAIN periods
        order == CHOOSE f \in [places -> places] :
                    \A i, j \in places : i < j =>
                        \/ periods[f[i]] < periods[f[j]]
                        \/ periods[f[i]] = periods[f[j]] /\ f[i] < f[j]
    IN  [i \in places |-> <<periods[order[i]], order[i]>>]

ValidPaths(periods) ==
    kind = "raster" => IsInjective(periods) /\ Len(periods) >= 4 /\ \A t \in Range(periods) : t > 0

Fingerprint(p) ==
    IF kind \in Stamped THEN data
    ELSE IF InMemory THEN call[p].seen ELSE None

\* Mutation of Name: the area is not a part of the name.
NameWithoutArea(p) ==
    [of |-> Fingerprint(p), paths |-> call[p].paths, area |-> None, policy |-> call[p].policy]

\* Mutation of Name: the source is known by its path.
NameByPath(p) ==
    [of |-> None, paths |-> call[p].paths, area |-> call[p].area, policy |-> call[p].policy]

\* _automatic_output
Name(p) ==
    [of |-> Fingerprint(p), paths |-> call[p].paths, area |-> call[p].area, policy |-> call[p].policy]

-----------------------------------------------------------------------------
(* Calls.  `seen`, the version at the start, and `quiet` are history         *)
(* variables, but for a table in memory.                                     *)

NoCall == [mode |-> "reuse", keeps |-> FALSE, area |-> None, policy |-> None, given |-> <<>>,
           paths |-> <<>>, name |-> None, seen |-> 0, quiet |-> TRUE, first |-> 0, result |-> None]

Init ==
    /\ kind \in Kinds /\ data = 1
    /\ outputs = {}
    /\ pc = [p \in Proc |-> "idle"]
    /\ call = [p \in Proc |-> NoCall]

Goto(p, l) == pc' = [pc EXCEPT ![p] = l]
Raise(p) == Goto(p, "failed") /\ call' = [call EXCEPT ![p] = NoCall]

\* The user writes the source anew.  A change has another size or time.
Change ==
    /\ data < MaxVersion
    /\ data' = data + 1
    /\ call' = [p \in Proc |-> [call[p] EXCEPT !.quiet = FALSE]]
    /\ UNCHANGED <<kind, outputs, pc>>

\* from_table, from_raster or from_zarr, then materialize(output), or
\* ensure_materialized(), which needs a directory.
Start(p) ==
    /\ pc[p] = "idle"
    /\ \E mode \in Mode, keeps, directory \in BOOLEAN, area \in Areas,
          policy \in Policies \cup {None}, given \in Given :
        /\ p \in Keepers => mode = "reuse" /\ keeps /\ directory /\ policy # None
        /\ IF \/ ~ValidPaths(given)
              \/ policy # None /\ ~Accepts(policy)
              \/ keeps /\ ~directory
           THEN Raise(p)
           ELSE /\ call' = [call EXCEPT ![p] = [NoCall EXCEPT
                       !.mode = mode, !.keeps = keeps, !.area = area, !.policy = policy,
                       !.given = given, !.paths = Ordered(given), !.seen = data]]
                /\ Goto(p, IF keeps THEN "identify" ELSE "open")
    /\ UNCHANGED <<kind, data, outputs>>

Identify(p) ==
    /\ pc[p] = "identify"
    /\ call' = [call EXCEPT ![p].name = Name(p)]
    /\ Goto(p, "look")
    /\ UNCHANGED <<kind, data, outputs>>

\* The outputs that are reused: a complete one of this name, unless refreshed.
Served(p) == {o \in outputs : o.name = call[p].name /\ call[p].mode # "refresh"}

Look(p) ==
    /\ pc[p] = "look"
    /\ IF Served(p) = {} THEN Goto(p, "open") /\ UNCHANGED call
       ELSE \E o \in Served(p) :
            /\ call' = [call EXCEPT ![p].result = o.content]
            /\ Goto(p, "done")
    /\ UNCHANGED <<kind, data, outputs>>

Held(p) == IF InMemory THEN call[p].seen ELSE data

\* materialize: without a policy it is refused.
Open(p) ==
    /\ pc[p] = "open"
    /\ IF call[p].policy = None THEN Raise(p)
       ELSE call' = [call EXCEPT ![p].first = Held(p)] /\ Goto(p, "read")
    /\ UNCHANGED <<kind, data, outputs>>

Content(p) ==
    [first |-> call[p].first, second |-> Held(p), area |-> call[p].area,
     policy |-> call[p].policy, paths |-> call[p].paths]

\* The rest is read, and the file, staged, is moved into place; a row that cannot
\* be fitted leaves nothing.
Publish(p) ==
    /\ pc[p] = "read"
    /\ \/ Raise(p) /\ UNCHANGED outputs
       \/ /\ call' = [call EXCEPT ![p].result = Content(p)]
          /\ outputs' = IF ~call[p].keeps THEN outputs
                        ELSE {o \in outputs : o.name # call[p].name}
                             \cup {[name |-> call[p].name, content |-> Content(p)]}
          /\ Goto(p, "done")
    /\ UNCHANGED <<kind, data>>

Return(p) ==
    /\ pc[p] \in {"done", "failed"}
    /\ Goto(p, "idle") /\ call' = [call EXCEPT ![p] = NoCall]
    /\ UNCHANGED <<kind, data, outputs>>

Next ==
    \/ Change
    \/ \E p \in Proc : Start(p) \/ Identify(p) \/ Look(p) \/ Open(p) \/ Publish(p) \/ Return(p)

Spec == Init /\ [][Next]_vars

-----------------------------------------------------------------------------
\* A result is of the area, policy and files its plan names.
ResultIsOfItsPlan(p) ==
    LET c == call[p] IN
    /\ c.result.area = c.area /\ c.result.policy = c.policy
    /\ \A i \in DOMAIN c.given : <<c.given[i], i>> \in Range(c.result.paths)

\* It is not older than the call, and of one version if the source was left alone:
\* of every source that has a stamp or is hashed, and of the others after a refresh
\* or without a cache.
ResultIsFresh(p) ==
    LET c == call[p] IN
    (kind \in Stamped \/ InMemory \/ c.mode = "refresh" \/ ~c.keeps) =>
        /\ c.result.first >= c.seen /\ c.result.second >= c.result.first
        /\ (c.quiet \/ InMemory) => {c.result.first, c.result.second} = {c.seen}

\* A plan over the user's data never gets what was read for another plan or from
\* an earlier state of the data, whoever filled the cache (BYOPlan).
OutputsAreOfTheirPlan ==
    \A p \in Proc : pc[p] = "done" => ResultIsOfItsPlan(p) /\ ResultIsFresh(p)

-----------------------------------------------------------------------------
(***************************************************************************)
(* The inductive invariant: why outputs are of their plans.                *)
(***************************************************************************)

PathLists == {Ordered(given) : given \in Given} \cup {<<>>}
PolicyOrNone == Policies \cup {None}
Named == [of : (1..MaxVersion) \cup {None}, paths : PathLists, area : Areas \cup {None}, policy : PolicyOrNone]
Contents == [first : 1..MaxVersion, second : 1..MaxVersion, area : Areas \cup {None},
             policy : PolicyOrNone, paths : PathLists]
Call == [mode : Mode, keeps : BOOLEAN, area : Areas \cup {None}, policy : PolicyOrNone,
         given : Given \cup {<<>>}, paths : PathLists, name : Named \cup {None},
         seen : 0..MaxVersion, quiet : BOOLEAN, first : 0..MaxVersion, result : Contents \cup {None}]

TypeOK ==
    /\ kind \in Kinds /\ data \in 1..MaxVersion
    /\ outputs \subseteq [name : Named, content : Contents]
    /\ pc \in [Proc -> {"idle", "identify", "look", "open", "read", "done", "failed"}]
    /\ call \in [Proc -> Call]

\* A name that was computed when the source had a version is of no earlier one
\* than what was read after it, and a table in memory is what it was.
NameIsNotOlder(name, first, second) ==
    /\ kind \in Stamped => name.of \in Nat /\ name.of <= first
    /\ InMemory => first = name.of /\ second = name.of

\* A canonical file was read for what its name says.
OutputIsOfItsName(o) ==
    /\ o.content.area = o.name.area /\ o.content.policy = o.name.policy
    /\ o.content.paths = o.name.paths
    /\ o.content.first <= o.content.second /\ o.content.second <= data
    /\ NameIsNotOlder(o.name, o.content.first, o.content.second)

\* A call knows the version at its start, and whether it changed.
CallStarted(p) ==
    LET c == call[p] IN
    pc[p] \in {"identify", "look", "open", "read", "done"} =>
        /\ c.given \in Given /\ c.paths = Ordered(c.given)
        /\ c.seen \in 1..data /\ (c.quiet => c.seen = data)
        /\ pc[p] \in {"identify", "look"} => c.keeps

\* Its name is of its plan, and of a version since its start.
CallIsNamed(p) ==
    LET c == call[p] IN
    pc[p] \in {"look", "open", "read", "done"} /\ c.keeps =>
        /\ c.name \in Named
        /\ c.name.area = c.area /\ c.name.policy = c.policy /\ c.name.paths = c.paths
        /\ kind \in Stamped => c.name.of \in c.seen..data
        /\ InMemory => c.name.of = c.seen

\* The half it has read is not older than its start, nor than its name.
CallReads(p) ==
    LET c == call[p] IN
    pc[p] = "read" =>
        /\ c.first \in c.seen..data /\ (InMemory => c.first = c.seen)
        /\ c.keeps /\ kind \in Stamped => c.name.of <= c.first

\* What it returns is of its plan and fresh.
CallReturns(p) ==
    LET c == call[p] IN
    pc[p] = "done" =>
        /\ c.result \in Contents /\ c.result.second <= data
        /\ c.result.area = c.area /\ c.result.policy = c.policy /\ c.result.paths = c.paths
        /\ ResultIsFresh(p)

CallIsSound(p) == CallStarted(p) /\ CallIsNamed(p) /\ CallReads(p) /\ CallReturns(p)

IInv == TypeOK /\ (\A o \in outputs : OutputIsOfItsName(o)) /\ \A p \in Proc : CallIsSound(p)
=============================================================================
