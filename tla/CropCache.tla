------------------------------- MODULE CropCache -------------------------------
(***************************************************************************)
(* The caches of crops of the JRC flood maps and of EDO's annual minima    *)
(* (workflows/jrc.py, workflows/edo.py, workflows/_plans.py).  A plan has a *)
(* record in the shared manifest; a file belongs to every plan that asks   *)
(* for it.  Files are cropped into one staging name each and renamed.      *)
(*                                                                         *)
(* A record is written under the manifest's lock (SharedManifest) and is   *)
(* one step here.  Stream mode touches no cache and is left out.           *)
(***************************************************************************)
EXTENDS Naturals, FiniteSets

CONSTANTS
    Proc,           \* processes sharing the cache directory
    Sharing,        \* sets of <<process, plan, operation>>, the requests made of one
                    \* directory; a plan is [kind, requested, parts, sources]: "flood" or "drought"; the return
                    \* periods; the years asked for, or {} for all_complete
    Tiles,          \* the tiles whose bounding box meets the area
    Outside,        \* the ones whose raster does not
    Years,          \* the years the listing comes to have
    Late,           \* the ones whose file is not named as the template has it, listed later
    MaxRevision,    \* bound on the contents upstream has over time; from 2 on, a new release
    None, Torn      \* no file; a file that is damaged, or was written by two calls at once

VARIABLES
    requests,   \* the requests that are made
    revision,   \* what upstream serves
    file,       \* the cached files
    staging,    \* their staging names
    record,     \* the plans' records: the checksum of every file, or None
    output,     \* the plans' canonical outputs: what they were made of, or None
    raced,      \* history: two calls wrote one staging name at once
    pc,         \* where each call is
    call        \* its local variables

disk == <<file, staging, record, output>>
vars == <<requests, revision, disk, raced, pc, call>>

-----------------------------------------------------------------------------
Plan == {r[2] : r \in UNION Sharing}
Part == UNION {plan.parts : plan \in Plan}
CropUnit == (Tiles \cup Years) \X Part
Nothing == [u \in {} |-> None]

\* Contents of a file, and checksums of some files.
Content == Nat \cup {None, Torn}
IsSums(sums) == DOMAIN sums \subseteq CropUnit /\ sums \in [DOMAIN sums -> Content]

\* A plan has at least four return periods, or the minimum (_periods).
CropAssumption ==
    /\ Outside \subseteq Tiles /\ Late \subseteq Years
    /\ MaxRevision \in Nat \ {0} /\ None \notin Nat /\ Torn \notin Nat \cup {None}
    /\ \A units \in SUBSET CropUnit : None \notin [units -> Content]
    /\ Plan # {} /\ \A plan \in Plan : plan.parts # {} /\ plan.sources \subseteq Years
    /\ \A r \in UNION Sharing : r[3] \in {"ensure", "prefetch"}

Mode == {"reuse", "offline", "refresh"}
NoCall == [plan |-> CHOOSE plan \in Plan : TRUE, mode |-> "reuse", op |-> "prefetch",
           todo |-> {}, sums |-> Nothing, unit |-> None, at |-> "staging", shared |-> FALSE,
           listed |-> FALSE, told |-> {}, made |-> FALSE, alone |-> TRUE]

Init ==
    /\ requests \in Sharing
    /\ revision = 1
    /\ file = [u \in CropUnit |-> None] /\ staging = [u \in CropUnit |-> None]
    /\ record = [plan \in Plan |-> None] /\ output = [plan \in Plan |-> None]
    /\ raced = FALSE
    /\ pc = [p \in Proc |-> "idle"] /\ call = [p \in Proc |-> NoCall]

Running(p) == pc[p] \notin {"idle", "done"}
Goto(p, l) == pc' = [pc EXCEPT ![p] = l]
Raise(p) == Goto(p, "idle") /\ call' = [call EXCEPT ![p] = NoCall]
PlanOf(p) == call[p].plan

-----------------------------------------------------------------------------
(* Upstream. *)

\* resolve_version: the latest release must be the configured one; a pinned one
\* is taken at its word.
Resolves(plan) == plan.requested = "latest" => revision = 1

\* complete_years reads the listing.
CompleteYears == IF revision = 1 THEN Years \ Late ELSE Years

\* tiles_for, resources_for: the tiles by bounding box, the years by the listing.
Sources(plan) ==
    IF plan.kind = "flood" THEN Tiles
    ELSE IF plan.sources = {} THEN CompleteYears ELSE plan.sources

\* The flood maps of all releases have one URL, the minima's URL has the release.
Serves(plan) == IF plan.kind = "flood" THEN revision ELSE 1

\* year_url: a late year's file is found under the name that was listed.
Exists(p, u) == u[1] \in Late => call[p].listed /\ u[1] \in CompleteYears

\* explain: what the plan would use, if its record can be reused.
Explain(plan) == IF record[plan] = None THEN {} ELSE DOMAIN record[plan]

-----------------------------------------------------------------------------
(* A call. *)

\* `alone` is a history variable: no other call ran during this one.
Start(p) ==
    /\ pc[p] = "idle"
    /\ \E r \in requests, mode \in Mode :
        /\ r[1] = p
        /\ call' = [q \in Proc |->
            IF q = p THEN [NoCall EXCEPT !.plan = r[2], !.mode = mode, !.op = r[3],
                             !.told = Explain(r[2]), !.alone = \A q2 \in Proc \ {p} : ~Running(q2)]
            ELSE [call[q] EXCEPT !.alone = FALSE]]
    /\ Goto(p, "output")
    /\ UNCHANGED <<requests, revision, disk, raced>>

\* ensure_materialized returns an output that is there, whatever it was made of.
Served(p) ==
    /\ pc[p] = "output"
    /\ Goto(p, IF call[p].op = "ensure" /\ output[PlanOf(p)] # None /\ call[p].mode # "refresh"
               THEN "done" ELSE "look")
    /\ UNCHANGED <<requests, revision, disk, raced, call>>

\* Mutation of Entries: reuse asks upstream which files there are.
EntriesListed(p) ==
    LET plan == PlanOf(p) IN
    [units |-> Sources(plan) \X plan.parts,
     sums |-> IF call[p].mode # "refresh" /\ record[plan] # None THEN record[plan] ELSE Nothing,
     listed |-> TRUE]

\* Reuse takes the record's entries, with the checksums they have, and asks
\* nobody; otherwise the entries are fresh and have none.
Entries(p) ==
    LET plan == PlanOf(p) IN
    IF call[p].mode # "refresh" /\ record[plan] # None
    THEN [units |-> DOMAIN record[plan], sums |-> record[plan], listed |-> FALSE]
    ELSE [units |-> Sources(plan) \X plan.parts, sums |-> Nothing,
          listed |-> plan.kind = "drought" /\ plan.sources = {}]

\* Offline, every file of the record must have its checksum.
Vouched(m) == m # None /\ \A u \in DOMAIN m : file[u] = m[u]

LookOffline(p) ==
    /\ pc[p] = "look" /\ call[p].mode = "offline"
    /\ IF Vouched(record[PlanOf(p)])
       THEN call' = [call EXCEPT ![p].sums = record[PlanOf(p)]] /\ Goto(p, "prepared")
       ELSE Raise(p)
    /\ UNCHANGED <<requests, revision, disk, raced>>

\* The release is resolved unless the record is reused.
LookOnline(p) ==
    LET plan == PlanOf(p)
        entries == Entries(p) IN
    /\ pc[p] = "look" /\ call[p].mode # "offline"
    /\ IF (call[p].mode = "refresh" \/ record[plan] = None) /\ ~Resolves(plan)
       THEN Raise(p)
       ELSE /\ call' = [call EXCEPT ![p].todo = entries.units, ![p].sums = entries.sums,
                                    ![p].listed = entries.listed]
            /\ Goto(p, "files")
    /\ UNCHANGED <<requests, revision, disk, raced>>

\* Mutation of Hit: a file that is there is good.
HitByName(p, u) == file[u] # None /\ call[p].mode # "refresh"

\* The file is there and has the checksum of the entry.
Hit(p, u) ==
    /\ u \in DOMAIN call[p].sums /\ file[u] = call[p].sums[u] /\ file[u] # None
    /\ call[p].mode # "refresh"

Sum(p, u, content) ==
    [v \in DOMAIN call[p].sums \cup {u} |-> IF v = u THEN content ELSE call[p].sums[v]]

\* A source whose raster does not meet the area is dropped with all its files.
Without(p, u) ==
    [call EXCEPT ![p].todo = {v \in @ : v[1] # u[1]},
                 ![p].sums = [v \in {w \in DOMAIN @ : w[1] # u[1]} |-> @[v]]]

\* One file: taken if it is a hit; else its raster is opened, and cropped into
\* the staging name if it meets the area.
Crops(p) ==
    /\ pc[p] = "files" /\ call[p].todo # {}
    /\ LET u == CHOOSE u \in call[p].todo : TRUE
           others == {q \in Proc \ {p} : pc[q] = "writing" /\ call[q].unit = u
                                          /\ call[q].at = "staging"} IN
        IF Hit(p, u)
        THEN /\ call' = [call EXCEPT ![p].todo = @ \ {u}, ![p].sums = Sum(p, u, file[u])]
             /\ UNCHANGED <<staging, raced, pc>>
        ELSE IF ~Exists(p, u) THEN Raise(p) /\ UNCHANGED <<staging, raced>>
        ELSE IF u[1] \in Outside
        THEN call' = Without(p, u) /\ UNCHANGED <<staging, raced, pc>>
        ELSE /\ staging' = [staging EXCEPT ![u] = Torn]
             /\ call' = [q \in Proc |->
                    IF q = p THEN [call[p] EXCEPT !.unit = u, !.at = "staging",
                                                  !.shared = others # {}]
                    ELSE IF q \in others THEN [call[q] EXCEPT !.shared = TRUE] ELSE call[q]]
             /\ raced' = (raced \/ \E q \in Proc \ {p} : pc[q] \in {"writing", "written"}
                                                          /\ call[q].unit = u)
             /\ Goto(p, "writing")
    /\ UNCHANGED <<requests, revision, file, record, output>>

\* The crop goes where the file has been renamed to, and two that were written
\* at once may be a mixture.
Write(p) ==
    LET u == call[p].unit
        written == {Serves(PlanOf(p))} \cup IF call[p].shared THEN {Torn} ELSE {} IN
    /\ pc[p] = "writing"
    /\ \E content \in written :
        IF call[p].at = "staging"
        THEN staging' = [staging EXCEPT ![u] = content] /\ UNCHANGED file
        ELSE file' = [file EXCEPT ![u] = content] /\ UNCHANGED staging
    /\ Goto(p, "written")
    /\ UNCHANGED <<requests, revision, record, output, raced, call>>

\* temporary.replace(destination): raises if another call has renamed it.
Install(p) ==
    LET u == call[p].unit IN
    /\ pc[p] = "written"
    /\ IF staging[u] = None THEN Raise(p) /\ UNCHANGED <<file, staging>>
       ELSE /\ file' = [file EXCEPT ![u] = staging[u]]
            /\ staging' = [staging EXCEPT ![u] = None]
            /\ call' = [q \in Proc |-> IF pc[q] = "writing" /\ call[q].unit = u
                                       THEN [call[q] EXCEPT !.at = "file"] ELSE call[q]]
            /\ Goto(p, "installed")
    /\ UNCHANGED <<requests, revision, record, output, raced>>

\* Mutation of Checksum: the entry keeps the checksum it came with.
ChecksumKept(p) ==
    LET u == call[p].unit IN
    /\ pc[p] = "installed"
    /\ call' = [call EXCEPT ![p].todo = @ \ {u}, ![p].unit = None,
                  ![p].sums = IF u \in DOMAIN @ THEN @ ELSE Sum(p, u, file[u])]
    /\ Goto(p, "files")
    /\ UNCHANGED <<requests, revision, disk, raced>>

\* The checksum of an entry is taken of the file that is there.
Checksum(p) ==
    LET u == call[p].unit IN
    /\ pc[p] = "installed"
    /\ call' = [call EXCEPT ![p].todo = @ \ {u}, ![p].sums = Sum(p, u, file[u]), ![p].unit = None]
    /\ Goto(p, "files")
    /\ UNCHANGED <<requests, revision, disk, raced>>

WriteRecord(p) ==
    /\ pc[p] = "files" /\ call[p].todo = {}
    /\ record' = [record EXCEPT ![PlanOf(p)] = call[p].sums]
    /\ Goto(p, "prepared")
    /\ UNCHANGED <<requests, revision, file, staging, output, raced, call>>

\* The files are opened by name; without a flood raster there is no metadata to
\* write, and without a year nothing to open.
FloodOpens(made) == DOMAIN made # {} /\ \A u \in DOMAIN made : made[u] \notin {None, Torn}
YearsOpen(made) == DOMAIN made # {} /\ \A u \in DOMAIN made : made[u] \notin {None, Torn}

\* They are fitted into a staged output, which is renamed.
Materialize(p) ==
    LET made == [u \in DOMAIN call[p].sums |-> file[u]] IN
    /\ pc[p] = "prepared" /\ call[p].op = "ensure"
    /\ IF IF PlanOf(p).kind = "flood" THEN FloodOpens(made) ELSE YearsOpen(made)
       THEN /\ output' = [output EXCEPT ![PlanOf(p)] = made]
            /\ call' = [call EXCEPT ![p].made = TRUE]
            /\ Goto(p, "done")
       ELSE Raise(p) /\ UNCHANGED output
    /\ UNCHANGED <<requests, revision, file, staging, record, raced>>

Prefetched(p) ==
    /\ pc[p] = "prepared" /\ call[p].op = "prefetch" /\ Goto(p, "done")
    /\ UNCHANGED <<requests, revision, disk, raced, call>>

\* Upstream or the disk fails, or the process is killed.
\* What it leaves in a staging name of its own, the next crop overwrites.
Fails(p) ==
    /\ Running(p) /\ Raise(p)
    /\ staging' = [u \in CropUnit |-> IF u = call[p].unit /\ \A q \in Proc \ {p} : call[q].unit # u
                                  THEN None ELSE staging[u]]
    /\ UNCHANGED <<requests, revision, file, record, output, raced>>

Return(p) == pc[p] = "done" /\ Raise(p) /\ UNCHANGED <<requests, revision, disk, raced>>

\* Somebody removes or damages a file while no call runs.
Lose ==
    /\ \A p \in Proc : ~Running(p)
    /\ \E u \in {v \in CropUnit : file[v] # None}, content \in {None, Torn} :
        file' = [file EXCEPT ![u] = content]
    /\ call' = [p \in Proc |-> [call[p] EXCEPT !.alone = FALSE]]
    /\ UNCHANGED <<requests, revision, staging, record, output, raced, pc>>

Republish ==
    /\ revision < MaxRevision
    /\ revision' = revision + 1
    /\ UNCHANGED <<requests, disk, raced, pc, call>>

Step(p) ==
    \/ Served(p) \/ LookOffline(p) \/ LookOnline(p) \/ Crops(p) \/ Write(p) \/ Install(p) \/ Checksum(p)
    \/ WriteRecord(p) \/ Prefetched(p) \/ Materialize(p) \/ Fails(p)

Next ==
    \/ \E p \in Proc : Start(p) \/ Step(p) \/ Return(p)
    \/ Lose \/ Republish

Spec == Init /\ [][Next]_vars

-----------------------------------------------------------------------------
\* A call that has prepared its files with the cache to itself, whatever earlier
\* calls left, can be repeated offline: its record has every file of every source
\* that meets the area, with the bytes it has and none of them damaged (unless
\* two calls once cropped one raster at a time).  An output it made was made of
\* them, and reuse uses the files that explain announced.
CropsAreHonest ==
    \A p \in Proc :
        LET m == record[PlanOf(p)] IN
        pc[p] = "done" /\ call[p].alone /\ (call[p].op = "prefetch" \/ call[p].made) =>
            /\ m # None
            /\ \A u \in DOMAIN m :
                /\ file[u] = m[u] /\ file[u] # None /\ u[1] \notin Outside
                /\ file[u] = Torn => raced
                /\ \A part \in PlanOf(p).parts : <<u[1], part>> \in DOMAIN m
            /\ PlanOf(p).kind = "flood" => \A s \in Tiles \ Outside : \E u \in DOMAIN m : u[1] = s
            /\ call[p].made => output[PlanOf(p)] = m
            /\ call[p].mode # "refresh" /\ call[p].told # {} => DOMAIN m = call[p].told

-----------------------------------------------------------------------------
(***************************************************************************)
(* The inductive invariant: why crops are honest.                          *)
(***************************************************************************)

\* A call with these checksums.
Call(sums) ==
    [plan : Plan, mode : Mode, op : {"ensure", "prefetch"}, todo : SUBSET CropUnit, sums : {sums},
     unit : CropUnit \cup {None}, at : {"staging", "file"}, shared : BOOLEAN, listed : BOOLEAN,
     told : SUBSET CropUnit, made : BOOLEAN, alone : BOOLEAN]

TypeOK ==
    /\ requests \in Sharing /\ revision \in Nat /\ raced \in BOOLEAN
    /\ file \in [CropUnit -> Content] /\ staging \in [CropUnit -> Content]
    /\ record = [plan \in Plan |-> record[plan]] /\ output = [plan \in Plan |-> output[plan]]
    /\ \A plan \in Plan : record[plan] # None => IsSums(record[plan])
    /\ pc \in [Proc -> {"idle", "output", "look", "files", "writing", "written", "installed",
                        "prepared", "done"}]
    /\ call = [p \in Proc |-> call[p]]
    /\ \A p \in Proc : call[p] \in Call(call[p].sums) /\ IsSums(call[p].sums)

\* Two calls that crop one raster at a time have been noticed.
Cropping(p) == pc[p] \in {"writing", "written"}
CropsAreApart ==
    \A p, q \in Proc : p # q /\ Cropping(p) /\ Cropping(q) /\ call[p].unit = call[q].unit => raced

\* A crop is of a file that is still to do, and nobody but another call that
\* crops the same raster damages it.
CropIsWhole(p) ==
    LET u == call[p].unit IN
    pc[p] \in {"writing", "written", "installed"} =>
        /\ u \in call[p].todo /\ u[1] \notin Outside
        /\ pc[p] = "writing" /\ (call[p].shared \/ call[p].at = "file") => raced
        /\ pc[p] = "written" /\ staging[u] = Torn => raced
        /\ pc[p] = "installed" => file[u] # None /\ (file[u] = Torn => raced)

\* Checksums are of files that meet the area, and of damaged ones only after a
\* race; files have every part of their source, of every source of a flood.
AreSound(sums) ==
    \A u \in DOMAIN sums : u[1] \notin Outside /\ sums[u] # None /\ (sums[u] = Torn => raced)
Covers(plan, units) ==
    /\ \A u \in units, part \in plan.parts : <<u[1], part>> \in units
    /\ plan.kind = "flood" => \A s \in Tiles \ Outside : \E u \in units : u[1] = s

RecordIsSound(plan) ==
    record[plan] # None => AreSound(record[plan]) /\ Covers(plan, DOMAIN record[plan])

\* A call between its look and its end has sound checksums, and they and what it
\* still has to do make up its plan.
Prepares(p) ==
    \/ pc[p] \in {"files", "writing", "written", "installed", "prepared"}
    \/ pc[p] = "done" /\ (call[p].op = "prefetch" \/ call[p].made)

CallIsSound(p) ==
    Prepares(p) =>
        /\ AreSound(call[p].sums) /\ Covers(PlanOf(p), DOMAIN call[p].sums \cup call[p].todo)
        /\ pc[p] \in {"prepared", "done"} => call[p].todo = {}
LooksFirst(p) == pc[p] \in {"output", "look"} => call[p].todo = {}

\* While a call is alone, the files it is done with stay as its checksums say, its
\* record and its output are of them, and it uses the files that explain announced.
AloneIsUndisturbed(p) ==
    LET c == call[p] IN
    c.alone /\ pc[p] # "idle" =>
        /\ \A q \in Proc \ {p} : ~Running(q)
        /\ Prepares(p) => \A u \in DOMAIN c.sums \ c.todo : file[u] = c.sums[u]
        /\ Prepares(p) /\ pc[p] \in {"prepared", "done"} => record[c.plan] = c.sums
        /\ Prepares(p) /\ c.made => output[c.plan] = c.sums
        /\ c.mode # "refresh" /\ c.told # {} =>
            /\ pc[p] \in {"output", "look"} => record[c.plan] # None /\ DOMAIN record[c.plan] = c.told
            /\ Prepares(p) => DOMAIN c.sums = c.told /\ c.todo \subseteq c.told

\* Only a call that has ended has made its output.
MadeAtTheEnd(p) == call[p].made => pc[p] = "done"

IInv ==
    /\ TypeOK /\ CropsAreApart
    /\ \A plan \in Plan : RecordIsSound(plan)
    /\ \A p \in Proc : CropIsWhole(p) /\ CallIsSound(p) /\ AloneIsUndisturbed(p)
    /\ \A p \in Proc : LooksFirst(p) /\ MadeAtTheEnd(p)
=============================================================================
