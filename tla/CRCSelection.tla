---------------------------- MODULE CRCSelection ----------------------------
(***************************************************************************)
(* What a CRC Open plan selects (providers/crc_open.py,                    *)
(* workflows/crc_open.py): the contract of a catalogue, the pruning of     *)
(* whole partitions by area and horizon, the checks and the row filter of  *)
(* _write, and the narrowing of a plan to a portfolio's selection.         *)
(*                                                                         *)
(* A partition declares its r0 parent and, if sampled, its cells and       *)
(* horizons; its rows are what the file holds.  An area is the set of the  *)
(* cells whose polygon it intersects.                                      *)
(***************************************************************************)
EXTENDS FiniteSets

CONSTANTS
    Anything,   \* no restriction: no area, no horizons, cells not declared
    Error       \* the outcome of a call that raises

-----------------------------------------------------------------------------
(* The plan: its setters and the catalogue's contract. *)

Plan(pathway, area, hazards, horizons) ==
    [pathway |-> pathway, area |-> area, hazards |-> hazards, horizons |-> horizons]

\* hazards and horizons refuse an empty sequence.
WithHazards(plan, names) == IF names = {} THEN Error ELSE [plan EXCEPT !.hazards = names]
WithHorizons(plan, years) == IF years = {} THEN Error ELSE [plan EXCEPT !.horizons = years]

\* CRCCatalog.validate_contract.
ValidContract(catalog) ==
    /\ DOMAIN catalog.hazards # {}
    /\ DOMAIN catalog.hazards \cap catalog.excluded = {}
    /\ \A name \in DOMAIN catalog.hazards :
        LET hazard == catalog.hazards[name] IN
        /\ hazard.pathways \subseteq catalog.pathways
        /\ hazard.partitions # {} /\ hazard.horizons # {}

-----------------------------------------------------------------------------
(* Pruning: parent[c] is the r0 parent of cell c.  The bounding box of a     *)
(* parent covers its descendants, also those outside its polygon.            *)

Parents(area, parent) == {parent[c] : c \in area}

\* Mutation of MayMatch: a sampled partition is skipped if a cell lies outside.
MayMatchWhole(entry, plan, parent) ==
    /\ plan.area # Anything => entry.r0 \in Parents(plan.area, parent)
    /\ plan.area # Anything /\ entry.cells # Anything => entry.cells \subseteq plan.area
    /\ plan.horizons # Anything /\ entry.horizons # {} =>
        plan.horizons \cap entry.horizons # {}

MayMatch(entry, plan, parent) ==
    /\ plan.area # Anything => entry.r0 \in Parents(plan.area, parent)
    /\ plan.area # Anything /\ entry.cells # Anything => entry.cells \cap plan.area # {}
    /\ plan.horizons # Anything /\ entry.horizons # {} =>
        plan.horizons \cap entry.horizons # {}

Names(plan, catalog) ==
    IF plan.hazards = {} THEN DOMAIN catalog.hazards ELSE plan.hazards

\* The plan's pathway, hazards and horizons are in the release.
Available(plan, catalog) ==
    /\ plan.pathway \in catalog.pathways
    /\ Names(plan, catalog) \subseteq DOMAIN catalog.hazards
    /\ \A name \in Names(plan, catalog) :
        /\ plan.pathway \in catalog.hazards[name].pathways
        /\ plan.horizons # Anything => plan.horizons \subseteq catalog.hazards[name].horizons

\* _selection: the partitions to download, by hazard; each must have some.
Selection(plan, catalog, parent) ==
    LET chosen == [name \in Names(plan, catalog) |->
            {e \in catalog.hazards[name].partitions : MayMatch(e, plan, parent)}]
    IN  IF Available(plan, catalog) /\ {} \notin {chosen[name] : name \in DOMAIN chosen}
        THEN chosen ELSE Error

-----------------------------------------------------------------------------
(* Writing: every downloaded row is checked against the catalogue. *)

\* The batches and the end of a partition: its rows are in the declared scope,
\* and fill the declared cells and horizons.
Agrees(entry, hazard, parent) ==
    /\ \A r \in entry.rows : /\ r.pathway \in hazard.pathways
                             /\ r.horizon \in hazard.horizons
                             /\ parent[r.cell] = entry.r0
    /\ entry.cells # Anything => {r.cell : r \in entry.rows} = entry.cells
    /\ entry.horizons # {} => {r.horizon : r \in entry.rows} = entry.horizons

Matches(row, plan) ==
    /\ row.pathway = plan.pathway
    /\ plan.horizons # Anything => row.horizon \in plan.horizons
    /\ plan.area # Anything => row.cell \in plan.area

MatchingRows(entries, plan) ==
    UNION {{r \in e.rows : Matches(r, plan)} : e \in entries}

\* _write of one hazard.
Written(plan, hazard, entries, parent) ==
    LET rows == MatchingRows(entries, plan) IN
    IF (\A e \in entries : Agrees(e, hazard, parent)) /\ rows # {} THEN rows ELSE Error

\* materialize_all: every selected hazard, or an error; curves are downloaded of
\* named hazards only.
Materialized(plan, catalog, parent) ==
    LET chosen == IF plan = Error \/ plan.hazards = {} THEN Error ELSE Selection(plan, catalog, parent)
        rows == [name \in DOMAIN chosen |->
                    Written(plan, catalog.hazards[name], chosen[name], parent)]
    IN  IF chosen = Error THEN Error
        ELSE IF \E name \in DOMAIN rows : rows[name] = Error THEN Error
        ELSE rows

-----------------------------------------------------------------------------
(* A portfolio's selection: [pathways, hazards, horizons], Anything or a set. *)

\* Mutation of Narrowed: the plan's own horizons stay.
NarrowedHazards(plan, sel) ==
    IF \/ sel.pathways # Anything /\ sel.pathways # {plan.pathway}
       \/ sel.hazards # Anything /\ plan.hazards # {} /\ ~(sel.hazards \subseteq plan.hazards)
    THEN Error
    ELSE IF sel.hazards = Anything THEN plan ELSE WithHazards(plan, sel.hazards)

\* CRCOpenPortfolioEvaluation.write_parquet: what is acquired.
Narrowed(plan, sel) ==
    LET byHazard == IF sel.hazards = Anything THEN plan ELSE WithHazards(plan, sel.hazards) IN
    IF \/ sel.pathways # Anything /\ sel.pathways # {plan.pathway}
       \/ sel.hazards # Anything /\ plan.hazards # {} /\ ~(sel.hazards \subseteq plan.hazards)
       \/ /\ sel.horizons # Anything /\ plan.horizons # Anything
          /\ ~(sel.horizons \subseteq plan.horizons)
       \/ plan.area = Anything
    THEN Error
    ELSE IF sel.horizons = Anything \/ byHazard = Error THEN byHazard
    ELSE WithHorizons(byHazard, sel.horizons)

\* The result of a call that fails is none of the results of a call that does
\* not: no plan, no rows, no choice of partitions and no rows by hazard.
ErrorIsApart(plan, catalog) ==
    LET partitions == UNION {catalog.hazards[name].partitions : name \in DOMAIN catalog.hazards}
        rows == UNION {e.rows : e \in partitions}
    IN  /\ Error # plan
        /\ \A kept \in SUBSET rows : Error # kept
        /\ \A names \in SUBSET DOMAIN catalog.hazards :
            /\ \A chosen \in [names -> SUBSET partitions] : Error # chosen
            /\ \A written \in [names -> SUBSET rows] : Error # written

-----------------------------------------------------------------------------
(* What the rows written for a plan must be. *)

\* Every row of the release that the plan asks for, of one hazard.
Wanted(plan, hazard) == MatchingRows(hazard.partitions, plan)

\* Pruning is invisible: if the files agree with the catalogue, a plan gets
\* every row it asks for, or an error if it asks for none; and it never gets a
\* row outside its selection, whatever the files hold (_selection, _write).
PruningIsInvisible(plan, catalog, parent) ==
    LET got == Materialized(plan, catalog, parent)
        honest == \A name \in DOMAIN catalog.hazards :
            \A e \in catalog.hazards[name].partitions :
                Agrees(e, catalog.hazards[name], parent)
    IN  ValidContract(catalog) =>
        /\ got # Error => \A name \in DOMAIN got :
            /\ got[name] # {} /\ got[name] \subseteq Wanted(plan, catalog.hazards[name])
            /\ honest => got[name] = Wanted(plan, catalog.hazards[name])
        /\ honest /\ got = Error =>
            \/ plan.hazards = {} \/ ~Available(plan, catalog)
            \/ \E name \in Names(plan, catalog) : Wanted(plan, catalog.hazards[name]) = {}

\* A portfolio narrows what is acquired and not what it gets: the rows it
\* selects of a narrowed plan are those it selects of the plan itself.
NarrowingIsInvisible(plan, sel, catalog, parent) ==
    LET narrow == Materialized(Narrowed(plan, sel), catalog, parent)
        wide == Materialized(plan, catalog, parent)
    IN  narrow # Error /\ wide # Error =>
        \A name \in DOMAIN narrow :
            narrow[name] = {r \in wide[name] :
                sel.horizons # Anything => r.horizon \in sel.horizons}
=============================================================================
