------------------------------ MODULE Coverage ------------------------------
(***************************************************************************)
(* The coverage of H3 cells by administrative polygons                     *)
(* (geometry/coverage.py) and the lookup derived from it                   *)
(* (geometry/admin.py): one DuckDB connection, private relations on it,    *)
(* cells classified in batches, three partial files merged by UNION ALL.   *)
(*                                                                         *)
(* A shape is the set of the units of area it covers.  Cells of one        *)
(* resolution do not overlap, and a child need not lie in its parent.      *)
(***************************************************************************)
EXTENDS Integers, FiniteSets, FiniteSetsExt

CONSTANTS
    Unit,           \* units of area
    Cell,           \* the cells of the resolution: numbers, in the order of their ids
    Shape,          \* [Cell -> SUBSET Unit]
    Parent,         \* the parent of a cell
    ParentShapes,   \* what the polygons of the parents may be
    Country,        \* the polygons, each with its adm0
    MaxBatch        \* bound on edge_batch_rows

\* There are finitely many cells, polygons and units of area.
ASSUME CoverageAssumption ==
    /\ Cell \subseteq Nat \ {0} /\ MaxBatch \in Nat \ {0}
    /\ IsFiniteSet(Unit) /\ IsFiniteSet(Cell) /\ IsFiniteSet(DOMAIN Country)
    /\ \A c \in Cell : Shape[c] \subseteq Unit
    /\ \A c, d \in Cell : c # d => Shape[c] \cap Shape[d] = {}
    /\ \A c \in Cell : Shape[c] # {}

Poly == DOMAIN Country

VARIABLES
    poly,       \* the polygons' shapes
    parentShape,
    hierarchy,  \* whether the resolution has a parent resolution
    batch,      \* edge_batch_rows
    pc,
    relations,  \* the private relations on the connection
    last,       \* the last cell classified, 0 before the first
    edges,      \* _crc_edge_singles or _crc_partial_hexes
    files,      \* the rows written: partial file -> set of [cell, poly, units]
    out,        \* the merged rows, each with the file it came from
    lookup      \* the nested contract, a row per cell

inputs == <<poly, parentShape, hierarchy, batch>>
vars == <<inputs, pc, relations, last, edges, files, out, lookup>>

-----------------------------------------------------------------------------
Candidates == {x \in Cell \X Poly : Shape[x[1]] \cap poly[x[2]] # {}}
Count(c) == Cardinality({p \in Poly : <<c, p>> \in Candidates})
Singles == {x \in Candidates : Count(x[1]) = 1}
Competing == Candidates \ Singles

\* ST_Contains of the polygon over the cell or over its parent.
Contained(c, p) == Shape[c] \subseteq poly[p]

\* Mutation of Interior: the parent is asked whether it is touched.
InteriorTouched(c, p) == parentShape[Parent[c]] \cap poly[p] # {}

Interior(c, p) == parentShape[Parent[c]] \subseteq poly[p]

Row(c, p, units) == [cell |-> c, poly |-> p, units |-> units]
Whole(c, p) == Row(c, p, Cardinality(Shape[c]))                      \* pct = 1.0
Clipped(c, p) == Row(c, p, Cardinality(Shape[c] \cap poly[p]))       \* the area ratio

NoFiles == [interior |-> {}, contained |-> {}, exact |-> {}]

Init ==
    /\ poly \in {f \in [Poly -> SUBSET Unit] :
                    \A p, q \in Poly : p # q => f[p] \cap f[q] = {}}
    /\ parentShape \in ParentShapes
    /\ hierarchy \in BOOLEAN /\ batch \in 1..MaxBatch
    /\ pc = "idle" /\ relations = {} /\ last = 0 /\ edges = {}
    /\ files = NoFiles /\ out = {} /\ lookup = {}

\* Relations are dropped, then created; creating one that is there raises.
Create(drops, names, next) ==
    /\ relations' = (relations \ drops) \cup names
    /\ pc' = IF names \cap (relations \ drops) = {} THEN next ELSE "collision"

-----------------------------------------------------------------------------
\* The candidates are spilled behind a view of a fresh name.
Start ==
    /\ pc \in {"idle", "done"}
    /\ Create({}, {"candidates"}, "count")
    /\ hierarchy' \in BOOLEAN
    /\ last' = 0 /\ edges' = {} /\ files' = NoFiles /\ out' = {} /\ lookup' = {}
    /\ UNCHANGED <<poly, parentShape, batch>>

Keep == UNCHANGED <<inputs, last, edges, files, out, lookup>>

CountCells ==
    /\ pc = "count"
    /\ Create({"hex_counts"}, {"hex_counts"}, IF hierarchy THEN "classify" ELSE "edges")
    /\ Keep

\* Parents of single cells are classified; their geometries are dropped again.
ClassifyParents ==
    /\ pc = "classify"
    /\ Create({"single_cells", "parent_touch", "parent_geoms", "parent_class"},
              {"single_cells", "parent_class"}, "interior")
    /\ Keep

\* Singles under a contained parent are whole.
WriteInterior ==
    /\ pc = "interior"
    /\ files' = [files EXCEPT !.interior =
            {Whole(x[1], x[2]) : x \in {y \in Singles : Interior(y[1], y[2])}}]
    /\ Create({"boundary_children"}, {"boundary_children"}, "edges")
    /\ UNCHANGED <<inputs, last, edges, out, lookup>>

\* materialize_edge_hexes: the single cells to classify, all of them without a
\* hierarchy.
ToClassify ==
    {x[1] : x \in {y \in Singles : hierarchy => ~Interior(y[1], y[2])}}

\* Mutation of SetUpEdges: the relations are created and never dropped first.
SetUpEdgesOnce ==
    /\ pc = "edges"
    /\ Create({}, {"edges", "single_ids"},
              IF ToClassify # {} THEN "batch" ELSE IF hierarchy THEN "contained" ELSE "needed")
    /\ last' = 0 /\ edges' = {}
    /\ UNCHANGED <<inputs, files, out, lookup>>

SetUpEdges ==
    /\ pc = "edges"
    /\ Create({"edges", "single_ids"},
              {"edges"} \cup IF ToClassify = {} THEN {} ELSE {"single_ids"},
              IF ToClassify # {} THEN "batch" ELSE IF hierarchy THEN "contained" ELSE "needed")
    /\ last' = 0 /\ edges' = {}
    /\ UNCHANGED <<inputs, files, out, lookup>>

\* The next cells after the last one, at most a batch.
BatchOf ==
    LET rest == {c \in ToClassify : c > last} IN
    {c \in rest : Cardinality({d \in rest : d <= c}) <= batch}

\* The last batch is a short one, or an empty one.
ClassifyBatch ==
    /\ pc = "batch"
    /\ edges' = edges \cup {c \in BatchOf : \E p \in Poly :
                                <<c, p>> \in Singles /\ ~Contained(c, p)}
    /\ last' = IF BatchOf = {} THEN last ELSE Max(BatchOf)
    /\ IF Cardinality(BatchOf) = batch
       THEN Create({"edge_batch", "edge_batch_geoms"}, {"edge_batch", "edge_batch_geoms"}, "batch")
       ELSE Create({"edge_batch", "edge_batch_geoms", "single_ids"}, {},
                   IF hierarchy THEN "contained" ELSE "needed")
    /\ UNCHANGED <<inputs, files, out, lookup>>

\* Singles under other parents that lie in their polygon are whole.
WriteContained ==
    /\ pc = "contained"
    /\ files' = [files EXCEPT !.contained =
            {Whole(x[1], x[2]) : x \in {y \in Singles : ~Interior(y[1], y[2]) /\ y[1] \notin edges}}]
    /\ Create({"boundary_children"}, {}, "needed")
    /\ UNCHANGED <<inputs, last, edges, out, lookup>>

Needed == edges \cup {x[1] : x \in Competing}

MaterializeNeeded ==
    /\ pc = "needed"
    /\ Create({"needed_hexes", "hex_geoms"},
              {"needed_hexes"} \cup IF hierarchy /\ Needed = {} THEN {} ELSE {"hex_geoms"}, "exact")
    /\ Keep

\* Edges and competing cells are clipped; without a hierarchy the same statement
\* writes the other single cells.
WriteExact ==
    /\ pc = "exact"
    /\ LET clipped == {Clipped(x[1], x[2]) :
                x \in {y \in Singles : y[1] \in edges} \cup {y \in Competing : y[1] \in Needed}}
           plain == {Whole(x[1], x[2]) : x \in {y \in Singles : y[1] \notin edges}}
       IN files' = [files EXCEPT !.exact = clipped,
                                 !.contained = IF hierarchy THEN @ ELSE plain]
    /\ pc' = "merge"
    /\ UNCHANGED <<inputs, relations, last, edges, out, lookup>>

\* What the finally clauses of the writers drop.
Private == {"candidates", "hex_counts", "single_cells", "parent_touch", "parent_geoms",
            "parent_class", "boundary_children", "edges", "needed_hexes", "hex_geoms"}
FlatPrivate == {"candidates", "hex_counts", "edges", "needed_hexes", "hex_geoms"}

Finally == relations' = relations \ (IF hierarchy THEN Private ELSE FlatPrivate)

\* UNION ALL keeps duplicates: a row of two files is there twice.
Merge ==
    /\ pc = "merge"
    /\ out' = UNION {{<<f, r>> : r \in files[f]} : f \in DOMAIN files}
    /\ Finally /\ pc' = "done"
    /\ UNCHANGED <<inputs, last, edges, files, lookup>>

\* A statement fails: DuckDB runs out of memory, the disk fills.
Fails ==
    /\ pc \notin {"idle", "done", "collision"}
    /\ Finally /\ pc' = "idle"
    /\ last' = 0 /\ edges' = {} /\ files' = NoFiles
    /\ UNCHANGED <<inputs, out, lookup>>

-----------------------------------------------------------------------------
(* write_lookup_contract. *)

RowsOf(c) == {x[2] : x \in {y \in out : y[2].cell = c /\ y[2].units > 0}}
Least1(c, units) == Min({units, Cardinality(Shape[c])})
\* The units of rows, one by one: there are as many as the rows add up to.
UnitsOf(rows) == UNION {{r} \X (1..r.units) : r \in rows}
Rollup(c, rows) == Least1(c, Cardinality(UnitsOf(rows)))
InCountry(c, country) == {r \in RowsOf(c) : Country[r.poly] = country}

\* Mutation of Best: the smallest share comes first.
BestLast(c) == CHOOSE r \in RowsOf(c) : \A s \in RowsOf(c) : s.units >= r.units

\* The path of the largest share, ties by name.
Best(c) == CHOOSE r \in RowsOf(c) : \A s \in RowsOf(c) : s.units <= r.units

\* One row for each cell of each hash bucket: the best path, the countries in
\* its nested coverage, and whether the cell is interior at either level.
NestedRow(c) ==
    LET best == Best(c)
        country == Country[best.poly]
        countries == {Country[r.poly] : r \in RowsOf(c)}
        full == Cardinality(Shape[c])
    IN  [cell |-> c, best |-> best.poly, pct |-> best.units,
         adm0 |-> country, adm0_pct |-> Rollup(c, InCountry(c, country)),
         countries |-> countries,
         interior0 |-> Cardinality(countries) = 1 /\ Rollup(c, InCountry(c, country)) = full,
         interior2 |-> Cardinality(RowsOf(c)) = 1 /\ best.units = full]

Nestings == {NestedRow(c) : c \in {d \in Cell : RowsOf(d) # {}}}

DeriveLookup ==
    /\ pc = "done" /\ lookup = {}
    /\ lookup' = Nestings
    /\ UNCHANGED <<inputs, pc, relations, last, edges, files, out>>

\* LookupCatalog.country_cells_sql over the nested lookup and over the rows.
NestedCountryCells(country) ==
    {row.cell : row \in {r \in lookup : r.adm0 = country \/ country \in r.countries}}
ExplodedCountryCells(country) ==
    {y[2].cell : y \in {z \in out : Country[z[2].poly] = country /\ z[2].units > 0}}

Next ==
    \/ Start \/ CountCells \/ ClassifyParents \/ WriteInterior \/ SetUpEdges \/ ClassifyBatch
    \/ WriteContained \/ MaterializeNeeded \/ WriteExact \/ Merge \/ Fails \/ DeriveLookup

Spec == Init /\ [][Next]_vars

-----------------------------------------------------------------------------
Nested == \A c \in Cell : Shape[c] \subseteq parentShape[Parent[c]]

\* The artifact has one row for each cell and polygon that overlap, with the
\* share of the cell they have in common: no cell is lost between batches or
\* between the three files, and none is written twice.
Exact ==
    pc = "done" =>
        \A x \in Candidates : LET rows == {y \in out : y[2].cell = x[1] /\ y[2].poly = x[2]} IN
            Cardinality(rows) = 1 /\ \A y \in rows : y[2] = Clipped(x[1], x[2])

\* Where children lie in their parents, and always without a hierarchy.
CoverageIsExact == (hierarchy => Nested) => Exact

\* A failed call leaves no relation that makes a later call fail.
NoCollision == pc # "collision"

\* The lookup names for each cell that a polygon covers the polygon that has
\* most of it, a cell is interior exactly if its polygon, or its country, has
\* all of it, and a country has the same cells in the lookup and in the rows.
LookupAgrees ==
    pc = "done" /\ lookup # {} =>
      /\ \A p \in Poly : NestedCountryCells(Country[p]) = ExplodedCountryCells(Country[p])
      /\ (hierarchy => Nested) => \A row \in lookup :
        /\ \A p \in Poly : Cardinality(Shape[row.cell] \cap poly[p]) <= row.pct
        /\ row.interior2 <=> Shape[row.cell] \subseteq poly[row.best]
        /\ row.interior0 <=> Shape[row.cell] \subseteq
                UNION {poly[p] : p \in {q \in Poly : Country[q] = row.adm0}}

-----------------------------------------------------------------------------
(* The inductive invariant. *)

\* A cell that does not lie in the one polygon it touches.
IsEdge(c) == \E p \in Poly : <<c, p>> \in Singles /\ ~Contained(c, p)
Edges == {c \in ToClassify : IsEdge(c)}
Clippings == {Clipped(x[1], x[2]) : x \in {y \in Singles : y[1] \in Edges} \cup Competing}

\* What a file holds once it is written.
InteriorRows ==
    IF hierarchy THEN {Whole(x[1], x[2]) : x \in {y \in Singles : Interior(y[1], y[2])}} ELSE {}
ContainedRows ==
    {Whole(x[1], x[2]) : x \in {y \in Singles :
        (hierarchy => ~Interior(y[1], y[2])) /\ y[1] \notin Edges}}

\* The files fill in their order, and the edges with the batches.
FilesOK ==
    /\ files = [interior |-> files.interior, contained |-> files.contained, exact |-> files.exact]
    /\ pc = "count" => files.interior = {}
    /\ pc \in {"classify", "interior"} => hierarchy
    /\ pc \in {"edges", "batch", "contained", "needed", "exact", "merge"} => files.interior = InteriorRows
    /\ pc = "batch" => last \in Nat /\ edges = {c \in Edges : c <= last}
    /\ pc \in {"contained", "needed", "exact"} => edges = Edges
    /\ pc = "contained" => hierarchy
    /\ pc \in {"needed", "exact"} /\ hierarchy => files.contained = ContainedRows
    /\ pc = "merge" => files.contained = ContainedRows /\ files.exact = Clippings

Merged ==
    {<<"interior", r>> : r \in InteriorRows} \cup {<<"contained", r>> : r \in ContainedRows}
        \cup {<<"exact", r>> : r \in Clippings}

IInv ==
    /\ poly \in [Poly -> SUBSET Unit] /\ \A p, q \in Poly : p # q => poly[p] \cap poly[q] = {}
    /\ hierarchy \in BOOLEAN /\ batch \in Nat \ {0}
    /\ pc \in {"idle", "done"} => "candidates" \notin relations
    /\ NoCollision
    /\ FilesOK
    /\ pc = "done" => out = Merged
    /\ lookup = {} \/ (pc = "done" /\ lookup = Nestings)
=============================================================================
