---------------------------- MODULE PMTilesBuild ----------------------------
(***************************************************************************)
(* PMTiles archives (geometry/pmtiles): a request of layers is checked     *)
(* against the disk, its features are read as one stream with each layer's *)
(* name and zooms as a tag, tippecanoe tiles them in a scratch directory,  *)
(* and the archive is published.  Builds share the disk and a destination. *)
(*                                                                         *)
(* The supervision of the process is TippecanoeProcess; here it fails or   *)
(* ends.  A zoom window is a pair; a fraction is a pair; disk is in units. *)
(***************************************************************************)
EXTENDS Integers, FiniteSets, Sequences, FiniteSetsExt

CONSTANTS
    Proc,           \* builds at a time
    Requests,       \* what may be asked for
    Disk,           \* free disk at the start
    Floor,          \* _MIN_SAFE_SCRATCH_BYTES
    DefaultFactor,  \* DEFAULT_TEMP_TO_INPUT_FACTOR
    None, Torn

\* Sizes and counts are numbers, a layer has a name and a list of zooms, and a
\* fraction has a positive denominator.
PMTilesAssumption ==
    /\ Disk \in Nat /\ Floor \in Nat /\ DefaultFactor \in Nat
    /\ IsFiniteSet(Proc)
    /\ \A build \in Requests :
        /\ build.to \in {"local", "remote"}
        /\ {build.fraction, build.envFraction} \ {None} \subseteq Int \X (Nat \ {0})
        /\ {build.factor, build.envFactor} \ {None} \subseteq Int
        /\ Len(build.layers) \in Nat /\ DOMAIN build.layers = 1..Len(build.layers)
        /\ \A i \in DOMAIN build.layers :
            /\ build.layers[i].zooms \in Seq(Int)
            /\ build.layers[i].name # None
            /\ build.layers[i].source.bytes \in Nat

VARIABLES
    free,       \* free disk
    archive,    \* what a local and a remote destination hold
    pc, call

vars == <<free, archive, pc, call>>

-----------------------------------------------------------------------------
(* Requests. *)

MaxZoom == 24

\* coerce_zoom_range: two numbers are the bounds as they stand, other numbers
\* are spanned.
CoerceZooms(given) ==
    LET pair == IF Len(given) = 2 THEN given
                ELSE <<Min(Range(given)), Max(Range(given))>>
    IN  IF given # <<>> /\ 0 <= pair[1] /\ pair[1] <= pair[2] /\ pair[2] <= MaxZoom
        THEN pair ELSE None

ValidLayer(layer) == CoerceZooms(layer.zooms) # None

\* The argument, else the value of the environment if it can be used, else the default.
Default(explicit, usable, default) ==
    IF explicit # None THEN explicit
    ELSE CHOOSE v \in (IF usable # {} THEN usable ELSE {default}) : TRUE

\* resolve_temp_to_input_factor
Factor(build) ==
    Default(build.factor, {f \in {build.envFactor} \ {None} : f > 0}, DefaultFactor)

InUnit(f) == f[1] > 0 /\ f[1] <= f[2]
Fraction(build) ==
    Default(build.fraction, {f \in {build.envFraction} \ {None} : InUnit(f)}, <<1, 4>>)

\* TilingBudget.detect: a share of the free disk, at least the floor, at most all.
SafeScratch(build) ==
    LET f == Fraction(build) IN Min({free, Max({Floor, (free * f[1]) \div f[2]})})

-----------------------------------------------------------------------------
(* The stream of features. *)

StandardNames == <<"geometry", "geom", "wkb_geometry", "the_geom">>

\* _find_geometry_column: the column the metadata name, or the first usual name.
GeometryColumn(source) ==
    LET usual == SelectSeq(StandardNames, LAMBDA n : n \in source.columns) IN
    IF source.primary \in source.columns THEN source.primary
    ELSE IF usual # <<>> THEN Head(usual) ELSE None

\* _needs_reprojection: a system without a name is taken for WGS 84.
Reprojected(source) == source.crs \notin {None, "EPSG:4326"}

Properties(layer) ==
    {c \in layer.source.columns \ {GeometryColumn(layer.source), "bbox"} :
        layer.columns # None => c \in layer.columns}

\* build_layer_query: a tagged feature for each row with a geometry.
Features(layer) ==
    {[id |-> r.id, layer |-> layer.name, zooms |-> CoerceZooms(layer.zooms),
      crs |-> IF Reprojected(layer.source) THEN "EPSG:4326" ELSE layer.source.crs,
      properties |-> Properties(layer)] : r \in {x \in layer.source.rows : x.located}}

\* build_combined_query
Combined(layers) == UNION {Features(layers[i]) : i \in DOMAIN layers}

\* Mutation of ProcessZooms: the first layer's, like the preset.
ProcessZoomsOfFirst(layers) == CoerceZooms(layers[1].zooms)

\* effective_zooms: the process tiles the union of the windows.
ProcessZooms(layers) ==
    <<Min({CoerceZooms(layers[i].zooms)[1] : i \in DOMAIN layers}),
      Max({CoerceZooms(layers[i].zooms)[2] : i \in DOMAIN layers})>>

\* tippecanoe_command: flags of the first layer's preset; a single layer is named.
Command(layers) ==
    [preset |-> layers[1].preset, zooms |-> ProcessZooms(layers),
     layer |-> IF Len(layers) = 1 THEN layers[1].name ELSE None]

\* tippecanoe: a feature is at the zooms of its tag and of the process, in the
\* layer of the command or of its tag.
Tiles(features, command) ==
    {[id |-> x[1].id, crs |-> x[1].crs, properties |-> x[1].properties, zoom |-> x[2],
      preset |-> command.preset,
      layer |-> IF command.layer # None THEN command.layer ELSE x[1].layer] :
        x \in {y \in features \X (0..MaxZoom) :
            /\ y[2] \in y[1].zooms[1]..y[1].zooms[2]
            /\ y[2] \in command.zooms[1]..command.zooms[2]}}

-----------------------------------------------------------------------------
(* A build. *)

Idle == [build |-> None, safe |-> 0, floored |-> FALSE, scratch |-> 0, need |-> 0]

Init ==
    /\ free = Disk /\ archive = [place \in {"local", "remote"} |-> None]
    /\ pc = [p \in Proc |-> "idle"] /\ call = [p \in Proc |-> Idle]

Goto(p, label) == pc' = [pc EXCEPT ![p] = label]

\* write: at least one layer, each of them valid.
Start(p) ==
    /\ pc[p] = "idle"
    /\ \E build \in Requests :
        /\ build.layers # <<>> /\ \A i \in DOMAIN build.layers : ValidLayer(build.layers[i])
        /\ call' = [call EXCEPT ![p].build = build]
    /\ Goto(p, "detect")
    /\ UNCHANGED <<free, archive>>

\* A fraction the caller gives is checked; `floored` remembers that the floor was
\* above the share.
Detect(p) ==
    LET f == Fraction(call[p].build) IN
    /\ pc[p] = "detect"
    /\ 0 <= f[1] /\ f[1] <= f[2]
    /\ call' = [call EXCEPT ![p].safe = SafeScratch(call[p].build),
                            ![p].floored = Floor * f[2] > free * f[1]]
    /\ Goto(p, "measure")
    /\ UNCHANGED <<free, archive>>

\* The sum of the values of a function, as the number of its units.
Pairs(f) == UNION {{x} \X (1..f[x]) : x \in DOMAIN f}
Total(f) == Cardinality(Pairs(f))

\* measure_source, summed over the layers.
Measured(build) ==
    [bytes |-> Total([i \in DOMAIN build.layers |-> build.layers[i].source.bytes]),
     rows |-> Total([i \in DOMAIN build.layers |-> Cardinality(build.layers[i].source.rows)])]

\* Mutation of Admitted: the bytes of the input are compared.
AdmittedByInput(build, safe) ==
    Measured(build).rows > 0 /\ Measured(build).bytes <= safe

\* Something to tile, and the estimate within the budget.
Admitted(build, safe) ==
    /\ Measured(build).rows > 0
    /\ Measured(build).bytes * Factor(build) <= safe

\* The sources are measured and the query is built; the pass will need what the
\* estimate says.
Measure(p) ==
    LET build == call[p].build IN
    /\ pc[p] = "measure"
    /\ Admitted(build, call[p].safe)
    /\ \A i \in DOMAIN build.layers : GeometryColumn(build.layers[i].source) # None
    /\ call' = [call EXCEPT ![p].need = Measured(build).bytes * Factor(build)]
    /\ Goto(p, "tile")
    /\ UNCHANGED <<free, archive>>

\* The pass takes disk.
Grow(p) ==
    /\ pc[p] = "tile" /\ call[p].scratch < call[p].need /\ free > 0
    /\ free' = free - 1 /\ call' = [call EXCEPT ![p].scratch = @ + 1]
    /\ UNCHANGED <<archive, pc>>

\* A pass that is fed no feature fails.
Tiled(p) ==
    /\ pc[p] = "tile" /\ call[p].scratch = call[p].need
    /\ Combined(call[p].build.layers) # {}
    /\ Goto(p, "publish")
    /\ UNCHANGED <<free, archive, call>>

\* _publish: a rename, or an upload that may break off.
Publish(p) ==
    LET build == call[p].build
        whole == [build |-> build, tiles |-> Tiles(Combined(build.layers), Command(build.layers))]
    IN
    /\ pc[p] = "publish"
    /\ \E content \in {whole} \cup (IF build.to = "remote" THEN {Torn} ELSE {}) :
        archive' = [archive EXCEPT ![build.to] = content]
    /\ Goto(p, "done")
    /\ UNCHANGED <<free, call>>

\* The end of a build, after its last step or an exception of any of them (a budget
\* that is exceeded, no features, a full disk, a process that dies): the scratch
\* directory is removed, and unnamed files go with their process.
Close(p) ==
    /\ pc[p] # "idle"
    /\ free' = free + call[p].scratch
    /\ Goto(p, "idle") /\ call' = [call EXCEPT ![p] = Idle]
    /\ UNCHANGED archive

Next ==
    \E p \in Proc :
        \/ Start(p) \/ Detect(p) \/ Measure(p) \/ Grow(p) \/ Tiled(p) \/ Publish(p) \/ Close(p)

Spec == Init /\ [][Next]_vars

-----------------------------------------------------------------------------
(* Properties. *)

\* What a layer asks for: each of its located rows under its name at each zoom of
\* its window, in longitudes and latitudes as far as the system is known, with no
\* column it does not list.
Promised(layers) ==
    UNION {{[layer |-> l.name, id |-> r.id, zoom |-> z] :
                r \in {x \in l.source.rows : x.located},
                z \in {y \in 0..MaxZoom : \E low, high \in Range(l.zooms) : low <= y /\ y <= high}} :
            l \in Range(layers)}

\* Whatever layers share an archive, it holds what each of them asks for.
ArchiveIsOfItsLayers ==
    \A place \in DOMAIN archive : archive[place] \notin {None, Torn} =>
        LET tiles == archive[place].tiles
            layers == archive[place].build.layers
        IN  /\ {[layer |-> t.layer, id |-> t.id, zoom |-> t.zoom] : t \in tiles} = Promised(layers)
            /\ \A t \in tiles :
                /\ t.crs \in {None, "EPSG:4326"}
                /\ \E i \in DOMAIN layers :
                    /\ layers[i].name = t.layer
                    /\ layers[i].columns # None => t.properties \subseteq layers[i].columns
                    /\ "bbox" \notin t.properties

\* The units of the disk that are the share of a build.
Share(p) == LET f == Fraction(call[p].build) IN (Disk * f[1]) \div f[2]

Live == {p \in Proc : pc[p] \in {"tile", "publish", "done"}}

\* Builds whose shares of the disk add up to no more than the disk do not fill it,
\* in whatever order they look at it and grow (where the floor was not needed).
SharesAddUp ==
    Total([p \in Live |-> Share(p)]) <= Disk /\ (\A p \in Live : ~call[p].floored) =>
        \A p \in Live : call[p].scratch < call[p].need => free > 0

-----------------------------------------------------------------------------
(* The inductive invariant. *)

CallOK(p) ==
    LET c == call[p]
        f == Fraction(c.build)
    IN
    /\ DOMAIN c = {"build", "safe", "floored", "scratch", "need"}
    /\ c.scratch \in Nat
    /\ pc[p] \in {"idle", "detect", "measure", "tile", "publish", "done"}
    /\ pc[p] \in {"idle", "detect", "measure"} => c.scratch = 0
    /\ pc[p] # "idle" =>
        /\ c.build \in Requests /\ c.build.layers # <<>>
        /\ \A i \in DOMAIN c.build.layers : ValidLayer(c.build.layers[i])
    /\ pc[p] \in {"measure", "tile", "publish", "done"} =>
        /\ 0 <= f[1] /\ f[1] <= f[2]
        /\ c.safe \in Int /\ (~c.floored => c.safe <= Share(p))
    /\ p \in Live =>
        /\ c.need \in Int /\ c.need <= c.safe
        /\ c.scratch > 0 => c.scratch <= c.need

\* What the archive at a place is made of.
ArchiveOK(place) ==
    archive[place] \notin {None, Torn} =>
        LET build == archive[place].build IN
        /\ build \in Requests /\ build.layers # <<>>
        /\ \A i \in DOMAIN build.layers : ValidLayer(build.layers[i])
        /\ archive[place].tiles = Tiles(Combined(build.layers), Command(build.layers))

IInv ==
    /\ DOMAIN pc = Proc /\ DOMAIN archive = {"local", "remote"}
    /\ DOMAIN call = Proc
    /\ free \in Nat /\ free + Total([p \in Proc |-> call[p].scratch]) = Disk
    /\ \A p \in Proc : CallOK(p)
    /\ \A place \in DOMAIN archive : ArchiveOK(place)
=============================================================================
