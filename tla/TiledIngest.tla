----------------------------- MODULE TiledIngest -----------------------------
(***************************************************************************)
(* An area of interest is canonicalised tile by tile, in a pool of workers *)
(* or one after the other (workflows/tiling.py).  A tile reads the pixels  *)
(* it touches (connectors/duckdb/zarr.py), fits each of them and records   *)
(* what became of it in the policy's diagnostics sidecar                   *)
(* (connectors/adapters.py), keeps the pixels it owns and publishes them   *)
(* as its shard.  Pixel i covers 2i .. 2i + 2 of an axis.                  *)
(***************************************************************************)
EXTENDS Integers, FiniteSets, Sequences, FiniteSetsExt

CONSTANTS
    Width, Height,  \* of the raster, in pixels
    Areas,          \* areas of interest: <<min x, min y, max x, max y>>
    Sizes,          \* tile_degrees
    Rasters         \* what a raster may hold: a kind for each pixel

\* run_tiled_canonicalization refuses an area without an extent and a tile size
\* that is not positive.
TiledIngestAssumption ==
    /\ Width \in Nat /\ Height \in Nat
    /\ \A a \in Areas : a \in Int \X Int \X Int \X Int /\ a[1] < a[3] /\ a[2] < a[4]
    /\ Sizes \subseteq Nat \ {0}

VARIABLES
    area, size, policy, workers, raster,    \* the call
    pc,         \* of the call
    tile,       \* tile -> "todo", "open", "fitted", "done" or "failed"
    shard,      \* tile -> its shard: pixels, Old or No
    partial,    \* which tile's file <diagnostics>.partial is, or No
    sidecar,    \* which tile's file the published sidecar is, or No
    openers     \* tile -> the tiles that write to the file it created

call == <<area, size, policy, workers, raster>>
vars == <<call, pc, tile, shard, partial, sidecar, openers>>

No == 0
Old == {<<-1, -1>>}     \* the rows of a shard of an earlier run

Pixel == (0..Width - 1) \X (0..Height - 1)

-----------------------------------------------------------------------------
(* Tiles and pixels. *)

\* The tiles on an axis, and where they are cut.
Count(low, high, step) == (high - low + step - 1) \div step
Cut(low, high, step, k) == Min({low + k * step, high})

\* tile_bounds: row by row.
Columns(a, step) == Count(a[1], a[3], step)
TileCount(a, step) == Columns(a, step) * Count(a[2], a[4], step)
TileBounds(a, step) ==
    [t \in 1..TileCount(a, step) |->
        LET i == (t - 1) % Columns(a, step)
            j == (t - 1) \div Columns(a, step)
        IN  <<Cut(a[1], a[3], step, i), Cut(a[2], a[4], step, j),
              Cut(a[1], a[3], step, i + 1), Cut(a[2], a[4], step, j + 1)>>]

\* ZarrRaster._pixel_window on an axis: every pixel the bounds touch.
Indices(low, high, count) == Max({0, low \div 2})..Min({count, (high + 1) \div 2}) - 1

Window(b) == Indices(b[1], b[3], Width) \X Indices(b[2], b[4], Height)

\* Mutation of OwnsOn: the outer edges of the area are edges like the others.
OwnsOnInside(x, low, high, from, to) == x >= low /\ x < high

\* A side is open where no other tile shares it.
OwnsOn(x, low, high, from, to) == (x >= low \/ low <= from) /\ (x < high \/ high >= to)

\* _tile_owns_point, of a pixel's centre.
Owns(p, b, a) ==
    /\ OwnsOn(2 * p[1] + 1, b[1], b[3], a[1], a[3])
    /\ OwnsOn(2 * p[2] + 1, b[2], b[4], a[2], a[4])

-----------------------------------------------------------------------------
(* What becomes of a pixel. *)

\* The policies that can be made: a fallback needs samples and an audit trail.
ValidPolicy(p) == p.fallback => p.samples /\ p.diagnostics

\* Kinds: "fit"; "second", where only the fallback family fits; "bad", where
\* none does; "few" valid knots; "dropped" by the source, which tells its sink;
\* "off", where the boundary has no cells.
Outcome(kind, p) ==
    CASE kind = "dropped" -> "skipped"
      [] kind = "few" -> "skipped"
      [] kind = "off" -> "skipped"
      [] kind = "fit" -> "fitted"
      [] kind = "second" /\ p.fallback -> "fitted"
      [] OTHER -> IF p.skip THEN "skipped" ELSE "error"

Bounds(t) == TileBounds(area, size)[t]
Tiles == 1..TileCount(area, size)
Result(px) == Outcome(raster[px], policy)

Init ==
    /\ area \in Areas /\ size \in Sizes /\ raster \in Rasters /\ workers \in 1..2
    /\ policy \in {p \in [fallback : BOOLEAN, samples : {TRUE}, diagnostics : BOOLEAN, skip : BOOLEAN] :
                      ValidPolicy(p)}
    /\ pc = "start"
    /\ tile = [t \in Tiles |-> "todo"]
    \* An earlier run with another tile size left a shard more than this one has.
    /\ shard \in {[t \in 0..TileCount(area, size) + 1 |-> x] : x \in {{}, Old}}
    /\ partial = No /\ sidecar = No
    /\ openers = [t \in Tiles |-> {}]

-----------------------------------------------------------------------------
\* Mutation of Clean: only the shards of this grid are removed.
CleanOwn ==
    /\ pc = "start" /\ pc' = "run"
    /\ shard' = [t \in DOMAIN shard |-> IF t \in Tiles THEN {} ELSE shard[t]]
    /\ UNCHANGED <<call, tile, partial, sidecar, openers>>

\* Shards of an earlier run are removed first, whatever their number.
Clean ==
    /\ pc = "start" /\ pc' = "run"
    /\ shard' = [t \in DOMAIN shard |-> {}]
    /\ UNCHANGED <<call, tile, partial, sidecar, openers>>

Running == {t \in Tiles : tile[t] \in {"open", "fitted"}}

\* A free worker takes the next tile and opens the diagnostics: the partial
\* file of the policy's path is truncated, whoever else writes to it.
Open(t) ==
    /\ pc = "run" /\ tile[t] = "todo" /\ \A u \in 1..t - 1 : tile[u] # "todo"
    /\ Cardinality(Running) < workers
    /\ tile' = [tile EXCEPT ![t] = "open"]
    /\ IF policy.diagnostics
       THEN LET file == IF partial = No THEN t ELSE partial IN
            /\ partial' = file
            /\ openers' = [openers EXCEPT ![file] = @ \cup {t}]
       ELSE UNCHANGED <<partial, openers>>
    /\ UNCHANGED <<call, pc, shard, sidecar>>

\* The except clause removes the partial file if it is there.
Abort == partial' = No

\* A tile outside the raster is skipped, after its generator was aborted.
Outside(t) ==
    /\ tile[t] = "open" /\ Window(Bounds(t)) = {}
    /\ tile' = [tile EXCEPT ![t] = "done"]
    /\ IF policy.diagnostics THEN Abort ELSE UNCHANGED partial
    /\ UNCHANGED <<call, pc, shard, sidecar, openers>>

Errors(t) == \E px \in Window(Bounds(t)) : Result(px) = "error"

\* A pixel that cannot be fitted ends the tile unless the policy skips it, and
\* so does a sidecar that somebody else has moved or removed.
TileFails(t) ==
    /\ tile[t] = "open" /\ Window(Bounds(t)) # {}
    /\ Errors(t) \/ (policy.diagnostics /\ partial = No)
    /\ tile' = [tile EXCEPT ![t] = "failed"]
    /\ IF policy.diagnostics THEN Abort ELSE UNCHANGED partial
    /\ UNCHANGED <<call, pc, shard, sidecar, openers>>

\* Mutation of FitTile: the partial file is removed on success too.
FitTileAborts(t) ==
    /\ tile[t] = "open" /\ Window(Bounds(t)) # {} /\ ~Errors(t)
    /\ policy.diagnostics => partial # No
    /\ tile' = [tile EXCEPT ![t] = "fitted"] /\ Abort
    /\ UNCHANGED <<call, pc, shard, sidecar, openers>>

\* Every pixel is fitted and recorded; finish() moves the partial file into place.
FitTile(t) ==
    /\ tile[t] = "open" /\ Window(Bounds(t)) # {} /\ ~Errors(t)
    /\ tile' = [tile EXCEPT ![t] = "fitted"]
    /\ IF policy.diagnostics
       THEN /\ partial # No
            /\ sidecar' = partial /\ partial' = No
       ELSE UNCHANGED <<partial, sidecar>>
    /\ UNCHANGED <<call, pc, shard, openers>>

Fitted(t) == {px \in Window(Bounds(t)) : Result(px) = "fitted"}

\* Mutation of Kept: every tile keeps the pixels it has fitted.
KeptAll(t) == Fitted(t)

\* _drop_shared_edge_duplicates.
Kept(t) == {px \in Fitted(t) : Owns(px, Bounds(t), area)}

\* The shard is published whole, if the tile has anything of its own.
WriteShard(t) ==
    /\ tile[t] = "fitted"
    /\ \/ tile' = [tile EXCEPT ![t] = "done"] /\ shard' = [shard EXCEPT ![t] = Kept(t)]
       \/ Kept(t) # {} /\ tile' = [tile EXCEPT ![t] = "failed"] /\ UNCHANGED shard
    /\ UNCHANGED <<call, pc, partial, sidecar, openers>>

\* The first failure ends the call once the running tiles are done; the tiles
\* that wait are cancelled.
Return ==
    /\ pc = "run"
    /\ \/ \A t \in Tiles : tile[t] = "done"
       \/ Running = {} /\ \E t \in Tiles : tile[t] = "failed"
    /\ pc' = IF \A t \in Tiles : tile[t] = "done" THEN "done" ELSE "failed"
    /\ UNCHANGED <<call, tile, shard, partial, sidecar, openers>>

Next ==
    \/ Clean \/ Return
    \/ \E t \in Tiles : Open(t) \/ Outside(t) \/ TileFails(t) \/ FitTile(t) \/ WriteShard(t)

Spec == Init /\ [][Next]_vars

-----------------------------------------------------------------------------
\* The pixels an area selects: those it touches.
Selected == Window(area)

\* "attributed to exactly one shard, so a plain glob read never double-counts":
\* when the call returns, each selected pixel that was fitted is in exactly one
\* shard, at the outer edges as well, and no shard of an earlier run is left.
ShardsPartitionPixels ==
    pc = "done" =>
        /\ UNION {shard[t] : t \in DOMAIN shard} = {px \in Selected : Result(px) = "fitted"}
        /\ \A t, u \in DOMAIN shard : t # u => shard[t] \cap shard[u] = {}

\* The pixels the published sidecar has a row for: those of the one tile that
\* wrote it, or nothing that can be told if several did.
Recorded ==
    IF sidecar # No /\ Cardinality(openers[sidecar]) = 1
    THEN Window(Bounds(CHOOSE t \in openers[sidecar] : TRUE)) ELSE {}

\* "Persist one row per source pixel (fitted, or skipped with its reason) to
\* this Parquet path".
SidecarDescribesRun == pc = "done" /\ policy.diagnostics /\ Selected # {} => Recorded = Selected

\* It does where the area is a single tile.
SidecarOfOneTile == Cardinality(Tiles) = 1 => SidecarDescribesRun

-----------------------------------------------------------------------------
(* The inductive invariant. *)

\* Once the old shards are gone, a shard is what its tile keeps when it is done.
ShardsOK ==
    /\ DOMAIN shard = 0..TileCount(area, size) + 1
    /\ pc # "start" => \A t \in DOMAIN shard :
            shard[t] = IF t \in Tiles /\ tile[t] = "done" THEN Kept(t) ELSE {}

\* The diagnostics of the first tile while there is no other.
OneTileOK ==
    /\ tile[1] = "todo" => partial = No /\ openers[1] = {}
    /\ tile[1] = "open" => partial = 1 /\ openers[1] = {1}
    /\ tile[1] \in {"fitted", "done"} /\ Window(Bounds(1)) # {} => sidecar = 1 /\ openers[1] = {1}

IInv ==
    /\ area \in Areas /\ size \in Sizes
    /\ DOMAIN tile = Tiles /\ DOMAIN openers = Tiles
    /\ \A t \in Tiles : tile[t] \in {"todo", "open", "fitted", "done", "failed"}
    /\ pc \in {"start", "run", "done", "failed"}
    /\ pc = "start" => \A t \in Tiles : tile[t] = "todo"
    /\ pc = "done" => \A t \in Tiles : tile[t] = "done"
    /\ ShardsOK
    /\ Tiles = {1} /\ policy.diagnostics => OneTileOK
=============================================================================
