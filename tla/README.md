# Formal models of crc-sdk

TLA+ models of crc-sdk, with TLC runs on small instances and TLAPS proofs for all
instances. Paths below are relative to `src/crc_sdk/` unless they start with
`docs/` or `tests/`.

## 1. Inventory

crc-sdk is a library. A *plan* (ERA5, CMIP6, stations, NOAA, USGS, JRC, a user's
own data, ...) is an immutable description; `prefetch`, `materialize` and
`ensure_materialized` execute it. The state that outlives a call is on disk: cache
directories with a `manifest.json`, cached objects named by a hash of their
identity, and canonical Parquet outputs. Nothing coordinates two processes on one
cache directory except an optional file lock and the atomicity of `rename`.

| Component | State it keeps | Hard behaviour | What makes it correct | Module |
| --- | --- | --- | --- | --- |
| `workflows/_remote.py` (shared manifest) | `manifest.json`, lock, staging files | interleaved read-modify-writes, holders that die, filesystems without locks | each update lands once and keeps the others' records; the file is never torn; no mixture of records passes for a plan's | `ManifestData`, `ManifestStore`, `SharedManifest` |
| `workflows/era5.py`, `providers/_annual_extremes.py` | a NetCDF file per year, entries | a year fails, a crash between rename, checksum and merge, two writers of one year | what verifies is whole; a success can be rerun offline | `YearCache` |
| `workflows/stations.py` | a Parquet file per station-year, entries, the station catalogue | failure of one job, remote files that change, a catalogue replaced in two steps | the window is bounded, partial successes are recorded, a selection is of the catalogue it names | `StationCache`, `StationCatalogue` |
| `workflows/cmip6.py`, `_plans.py`, `providers/cmip6.py` | entries of several datasets, fitted outputs | requests of different versions on one cache; warm paths that skip the store | a result comes from one dataset; a strict licence is enforced on every path | `DatasetYears` |
| `workflows/noaa_water_levels.py` | snapshot directories and a pointer | refresh crashes, readers and other refreshers | the pointer names a complete snapshot | `SnapshotPointer` |
| `_noaa.py`, `usgs.py`, `chirps.py`, `ibtracs.py`, `_geomet.py`, `eccc_daily.py`, `hydat.py`, `noaa_sea_level.py` | one file and its manifest | a crash between two renames, concurrent refreshes, shifting pages | what is served is verified; a pinned checksum is honoured; accepted pages are one moment | `SnapshotCache`, `Pagination` |
| `workflows/crc_open.py`, `providers/crc_open.py` | pinned catalogue, partitions, receipts | unlocked manifest updates, a receipt written after its file, pruned partitions | a pin never moves; pruning never changes rows | `CRCOpenCache`, `CRCSelection` |
| `workflows/eccc_idf.py` | station files, entries | unlocked write of entries read before a download | a province called complete is; a recorded station never changes | `IDFCache` |
| `workflows/jrc.py`, `edo.py` | crops, plan records | fixed staging names, plans that share files | a call alone can be repeated offline from what its record names | `CropCache` |
| `workflows/byo.py` | outputs named by a fingerprint | a source that changes while it is read | an output is never handed to another plan or another state of the data | `BYOCache` |
| `connectors/parquet.py`, `fitting/workflows.py` | staged and published outputs, a diagnostics sidecar, two threads that run ahead | a source, fit, row or writer fails while the next batch is under way | an output is whole and canonical or not there | `FitStream`, `CurveFit` |
| `workflows/tiling.py`, `connectors/adapters.py` | shards, one sidecar path | tiles in a pool, windows that two tiles share | each selected pixel in one shard | `TiledIngest`, `CurvePolicy` |
| `geometry/coverage.py`, `geometry/admin.py` | temporary relations, three files | cells on borders, children outside their parents, writers that fail | each overlap once with its share | `Coverage` |
| `geometry/pmtiles/` | a child process, two pipes, threads, scratch disk | a child that stalls or dies; layers that share a process; builds that share a disk | no orphan, no incomplete archive, each layer's tiles | `TippecanoeProcess`, `PMTilesBuild` |
| `connectors/blocks.py` | none | seasons across years, time zones, gaps, windows over the date line | blocks partition time; a gap never makes an extreme more severe | `BlockReduction` |
| `connectors/duckdb/*`, `geometry/h3.py` | connections | windows and strips at edges, container limits, extensions that do not load | each pixel read once with its own value; limits are kept | `RasterScan`, `RuntimeLimits` |
| `workflows/distributions.py` | a memo, a pool of processes | batches, chunks and workers | rows do not depend on how they are batched | `CurveEvaluation` |
| `workflows/_portfolio.py`, `portfolio.py` | none | missing and ambiguous matches, column names that collide | each asset has its curves, once, or is reported | `PortfolioJoin` |

Interaction: every annual plan (ERA5, CMIP6, stations) runs its fetches in a
thread pool and then makes one `merge_manifest_entries`; JRC and EDO make one
`write_plan_manifest`. `SharedManifest` shows that such an update is one atomic
step, and the cache modules use it as one. `FitStream` is the path by which every
plan turns its rows into an output; `CurveFit` and `CurvePolicy` say what it makes
of a row, `TiledIngest` runs it once per tile.

## 2. Modules

There are machines and pure modules. A machine has variables, an action per step
of a call, and its own specification. A pure module holds the decisions of
code without state as operators, next to the reference definitions its properties
compare them with.

`MC*` modules instantiate them for TLC:

| Module | Composes |
| --- | --- |
| `MCSharedManifest`, `MCDatasetYears` | one machine each |
| `MCCallsEnd` | `TippecanoeProcess`, `YearCache`, `StationCache`, `Pagination`, `SnapshotCache`: one call at a time, with fairness |
| `MCSharedCaches` | `SnapshotPointer`, `YearCache`, `StationCache`, `SnapshotCache`, `StationCatalogue`: two processes |
| `MCPinnedCaches` | `IDFCache`, `CRCOpenCache`, `SharedManifest` without locks: two processes |
| `MCPlanOutputs` | `Coverage`, `FitStream`, `TiledIngest`, `CropCache`, `BYOCache`, `PMTilesBuild` |
| `MCAlgorithms` | the eight pure modules |
| `MCYearCache`, `MCSnapshotPointer`, `MCTippecanoeProcess`, `MCTiledIngest` | the machine of a run that finds a violation |

`*_proofs` modules hold the theorems:

| Module | Proves |
| --- | --- |
| `SharedManifest_proofs` | the machine, as the runs check it |
| `Requests_proofs` | `DatasetYears`, and parts of the pure modules `CRCSelection`, `RuntimeLimits`, `CurvePolicy`, `PortfolioJoin`, `RasterScan`, `BlockReduction`, `CurveFit`, `CurveEvaluation` |
| `YearCache_proofs`, `StationCache_proofs` | one machine each, for the sums to cite |
| `SharedCaches_proofs` | `SnapshotPointer`, `StationCatalogue`, `SnapshotCache`, and what `MCSharedCaches` checks |
| `CallsEnd_proofs` | `TippecanoeProcess`, `Pagination`, and the safety that `MCCallsEnd` checks |
| `PinnedCaches_proofs` | `IDFCache`, `CRCOpenCache`, and what `MCPinnedCaches` checks |
| `PlanOutputs_proofs` | `Coverage`, `FitStream`, `TiledIngest`, `CropCache`, `BYOCache`, `PMTilesBuild`, and what `MCPlanOutputs` checks |

The sums leave the constants of the machines they add up to the `.cfg`, so that a
theorem about a machine holds of the sum for every value of the constants. The proof
modules of the sums instantiate those of their machines; a machine that has no proof
module of its own is proved about in that of its sum, under the name of its instance
there (`O!` for `SnapshotCache`; `F!`, `T!`, `J!`, `B!`, `A!` for the machines of
`MCPlanOutputs`, which extends `Coverage`).

A sum like `MCSharedCaches` is not a product: its machines share nothing in the
code (different directories), so a behaviour chooses one of them by `topic` and
the others stay in one initial state. Every property then holds of the sum exactly
if it holds of each part. `MCAlgorithms` picks a topic and then an input of it, so
that each input is a state.

A definition whose comment starts with "Mutation of" is the operator next to it
with a plausible bug; no specification uses it. Each property is violated when
such an operator takes the place of the original, which shows that the property
depends on the code it is about.

### How the state corresponds to the code

* **SharedManifest.** `manifest` is the file, `lock` the `flock`, `staging` the
  uuid-named temporary files, `snap` and `update` the local variables of the
  call. `Leave` is both `finally` blocks. `LocksSupported = FALSE` is the degraded
  mode of `_lock_file`. A missing file and `{}` are the same. `ManifestData` has the
  manifest as `map`, the records under `entries` and `plans`, and `top`, the fields
  beside them. Both updates lay fields over `top` one by one (`Overlay`:
  `{**manifest, **record}`, `{**manifest, **fields}`), so it may hold JRC's
  `source_periods` beside EDO's dataset or the station plans' `provider` beside JRC's
  periods, and be no plan's record. A plan's record is known by the fields that state
  its request (`Stated`) and the results (`Found`); `Recognised` is `_manifest_matches`
  on the top level. The directory may start out with an earlier release's single-plan file.
* **YearCache.** Contents of a file are the release it was cut from, or `Torn`;
  a checksum is the contents it was taken of. The staging file has one name for
  all writers, as in the code (`target.with_suffix(".tmp.nc")`); handles follow
  the inode through renames, and a file two writers had open may hold anything.
  `pool.map` hands years out in order, cancels on the first error in order, and
  leaving the pool joins the threads.
* **StationCache, StationCatalogue.** `job` is the state of each future; `Reap` is
  one turn of the `while pending` loop. The catalogue file and its entry are
  replaced by separate steps, and the file is opened again after its checksum.
* **DatasetYears.** Only identities matter, so entries are (dataset, year) pairs
  and files always verify (files that do not are in `YearCache`). The catalogue is
  read once per cache directory (`providers/cmip6.py:426`), also by calls that
  refresh, so the set of datasets that can be resolved is constant.
* **SnapshotPointer.** `files[d]` are the responses in a directory. `rmtree`
  removes one at a time and may fail anywhere. `Root` is the older layout.
* **SnapshotCache, Pagination.** A directory is a pair of file and manifest. The
  eight plans differ in what they verify, when they pin and how many directories
  they have: `plan` chooses one. The service of a paged download may change its
  collection between pages; `moments` is the history of what it was.
* **CRCOpenCache, IDFCache.** Everything on disk is replaced by separate steps,
  the manifest included, without a lock. `raced` remembers that two first calls
  overlapped.
* **CropCache.** A crop is the revision it was cut from and the tiles in it;
  a plan's record names its files. `Outside` are tiles that do not exist, `Late`
  the years that end on another dekad.
* **BYOCache.** A source is a version; a read has two halves, so that it can be
  changed in between. Sources only go forward: a state that was left does not come
  back under the same fingerprint.
* **FitStream.** `read` and `fit` are the two prefetching threads' slots; without
  prefetching the same steps run when the next batch is asked for.
* **TiledIngest.** Pixel *i* covers 2*i* to 2*i* + 2, so that areas can cut pixels
  in half. `openers` are the tiles that have the sidecar's partial file open.
* **Coverage.** A shape is the set of units of area it covers, so areas are
  cardinalities and intersections exact.
* **TippecanoeProcess.** `stdin` and `stderr` are pipes with a capacity, `tail` is
  the end of a batch that stays in Python's write buffer, `quiet` is
  `_Activity.quiet_for()` in ticks. tippecanoe itself is external.
* **PMTilesBuild.** Disk is counted in units; a pass takes exactly what the
  estimate says, since no code corrects the estimate. tippecanoe's unnamed
  temporary files go with its process, so `Close` always gives the disk back.
* **Pure modules.** Integers stand for values, hours and coordinates; a fraction
  is a pair. What a floating-point estimator computes is an input of the operator
  (`CurveFit`: the families that pass; `CurvePolicy`: the outcome of each fit), so
  that every outcome is tried.

## 3. Runs

| Run | Shows | Result |
| --- | --- | --- |
| `manifest_locked` | `ImplementsStore`: the locked manifest is an atomic store; `MirrorIsCurrent`: its top level never passes for a record it is not; `WaiterGetsThrough` | holds |
| `cmip6_datasets` | one dataset, strict licences, no needless mixing | holds |
| `calls_end` | for each machine with threads, pools or pages: what a call that succeeds or fails may leave, and that it ends | holds |
| `shared_caches` | what two crashing processes may leave in one directory | holds |
| `pinned_caches` | pins, completeness and outputs of the caches that take no lock; the shared manifest without locks | holds |
| `plan_outputs` | coverage, fits, tiles, crops, own data, archives: nothing lost, doubled or confused | holds |
| `algorithms` | the pure modules against their reference definitions | holds |
| `year_cache_stale_merge` | stale entries are written back | **violated** |
| `snapshot_two_writers` | two refreshers leave a dangling pointer | **violated** |
| `tippecanoe_stall` | a stall during `write` is not detected | **violated** |
| `tiles_sidecar` | tiles overwrite each other's diagnostics | **violated** |
| `netcdf_cells` | a grid across the equator is sampled too coarsely | **violated** |

### The properties

* `calls_end`: `NoOrphan`, `DoneIsComplete` (a tiling pass), `YearsAreWhole` (what
  verifies is whole, a result is complete and of one release, no thread outlives
  its call), `StationCallsAreAccounted`, `NothingStartsAfterFailure`,
  `PagesAreAMoment` (accepted pages are the collection at one moment of the
  download if it only grew or only shrank), `CallsEnd`.
* `shared_caches`: `PointerIsWhole`, `FilledStaysUsable`, `YearsAreReproducible`
  and `SnapshotsAreHonest` (a call that succeeds with the directory to itself can
  be repeated offline, whatever calls before it left), `StationEntriesAreHonest`,
  `SelectionsAreOfTheirCatalogue`.
* `manifest_locked`: `ReadStaysCurrent`, `ImplementsStore`, `WaiterGetsThrough`, and
  `MirrorIsCurrent`: once a plan is stored, whoever accepts the top level
  (an earlier release, or a plan without a record of its own, for which
  `read_plan_manifest` returns the whole file) is a stored plan, and the results it
  takes from there are its current ones. The mixtures are harmless because two plans
  always differ in a field that both of their readers compare: a plan's key is a digest of them.
* `pinned_caches`: `StationsAreWhole`, `ReleasesAreKept`, `NoPinMoves`,
  `ManifestIsConsistent`. Lost entries are allowed, since the code takes no lock;
  what is left must be true.
* `plan_outputs`: `CoverageIsHonest`, `FitsAreWhole`, `TilesPartitionPixels`,
  `CropsAreHonest`, `OutputsAreOfTheirPlan`, `ArchivesAreHonest` (an archive holds
  what each of its layers asks for; builds whose shares of the disk add up to at
  most the disk do not fill it, in whatever order they look and grow).
* `algorithms`: `SelectionIsInvisible` (pruning partitions and narrowing to a
  portfolio never change the rows), `BlocksAreHonest`, `WindowsCoverTheirBounds`,
  `CurvesAreFaithful`, `PoliciesAreMet` (a policy that can be constructed can be
  met, and what it publishes passes its gates), `RastersAreRead`,
  `CurvesAreEvaluated`, `PortfoliosAreJoined`, `LimitsAreKept`.

### What the violated runs show

1. `era5.py:348` writes the entries it read before the fetch back after it. A
   second process that refreshed one of these years meanwhile loses its entry;
   the old one fails its checksum and the year is fetched again. `cmip6.py:423`
   has the same shape; `stations.py:463` merges only what it fetched.
2. `noaa_water_levels.py:208` sweeps a snapshot another refresh has renamed and
   not yet pointed to. Afterwards only a further refresh repairs the cache.
3. `_process.py:157`: the watchdog runs only in `finish()`. A child that stalls
   while `write()` is blocked, or while `close()` flushes, is never given up.
4. `tiling.py:179` hands every tile the policy's own diagnostics path. The sidecar
   that is left is of one tile; pooled tiles also truncate, move or remove each
   other's partial file. `plan_outputs` shows that a run of one tile is right.
5. `netcdf.py:269` takes the smaller of the absolute end latitudes as the one
   nearest to the equator, which it is not when the grid straddles it. Rows at the
   equator are wider than the size that is computed, and cells fall between the
   samples. `algorithms` shows that the GeoTIFF form of the computation is right.

### What the passing runs leave out on purpose

* `VerifiedIsWhole` of `YearCache` is checked for one process.
  `_annual_extremes.py:59` names the staging file after its target, so two
  processes that fetch one year truncate and rename each other's file, and an
  entry can verify and name a torn file. `shared_caches` explores these states and
  shows that a later call that succeeds alone is consistent with what it recorded.
* `ResolvedCallIsUniform` speaks of calls that resolve their dataset. When every
  year is cached (`cmip6.py:336`) the filter of line 373 is not applied, and one
  year cached in another dataset makes reuse and offline calls fail with
  "cached years span several datasets"; the model reaches that state.
* `PointerIsWhole` is checked with one writer. A sweep may still remove the
  snapshot a reader found just before; the call fails, and can be repeated.
* `CRCOpenCache` exempts the states after two first calls overlapped (`raced`): of
  two calls that find no manifest each records its own pin. `CropCache` exempts
  files two calls cropped at once into their common staging name.
* `CoverageIsExact` assumes `Nested` for the hierarchical mode (always true without
  it). The code gives every child of a parent inside a polygon the share 1
  (`coverage.py:683`), and H3 children reach a little out of their parents; the
  model has such a parent, and the other conditions are checked with it too.
* A gap in a record makes a day count lower (`GapsAreBounded` in `BlockReduction`: by
  no more than the days that may be missing). For `count_below`, whose severe tail is
  the low one (`blocks.py:364`), a block with gaps therefore looks more severe than
  the same block without; with `min_valid_fraction` 0, which `blocks.py:26` allows
  as "at least one", without a limit but the length of the block.
  Extremes are never exaggerated.
* The builds of `PMTilesBuild` use the lossless preset. The flags of the other presets
  that let tippecanoe drop features to keep tiles small (`presets.py:101-135, 210-229`,
  passed on at `_build.py:139-149`) are left out: what such an archive lacks is not judged.
* The curves of `PortfoliosAreJoined` have distinct sources, so ties on the source are
  not tried; the cgroup limits of `LimitsAreKept` are those of the group that the code
  picks, not lower ones of the groups above it.
* `SharesAddUp` of `PMTilesBuild` exempts builds for which the floor of
  `_MIN_SAFE_SCRATCH_BYTES` was above their share: the floor is a promise to small
  disks and not a share, and several builds admitted by it can fill the disk.

### Bounds, and why they are enough

* Two processes: every property relates a process to the rest of the world, and
  the interference of several others on one file is a sequence of what one
  other can do. Proved properties need no bound.
* `manifest_locked`: one entry key, and three plans: two areas of one JRC dataset, which
  differ in a compared field only, and one of EDO's, which has fields that JRC's lack,
  so that every kind of mixture arises; two values distinguish old from new.
  Without locks (`pinned_caches`) one plan of each, since an update may then be lost.
* `calls_end`: two years and one worker make one fail while another waits; three
  jobs and two workers are a full window with one job left; pages of two with up
  to two full pages and two changes; three batches, pipes of two, a timeout of
  three ticks.
* `shared_caches`: one year (the file that is shared), two jobs, two versions of
  each remote object, two selected years; three snapshots, so that two refreshes
  and a crash fit; a station that moves between two versions of a catalogue.
* `pinned_caches`: two stations (one named, both in an area), one partition, two
  published versions.
* `cmip6_datasets`: two versions, two grids, two years, several requests, so that
  caches of every mixture arise from calls.
* `plan_outputs`: three cells of two parents, one reaching out of its parent; up to
  three batches of up to two rows with every outcome of a row; 3 x 2 pixels with
  areas that are the raster, cut it, lie outside on each side or inside a pixel;
  two flood plans that share crops and one drought; four units of disk, two builds.
* `algorithms`: the inputs are listed in `MCAlgorithms`, chosen around the edges
  each operator distinguishes (seasons of every length and start, bounds on and
  next to pixel edges and on the date line, missing values, malformed files).

Symmetry over processes is used only in `cmip6_datasets`, which checks safety.
Deadlock is not checked where calls or builds end for good.

### Fairness

* `SharedManifest`: work inside the lock is local and ends (weak fairness of
  `Step`). `flock` queues its waiters, so a caller that finds the lock free
  again and again gets it (strong fairness of `Acquire`). Nothing obliges a
  process to start, fail or die.
* `YearCache`, `StationCache`, `SnapshotCache`, `Pagination`: the main thread and
  the worker threads are scheduled, and remote reads end with data or an error (the
  code sets timeouts). Merging is one step because of `SharedManifest`. A service
  may change its collection, but nothing obliges it to.
* `TippecanoeProcess`: the build loop, the draining thread and the clock go on;
  a child that has not stalled reads and exits at the end of its input. Nothing
  obliges it to stall, log or die. `CallsEnd` speaks of builds whose child does not
  stall, and of stalls after stdin was closed, which the watchdog must end; a stall
  before that is finding 3.

## 4. Proofs

Each proof has the same shape: an inductive invariant `IInv`, stated in the module
of the machine and checked by TLC before it was proved; `Init => IInv`; one lemma
per action, or per group of actions with the same effect, for `IInv /\ [Next]_vars
=> IInv'`; and the property from `IInv`. The assumptions are those that the
modules name (`*Assumption`): constants are numbers, sets are not empty, placeholders
are not values. TLC evaluates them on every run.

`SharedManifest_proofs`, for any processes, keys, plans, fields and records:

* `Invariance`: `Spec => []IInv`. `IInv` adds to the types that the lock is held
  by exactly the process inside it, that what a holder read is still the file,
  that a staged file is the update applied to what was read, and that every
  manifest read or stored that has plans shows one of them whole in the fields its
  reader looks at (`Mirrored`). Without the third part the
  replace step could store anything; without the last, it is not
  preserved when locks are missing, since a stale read is written back.
* `MirrorStaysCurrent` needs `OnlyItsOwnPlan`: a top level that shows one plan whole is
  recognised by no other. It rests on two assumptions of `ManifestData`: two plans
  differ in a compared field that both state (`plan_manifest_key` is a digest of
  exactly the fields `_manifest_matches` compares), and the fields given to
  `merge_manifest_entries` are neither compared nor results (`stations.py:463` gives
  the provider, the others give none).
* `NoUpdateInBetween`, `ManifestStaysConsistent`, `MirrorStaysCurrent`,
  `TypeCorrect` follow, the middle two with and without locks.
* `Refinement`: with locks, `Spec` implements `ManifestStore!Spec`. `Replace`
  is the commit; leaving before it is an abandoned request; everything else
  stutters.

`Requests_proofs`, about `DatasetYears`, for any processes, years, grids, versions and requests:

* `ResultsAreOfOneDataset`, `StrictLicenceHolds`, `ResolvedCallsAreUniform`.
  The invariant adds what the conclusions rest on: what a call found is recorded
  and matches its request (else a call served from the cache could serve another
  request's dataset), a call that resolved keeps only years of the resolved
  dataset (else the fetch could complete a mixture), and outputs match their
  requests (else one could be handed back for another).

`YearCache_proofs`, for any processes, years, releases and threads, with or without
crashes:

* `AloneIsReproducible`: a call that succeeds with the directory to itself leaves
  every year it selected cached and verifying, whatever was there. Files are shared
  and may be torn, so the invariant is about the call that is alone:
  `AloneFindsEntries` (what it verified is still recorded), `AloneFetchesWhole` (its
  threads truncate and rename nobody else's file; what they put in place is whole
  and of the version they note), `RenamedIsThere` and `MissingIsFetched` (from a
  thread that returned to a file, and from a missing year to a thread).
* `ResultsAreComplete`: for any number of processes, a result has every year that was
  asked for, and no thread outlives its call.
* `YearsStayWhole`: in a directory of its own, what verifies is whole. The
  hypothesis that there is one process is needed: two that fetch one year
  truncate and rename each other's staging file (section 3).

`StationCache_proofs`, for any processes, jobs, versions and workers:

* `EntriesStayHonest`: `EntriesAreOfOneDownload` is what makes an entry either
  true or one that fails its checksum when others replace the file.
* `FailureStopsTheCall`, an action property; `NoJobIsForgotten`:
  the window of submitted jobs and the account of every job, from `ThreadsAreWaitedFor`
  and `JobsAreKnown`.
* `PartialSuccessPersists`: in a directory of its own a call that fails has recorded
  what it fetched (`FetchedIsKept`: nobody replaces a file before it is recorded).

`PinnedCaches_proofs`, for any processes, stations, partitions and versions, whatever
overlaps and is lost:

* `StationsStayWhole` and `PinnedBytesAreKept` (`IDFCache`): completeness rests only on
  what a call itself verified and fetched, so it survives lost manifest updates; that
  the pinned bytes are used needs a call alone (`AloneKeepsPins`: the entries it will
  write back agree with those that are recorded).
* `ReleasesStayKept` and `PinOfAReleaseIsKept` (`CRCOpenCache`): `FirstCallIsOne` and
  `CallsAreOfThePin` say that, until two first calls overlap, one call decides the
  pin and each later one is of it, also one that read the manifest before another
  update of it.
* `PinnedCachesAreSound`: `NoPinMoves` of the sum. `ManifestWithoutLocks`:
  `SharedManifest` in the sum, with `LocksSupported = FALSE`.

`SharedCaches_proofs`:

* `PointerStaysWhole` and `FilledCacheStaysUsable`, for any readers, resources and
  snapshots, from `OneWriter` (all processes but one only use offline mode). The
  invariant adds that a process that writes was allowed to, that a renamed
  directory is complete, that the lister has just pointed to its directory, and
  that a sweep never includes the pointer. `OneAtATime` turns `OneWriter` into the
  absence of a second writer between rename and pointer, which is what
  `snapshot_two_writers` violates.
* `SharedSelectionsAreOfTheirCatalogue`, for any processes, catalogues, areas and
  ranges of years. `SelectedIsRight` is about data: the two comparisons of
  `_station_selection` select exactly the records with a year of the range. It needs
  that a record does not end before it starts and that a range is not empty;
  `years()` checks the second, the first is a property of NOAA's catalogues
  that the code does not check (such a record would be selected for ranges that hold
  both of its ends). The rest of the invariant follows a call alone from the entry
  it saw to the file it opens, and bounds what a refresh can have fetched.
* `SharedSnapshotsAreHonest`, for any processes, requests, versions and years, and
  each of the eight plans. What is retained is whole for every interleaving. That a
  call reads what it verified and can be repeated is true of calls that are alone:
  the invariant follows such a call from the pair it finds (`AloneFindsThePair`),
  over directories it has prepared (`AlonePrepares`), to those it reads again
  (`AloneReads`).
* `SumIsOfComponents`: a behaviour of the sum is one of every component, since
  the others stutter. `SharedYearsAreReproducible` and `SharedEntriesStayHonest`
  are then the components' theorems, for the properties of the run.

`CallsEnd_proofs`:

* `NoProcessLeft`, `SuccessIsComplete`, for any number of batches, capacities and
  timeout. The invariant says when stdin is closed and flushed, and that only a
  process that read all of its input exits with 0: a process that dies during the
  last flush leaves a code that is not 0, which is why swallowing the broken pipe
  in `finish()` is harmless.
* `AcceptedPagesAreAMoment`, for pages of any size, any ids and any changes of the
  collection. `TotalsMoveOneWay`: a collection that only grows or only shrinks does
  not come back to a total it had, so that one that still has it has not changed since
  the first page. Hence `StagedIsAPrefix`: what was staged is how the collection
  begins, and all of it at the end, whatever links the service gave. `NothingIsPassed` is the
  part for services without totals: additions only move features to later pages.
* `YearCallsAreWhole`, `StationCallsStayAccounted`, `FailuresStopCalls`: the
  components' theorems, for the properties of the run.

`PlanOutputs_proofs`:

* `OutputsStayOfTheirPlan` (`BYOCache`), for any processes, policies and number of
  changes of the source. `OutputIsOfItsName` and `NameIsNotOlder` carry the argument: a
  name that holds a stamp is of no later version than the bytes that are filed under
  it, so a call that computes a name now and finds a file of it gets bytes from its
  start or later; if the source is left alone, that start is also the end. It holds
  for tables in memory because `Held` is what was hashed. `PathsKeepPeriods` is about
  data: sorting the periods of the GeoTIFFs the model names loses no path.
* `CropsStayHonest` (`CropCache`), for any processes, sets of requests, tiles, years
  and releases. A plan has at least one part (`_periods` asks for four return periods,
  a drought has its minimum): without a part a flood would cover no tile.
  `CropsAreApart` and `CropIsWhole` say that a damaged crop needs two calls
  at one raster; `CallIsSound` that what a call has and still has to do make up its
  plan at every step, also after a raster that does not meet the area has been
  dropped; `AloneIsUndisturbed` that the files a call alone is done with stay what
  its checksums say. A record that another call wrote enters only through
  `RecordIsSound`, which no loss of a file disturbs.
* `CoverageStaysHonest` (`Coverage`), for any finite sets of cells, polygons and units,
  any countries and any batch size. `FilesOK` says what each of the three files holds
  from the step that wrote it on, and that the edge cells found so far are those up to
  the last cell of a batch (`last`), which is why a batch that begins after it misses
  none. A step that fails anywhere leaves relations; `NoCollision` holds since each is
  dropped before it is made, by name, whatever is left. What remains is about data:
  the three files take each overlap exactly once (`MergedIsExact`), and a cell whose
  rows share no unit and make up the whole lies in what they say
  (`UnitsOfPlaces`, `RowsOfACell`), so that the interior flags of the nested lookup
  are those of the rows. This needs that polygons do not overlap, which is what
  administrative boundaries promise and the code does not check.
* `TilesStayPartitioned` (`TiledIngest`), for any raster, areas, tile sizes, workers and
  failures. `OneTileOwns`: each point of an area is owned by one tile, since the
  half-open tiles partition it (`CountReaches`: the last cut is the end of the area;
  `CutsAscend`) and the last row and column are closed. `PlaceOfTile` is the arithmetic
  of the grid: the number of a tile is its column and row. `ShardsOK` says that, once
  the old shards are removed, a shard is what its tile keeps when that tile is done,
  so that a run that is done has them all. `OneTileOK` follows the partial file of a
  run of one tile; with several tiles it fails (finding 4).
* `ArchivesStayHonest` (`PMTilesBuild`), for any finite number of builds and any disk.
  `IInv` says that what is free and what builds have taken add up to the disk, that an
  admitted build needs no more than it detected, that it takes no more than it needs,
  and that what it detected is no more than its share unless the floor was above it.
  Then, while some build still wants disk, less than the sum of the shares is taken
  (`SharesSuffice`). That an archive is of its layers is a fact about the
  command line (`WholeIsOfItsLayers`): tippecanoe is given one range of zooms, which
  holds that of every layer (`ProcessSpansWindows`), and each feature's own range takes
  the layers apart again (`TilesAreOfLayers`).
* `FitsStayWhole` (`FitStream`), for any source of batches, policy and order of the two
  threads. The invariant splits the rows read so far: the sidecar's partial file has
  the rows of all batches that were fitted (`FitterOK`), and what is staged, followed
  by what is offered, is the canonical selection of the same rows (`WriterOK`); a thread
  that failed passes its failure on and ends nothing. `SummaryOK` adds that the
  counts are those of the same rows, and that at most the one row at which a fit was
  refused is unaccounted for. `SelectOfBoth` (what is selected of two sequences one
  after the other) and `SelectSplits` (kept and dropped rows add up) are the lemmas it
  rests on.
* `SumIsOfComponents`, as above.

What `FitStream` concatenates and selects is computed by recursive functions. The library's induction theorems take an operator as a parameter and
cannot be used here, so `PlanOutputs_proofs` argues by least counterexample: a set of
naturals that is not empty has a least element (`LeastOf`, from well-founded
induction over `<`), which gives that such a function exists (`FirstRowsAre`,
`FirstsAre`) and what it computes. Sums over finite sets are stated as the number of
their units (`Total`, `UnitsOf`), so that facts about cardinalities apply.

The assumptions that these four machines add: sets are finite, cells are numbered from
1 (an H3 index is never 0), areas are not empty and tile sizes positive
(`run_tiled_canonicalization` and `tile_bounds` refuse others), a layer has a name, its zooms are
integers and sizes are natural numbers, a fraction has a positive denominator, and a
row of a source ends in one of the five ways `_fit_or_error` knows.

`Requests_proofs`, about pure modules under the names of their instances in `MCAlgorithms`
(`Sel!`, `Lim!`, `Pol!`, `Por!`, `Blk!`, `Fit!`, `Eva!`), and `Scan!` for `RasterScan` with pixels of
any size. A theorem about operators holds for any inputs that meet its
hypotheses; that about the run follows from it by an invariant that says what the
inputs of the run are. `MCAlgorithms` calls its specification `Asked`, since the proof
module extends `DatasetYears` too.

* `PruningKeepsRows`, `NarrowingKeepsRows`, and `SelectionStaysInvisible` for the run.
  `ErrorIsApart` says that a call that raises can be told from what a call returns, of
  the catalogue at hand; TLC evaluates it for every catalogue and plan of the run.
* `LimitsStayInside`, `ConnectionsStayWhole`, and `LimitsStayKept` for the run.
  `HostIsSound` is what the kernel gives: numbers, quotas with positive periods, and a
  process whose group is the mount root or is below it with a file of its own. The
  least of the limits bounds everything that is derived from it
  (`DetectedIsInside`); extensions and statements that ran are counted, so that a
  connection that is open has run as many as there are.
* `CurvesPassTheirGates`, `PoliciesCanBeMet`, `RecordsTellAll`, and `PoliciesStayMet` for
  the run. `EstimatePasses` follows a curve through both families:
  the fallback is tried under a policy of its own, which can be made
  (`FallbackCanBeMade`) and has the gates of the first. `PixelOutcomes` are the four
  ways a pixel ends. The hypothesis is that the policy has been constructed
  (`ValidPolicy`) and its pixels and fits hold numbers.
* `EveryAssetIsJoined`: the candidates of an asset are curves, the best of them is
  unique unless the portfolio was refused as ambiguous, and one that contains the asset
  comes first (`ContainingComesFirst`); the worst of a cell's values is as bad as each
  (`AggregateIsWorst`). It is a part of `PortfoliosAreJoined`.
* `WindowsAreTouched` and `TiffSamplesReachCells`, parts of `RastersAreRead`. `TiffPixels` and `ZarrPixels` say which pixels a window has without
  rounding; the slack has to be less than half a pixel (`geotiff.py:448`: a billionth).
  `SamplesSpanThePixel` needs a resolution that covers the pixel, which
  `ResolutionCovers` gives, and `ReferenceIsEquatorward` is the fact that fails for
  NetCDF (finding 5).
* `StripsTileWindows`, a part of `WindowsCoverTheirBounds`, and `BoundsKeepQuantiles`, a part of
  `CurvesAreFaithful`.
* `RowsKeepTheirValues`, `PeriodsKeepTheirOrder` and, from both, `CurvesStayEvaluated`,
  the run's property. The memo is sound because what it holds under a key are the
  quantiles of any row with that key (`Sound`, `KeysTellCurves`: the lemma that fails
  for a key without the sign). Chunks and batches join to the rows they were cut from
  (`ChunksJoin`, `FlattenIs`), so a row keeps its place (`PartsAreOwn`). The recursive
  functions behind them are reasoned about by the least number at which a claim fails
  (`LeastOf`), which needs no induction theorem. `EvaluationAssumption`, that an
  exception and a null are not values, is evaluated by TLC for every input of the run.

Only model-checked:

* all liveness (`WaiterGetsThrough`, `CallsEnd`): fairness and `ENABLED` are out of the
  prover's reach;
* `BlocksAreHonest`, and what the theorems above leave of
  `WindowsCoverTheirBounds`, `CurvesAreFaithful`, `RastersAreRead` and
  `PortfoliosAreJoined`. These compare an operator with a reference definition over
  every input of a bounded set. What the operator computes is a sum, a fold, a sorted
  sequence or a selection from one: the prover has no backend for recursive operators,
  and `SortSeq` and `SelectSeq` are opaque to it.

## 5. Not modelled

* Impact functions (`impacts/*`): validation and evaluation of expressions over
  real numbers, which TLC has not.
* `registry.py`, `pathways.py`, `types/*`, `schema/*`: tables and schemas without
  state.
* Providers that read third-party formats over the network (`providers/era5.py`,
  `os_climate.py`, `local.py`, `_http.py`; the chunks and calendars of
  `providers/cmip6.py`), and `nex.py`: in the machines a read succeeds, fails or
  brings another version.
* The file of the CMIP6 catalogue subset (`providers/cmip6.py:455`): two first calls
  share its staging name; it has no checksum that a property could speak of.
* The watchdog's clock running on while a query is slow (`_process.py:86`): the code
  cannot tell this from a stall, and promises nothing about it.
* Floating-point estimators, the geometry of polygons, SQL text, Arrow and Parquet
  conversions: inputs or external operators of the models.
* Stream mode (a private scratch directory that nobody shares), logging and
  progress callbacks, remote targets of the Parquet writer, and two writers that
  both pass the existence test of `overwrite=False` (`connectors/parquet.py:443`).
* Storage options of a user's own data: only their names are part of an output's
  name (`byo.py:281`), so two stores of one path at different endpoints share one
  output; the model has one store behind a path.
* A drought's record asks for a lost year under the template's name
  (`edo.py:380`): `CropCache` has the failure that follows, and no property asks
  for the repair.
