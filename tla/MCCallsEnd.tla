----------------------------- MODULE MCCallsEnd -----------------------------
(***************************************************************************)
(* One instance of each machine whose calls must end: the PMTiles build,   *)
(* one call at a time of the year cache, of the station cache and of the   *)
(* single-object snapshots, and the paging client of USGS and GeoMet.      *)
(* They share nothing: a behaviour chooses one of them, and the others     *)
(* stay in their initial states.                                           *)
(***************************************************************************)
EXTENDS TippecanoeProcess, TLC

CONSTANTS
    p1, None, Latest, NoEntry, Absent, Torn,
    Year, LegacyYear, Request, MaxRelease, FetchWorkers,
    Job, MaxVersion, Workers, Crashes,
    Limit, Ids, MaxChanges, AtFirst

VARIABLES
    topic,
    yRelease, yObject, yTemp, yEntry, yPc, yCall, ySnap, yCached, yVersion, yFetch, ySum, yAlone,
    sRemote, sObject, sEntry, sPc, sCall, sHits, sJob, sStaged, sFailed,
    gService, gItems, gChanges, gMoments, gPc, gNext, gSeen, gRows, gMatched,
    oPlan, oRemote, oFile, oManifest, oPc, oCall

years    == <<yRelease, yObject, yTemp, yEntry, yPc, yCall, ySnap, yCached, yVersion, yFetch, ySum, yAlone>>
stations == <<sRemote, sObject, sEntry, sPc, sCall, sHits, sJob, sStaged, sFailed>>
pages    == <<gService, gItems, gChanges, gMoments, gPc, gNext, gSeen, gRows, gMatched>>
objects  == <<oPlan, oRemote, oFile, oManifest, oPc, oCall>>
all      == <<topic, vars, years, stations, pages, objects>>

Y == INSTANCE YearCache_proofs WITH
        Proc <- {p1},
        release <- yRelease, object <- yObject, temp <- yTemp, entry <- yEntry, pc <- yPc,
        call <- yCall, snap <- ySnap, cached <- yCached, version <- yVersion, fetch <- yFetch,
        sum <- ySum, alone <- yAlone

S == INSTANCE StationCache_proofs WITH
        Proc <- {p1},
        remote <- sRemote, object <- sObject, entry <- sEntry, pc <- sPc, call <- sCall,
        hits <- sHits, job <- sJob, staged <- sStaged, failed <- sFailed

G == INSTANCE Pagination WITH
        service <- gService, items <- gItems, changes <- gChanges, moments <- gMoments,
        pc <- gPc, next <- gNext, seen <- gSeen, rows <- gRows, matched <- gMatched

O == INSTANCE SnapshotCache WITH
        Proc <- {p1}, Years <- {1, 2}, Refreshers <- {},
        plan <- oPlan, remote <- oRemote, file <- oFile, manifest <- oManifest,
        pc <- oPc, call <- oCall

ASSUME Assumptions ==
    /\ Y!YearCacheAssumption /\ S!StationCacheAssumption
    /\ G!PaginationAssumption /\ O!SnapshotCacheAssumption


CallsInit ==
    /\ topic \in {"build", "years", "stations", "pages", "objects"}
    /\ Init /\ Y!Init /\ S!Init /\ G!Init /\ O!Init
    /\ topic # "pages" => gItems = <<>> /\ gService = CHOOSE s \in G!Services : TRUE
    /\ topic # "objects" => oPlan = "CHIRPS"

CallsNext ==
    /\ \/ topic = "build" /\ Next /\ UNCHANGED <<years, stations, pages, objects>>
       \/ topic = "years" /\ Y!Next /\ UNCHANGED <<vars, stations, pages, objects>>
       \/ topic = "stations" /\ S!Next /\ UNCHANGED <<vars, years, pages, objects>>
       \/ topic = "pages" /\ G!Next /\ UNCHANGED <<vars, years, stations, objects>>
       \/ topic = "objects" /\ O!Next /\ UNCHANGED <<vars, years, stations, pages>>
    /\ UNCHANGED topic

\* What each component assumes: a call that is under way keeps running, its
\* threads are scheduled, and remote reads end; the query delivers, time passes,
\* and a process that does not stall reads its input and exits.
CallsSpec ==
    /\ CallsInit /\ [][CallsNext]_all
    /\ WF_vars(topic = "build" /\ Loop) /\ WF_vars(topic = "build" /\ (Drain \/ DrainEnds))
    /\ WF_vars(topic = "build" /\ Tick)
    /\ WF_vars(topic = "build" /\ Reads) /\ WF_vars(topic = "build" /\ Exits)
    /\ WF_years(Y!Main(p1)) /\ WF_years(\E y \in Year : Y!Thread(p1, y))
    /\ WF_stations(S!Main(p1)) /\ \A j \in Job : WF_stations(S!Thread(p1, j))
    /\ WF_pages(topic = "pages" /\ G!Turn) /\ WF_pages(topic = "pages" /\ G!Finish)
    /\ WF_objects(O!Step(p1))

-----------------------------------------------------------------------------
\* What a call of the year cache promises (ERA5): an entry that verifies names a
\* whole year of the release it states; a call that succeeds has every year it
\* selected, of the release it asked for; and no worker thread is left writing
\* after it returned or raised.
YearsAreWhole == Y!YearsAreWhole

\* What a call of the station cache promises: its window stays bounded; a call
\* that raises has recorded every job put in place; one that succeeds accounts
\* for every job, and none is left running.
StationCallsAreAccounted == S!StationCallsAreAccounted

\* After a failure is reaped no further job of a station call is started.
NothingStartsAfterFailure == S!NothingStartsAfterFailure

\* Pages that are accepted are the collection at one moment of the download, if
\* it only grew or only shrank, and rows of the plan's selection only.
PagesAreAMoment ==
    G!TypeOK /\ G!AcceptedIsAMoment /\ G!AcceptedMissesNothing /\ G!AcceptedIsSelected

\* Every call ends: the caches' calls, the paging, a build whose process does not
\* stall, and the wait for one that stalls after its input was closed.
UnderWay ==
    \/ Y!Active(p1) \/ S!Active(p1) \/ oPc[p1] \in O!Running
    \/ topic = "pages" /\ gPc \notin {"accepted", "refused"}
    \/ topic = "build" /\ pc \notin Ended /\ (process # "stalled" \/ pc \in {"checking", "polling"})

CallsEnd == UnderWay ~> ~UnderWay
=============================================================================
