--------------------------- MODULE MCSharedCaches ---------------------------
(***************************************************************************)
(* Two processes on one cache directory: the snapshots of NOAA water       *)
(* levels, the ERA5 year cache, the station cache, the single-object       *)
(* snapshots and the station catalogue.  The caches share nothing: a       *)
(* behaviour chooses one, and the others stay in their initial states.     *)
(***************************************************************************)
EXTENDS SnapshotPointer, TLC

CONSTANTS
    p1, p2, None, Latest, NoEntry, Absent, Torn,
    Year, LegacyYear, Request, MaxRelease, FetchWorkers, YearCallsCrash,
    Job, MaxVersion, Workers, StationCallsCrash,
    Years, Refreshers, Catalogue, Areas, Periods

VARIABLES
    topic,
    yRelease, yObject, yTemp, yEntry, yPc, yCall, ySnap, yCached, yVersion, yFetch, ySum, yAlone,
    sRemote, sObject, sEntry, sPc, sCall, sHits, sJob, sStaged, sFailed,
    oPlan, oRemote, oFile, oManifest, oPc, oCall,
    cRemote, cFile, cEntry, cPc, cCall

years      == <<yRelease, yObject, yTemp, yEntry, yPc, yCall, ySnap, yCached, yVersion, yFetch, ySum, yAlone>>
stations   == <<sRemote, sObject, sEntry, sPc, sCall, sHits, sJob, sStaged, sFailed>>
objects    == <<oPlan, oRemote, oFile, oManifest, oPc, oCall>>
catalogues == <<cRemote, cFile, cEntry, cPc, cCall>>

-----------------------------------------------------------------------------
\* One process fills and refreshes the snapshots, the other reads them offline;
\* or both refresh.
All == {"reuse", "offline", "refresh"}
WriterAndReader == p1 :> All @@ p2 :> {"offline"}

Y == INSTANCE YearCache_proofs WITH
        Crashes <- YearCallsCrash,
        release <- yRelease, object <- yObject, temp <- yTemp, entry <- yEntry, pc <- yPc,
        call <- yCall, snap <- ySnap, cached <- yCached, version <- yVersion, fetch <- yFetch,
        sum <- ySum, alone <- yAlone

S == INSTANCE StationCache_proofs WITH
        Crashes <- StationCallsCrash,
        remote <- sRemote, object <- sObject, entry <- sEntry, pc <- sPc, call <- sCall,
        hits <- sHits, job <- sJob, staged <- sStaged, failed <- sFailed

O == INSTANCE SnapshotCache WITH
        plan <- oPlan, remote <- oRemote, file <- oFile, manifest <- oManifest,
        pc <- oPc, call <- oCall

\* Between two versions of the catalogue a station moves and its record grows.
Row(s, a, b, e) == [station |-> s, at |-> a, start |-> b, end |-> e]
Catalogues ==
    <<{Row("s1", "west", 2000, 2001), Row("s2", "east", None, None)},
      {Row("s1", "east", 2000, 2003), Row("s3", "west", 2002, None)}>>
RangesOfYears == {<<2001, 2002>>, <<2003, 2003>>}

C == INSTANCE StationCatalogue WITH
        remote <- cRemote, file <- cFile, entry <- cEntry, pc <- cPc, call <- cCall

ASSUME Assumptions ==
    /\ Y!YearCacheAssumption /\ S!StationCacheAssumption
    /\ O!SnapshotCacheAssumption /\ C!StationCatalogueAssumption

SharedInit ==
    /\ topic \in {"pointer", "years", "stations", "objects", "catalogues"}
    /\ Init /\ Y!Init /\ S!Init /\ O!Init /\ C!Init
    /\ topic # "pointer" => files[Root] = {}
    /\ topic # "objects" => oPlan = "CHIRPS"

SharedNext ==
    /\ \/ topic = "pointer" /\ Next /\ UNCHANGED <<years, stations, objects, catalogues>>
       \/ topic = "years" /\ Y!Next /\ UNCHANGED <<vars, stations, objects, catalogues>>
       \/ topic = "stations" /\ S!Next /\ UNCHANGED <<vars, years, objects, catalogues>>
       \/ topic = "objects" /\ O!Next /\ UNCHANGED <<vars, years, stations, catalogues>>
       \/ topic = "catalogues" /\ C!Next /\ UNCHANGED <<vars, years, stations, objects>>
    /\ UNCHANGED topic

SharedSpec == SharedInit /\ [][SharedNext]_<<topic, vars, years, stations, objects, catalogues>>

-----------------------------------------------------------------------------
\* `prefetch()` once, then mode="offline" (docs/concepts.md:35-36): a call of the
\* ERA5 plan that succeeds with the directory to itself leaves every year it
\* selected cached and verifying, whatever calls before it left there.
YearsAreReproducible == Y!YearsAreReproducible

\* A station entry that verifies is of the file it names, although other processes
\* put files in its place.
StationEntriesAreHonest == S!StationEntriesAreHonest

\* The single-object plans: what is retained is whole, a call reads what it
\* verified, it can be repeated offline when it was alone, and a download that is
\* rejected leaves the pair as it was.
SnapshotsAreHonest ==
    /\ O!TypeOK /\ O!RetainedIsWhole /\ O!ReadsWhatItVerified
    /\ O!SucceededAloneIsReproducible /\ O!RejectionKeepsCache

\* The stations a plan selects are those of the catalogue its result names.
SelectionsAreOfTheirCatalogue == C!SelectionsAreOfTheirCatalogue
=============================================================================
