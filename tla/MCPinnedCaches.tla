--------------------------- MODULE MCPinnedCaches ---------------------------
(***************************************************************************)
(* Two processes on one cache directory whose manifest pins what it holds: *)
(* the rainfall stations of ECCC IDF, and the partitions of CRC Open; and  *)
(* the shared manifest on a filesystem without locks.  They share nothing: *)
(* a behaviour chooses one, and the others stay in their initial states.   *)
(***************************************************************************)
EXTENDS IDFCache, TLC

CONSTANTS
    Part,                                   \* CRCOpenCache
    jrc, edo, EntryKey, Val,         \* SharedManifest
    NoVal, NoUpdate, NoProc, Absent, Torn

\* A plan of JRC's and one of EDO's, each with fields the other lacks,
\* beside the provider the station plans give.
MapStated ==
    (jrc :> [dataset |-> "glofas", source_periods |-> "all"]) @@
    (edo :> [dataset |-> "fapar", requested_years |-> "all"])

MapFound == (jrc :> {"resources"}) @@ (edo :> {"resources", "resolved_years"})

VARIABLES
    topic,
    oReleased, oCatalog, oManifest, oPart, oOutput, oReceipt, oRaced, oPc, oCall,
    mManifest, mLock, mStaging, mPc, mUpdate, mSnap

open == <<oReleased, oCatalog, oManifest, oPart, oOutput, oReceipt, oRaced, oPc, oCall>>
lockless == <<mManifest, mLock, mStaging, mPc, mUpdate, mSnap>>

-----------------------------------------------------------------------------
O == INSTANCE CRCOpenCache WITH
        released <- oReleased, catalog <- oCatalog, manifest <- oManifest, part <- oPart,
        output <- oOutput, receipt <- oReceipt, raced <- oRaced, pc <- oPc, call <- oCall

M == INSTANCE SharedManifest_proofs WITH
        LocksSupported <- FALSE, PlanKey <- {jrc, edo},
        Field <- {"provider", "dataset", "source_periods", "requested_years",
                  "resources", "resolved_years"},
        Compared <- {"dataset", "source_periods", "requested_years"},
        Stated <- MapStated, Found <- MapFound,
        EntryFields <- {[provider |-> "noaa-stations"]},
        Said <- {"noaa-stations", "glofas", "fapar", "all"},
        manifest <- mManifest, lock <- mLock, staging <- mStaging, pc <- mPc,
        update <- mUpdate, snap <- mSnap

ASSUME Assumptions ==
    O!CRCOpenAssumption /\ M!ManifestDataAssumption /\ M!SharedManifestAssumption

PinnedInit ==
    /\ topic \in {"rainfall", "open", "no locks"}
    /\ Init /\ O!Init /\ M!Init
    /\ topic # "no locks" => mManifest = M!EmptyFile

PinnedNext ==
    /\ \/ topic = "rainfall" /\ Next /\ UNCHANGED <<open, lockless>>
       \/ topic = "open" /\ O!Next /\ UNCHANGED <<vars, lockless>>
       \/ topic = "no locks" /\ M!Next /\ UNCHANGED <<vars, open>>
    /\ UNCHANGED topic

PinnedSpec == PinnedInit /\ [][PinnedNext]_<<topic, vars, open, lockless>>

-----------------------------------------------------------------------------
\* CRC Open: unless two first calls overlapped, the catalogue, the partitions and
\* the listed resources are of the recorded pin, and a call that succeeds alone
\* leaves a cache it can be repeated from offline, with its output and receipt.
ReleasesAreKept == O!OneRelease /\ O!SucceededAloneIsReproducible

\* A recorded pin never changes: an IDF station's while it is recorded, a CRC
\* Open release's unless two first calls overlapped.
NoPinMoves == PinsAreKept /\ O!PinIsKept

\* Without locks the manifest can lose records of others, but it is never half
\* written, and its top level, a mixture of records, is only ever accepted by a
\* plan whose current results it holds.
ManifestIsConsistent == M!ManifestIsConsistent
=============================================================================
