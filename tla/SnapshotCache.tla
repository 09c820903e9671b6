--------------------------- MODULE SnapshotCache ---------------------------
(***************************************************************************)
(* The plans that retain one source object per directory: NOAA sea level,  *)
(* CHIRPS, IBTrACS, USGS (one directory), ECCC daily and HYDAT (one per    *)
(* selected year).  A directory holds the object and a manifest with its   *)
(* checksum.  They are replaced by two renames and no lock: a call that    *)
(* dies in between, or two refreshes that interleave, leave a pair that    *)
(* does not match.                                                         *)
(*                                                                         *)
(* How the pages of the last three arrive is the module Pagination; here a *)
(* download is one step that brings a body, good or bad, or fails.         *)
(***************************************************************************)
EXTENDS Naturals, FiniteSets, Sequences

CONSTANTS
    Proc,           \* processes sharing the cache directory
    Years,          \* years a GeoMet plan selects: 1..n
    Refreshers,     \* processes that only refresh: unpinned, good downloads
    MaxVersion,     \* bound on the versions of the remote objects
    None            \* no file, no manifest, no pin

Plans == {"sea level", "CHIRPS", "IBTrACS", "USGS", "GeoMet"}

Version == 1..MaxVersion

\* What a download brings: the object, or one cut short, with or without a
\* Content-Length that tells, or one that is not of the form the plan reads.
Fault == {"none", "cut", "cut unseen", "malformed"}
Body == [version : Version, fault : Fault]

SnapshotCacheAssumption ==
    /\ Years = 1..Cardinality(Years) /\ Years # {} /\ IsFiniteSet(Years)
    /\ MaxVersion \in Nat \ {0} /\ Refreshers \subseteq Proc
    /\ None \notin Version /\ None \notin Body

VARIABLES
    plan,       \* which plan the processes run
    remote,     \* the version each remote object has now
    file,       \* the retained object in each directory
    manifest,   \* the checksum its manifest records
    pc,         \* where each call is
    call        \* its local variables

vars == <<plan, remote, file, manifest, pc, call>>

-----------------------------------------------------------------------------
Dirs == IF plan = "GeoMet" THEN Years ELSE {1}
Last == Cardinality(Dirs)

Mode == {"stream", "reuse", "offline", "refresh"}
PlanModes == IF plan = "CHIRPS" THEN Mode ELSE Mode \ {"stream"}

NoCall == [mode |-> "reuse", reads |-> FALSE, pin |-> [d \in Years |-> None],
           dir |-> 1, seen |-> None, found |-> <<None, None>>, staged |-> None,
           got |-> [d \in Years |-> None], read |-> <<>>, alone |-> TRUE]

Kept == Body \cup {None}
Pin == Version \cup {None}

Call == [mode : Mode, reads : BOOLEAN, pin : [Years -> Pin], dir : Years, seen : Kept,
         found : Kept \X Kept, staged : Kept, got : [Years -> Kept],
         read : Seq(Years \X Kept), alone : BOOLEAN]

TypeOK ==
    /\ plan \in Plans
    /\ remote \in [Years -> Version]
    /\ file \in [Years -> Kept]
    /\ manifest \in [Years -> Kept]
    /\ pc \in [Proc -> {"idle", "look", "verify", "fetch", "replace", "record",
                        "prepared", "opened", "done", "rejected", "failed"}]
    /\ call \in [Proc -> Call]

Init ==
    /\ plan \in Plans
    /\ remote = [d \in Years |-> 1]
    /\ file = [d \in Years |-> None]
    /\ manifest = [d \in Years |-> None]
    /\ pc = [p \in Proc |-> "idle"]
    /\ call = [p \in Proc |-> NoCall]

-----------------------------------------------------------------------------
Running == {"look", "verify", "fetch", "replace", "record", "prepared", "opened"}
Goto(p, l) == pc' = [pc EXCEPT ![p] = l]
Dir(p) == call[p].dir
PinOf(p) == call[p].pin[Dir(p)]

\* checksums keyed by year must name selected years; the others have one.
PinsOf ==
    {[d \in Years |-> IF d \in pinned THEN v ELSE None] :
        pinned \in SUBSET (IF plan = "GeoMet" THEN Years ELSE {1}), v \in Version}

\* A call that fails leaves nothing but its exception.
Raise(p) == Goto(p, "failed") /\ call' = [call EXCEPT ![p] = NoCall]

\* prefetch(), or batches() and projections(), which prefetch and then read.
\* `alone`, `found`, `got` and `read` are history variables, the last three
\* kept of a call with no other one around.
Start(p) ==
    /\ pc[p] = "idle"
    /\ \E mode \in PlanModes, reads \in BOOLEAN, pin \in PinsOf :
        /\ p \in Refreshers => mode = "refresh" /\ ~reads /\ pin = NoCall.pin
        /\ mode = "stream" => reads /\ pin = NoCall.pin
        /\ call' = [q \in Proc |->
                IF q = p THEN [NoCall EXCEPT !.mode = mode, !.reads = reads, !.pin = pin,
                                             !.alone = \A r \in Proc \ {p} : pc[r] \notin Running]
                ELSE [call[q] EXCEPT !.alone = FALSE, !.found = NoCall.found,
                                     !.got = NoCall.got, !.read = NoCall.read]]
        /\ Goto(p, IF mode = "stream" THEN "prepared" ELSE "look")
    /\ UNCHANGED <<plan, remote, file, manifest>>

\* cached_snapshot reads the manifest ...
Look(p) ==
    /\ pc[p] = "look"
    /\ call' = [call EXCEPT ![p].seen = manifest[Dir(p)],
                            ![p].found = IF call[p].alone THEN <<file[Dir(p)], manifest[Dir(p)]>> ELSE @]
    /\ Goto(p, "verify")
    /\ UNCHANGED <<plan, remote, file, manifest>>

\* check_expected_sha256.
Pinned(body, pin) == pin = None \/ body = [version |-> pin, fault |-> "none"]

\* Mutation of HasPrepared: one year more than was selected.
HasPreparedOneMore(p, m) ==
    /\ call' = [call EXCEPT ![p] = [@ EXCEPT !.got[Dir(p)] = m, !.seen = None, !.staged = None,
                                            !.dir = IF call[p].reads THEN Dir(p) ELSE Dir(p) + 1]]
    /\ Goto(p, IF call[p].reads THEN "prepared"
               ELSE IF Dir(p) <= Last THEN "look" ELSE "done")

\* The call has the manifest of a directory: the next year, or the reader.
HasPrepared(p, m) ==
    /\ call' = [call EXCEPT ![p] =
            [@ EXCEPT !.seen = None, !.staged = None, !.found = NoCall.found,
                      !.got[Dir(p)] = IF call[p].alone THEN m ELSE None,
                      !.dir = IF ~call[p].reads /\ Dir(p) < Last THEN Dir(p) + 1 ELSE Dir(p)]]
    /\ Goto(p, IF call[p].reads THEN "prepared"
               ELSE IF Dir(p) < Last THEN "look" ELSE "done")

\* Mutation of Verify: both exist, and the checksum is not compared.
VerifyExists(p) ==
    LET m == call[p].seen IN
    /\ pc[p] = "verify"
    /\ \/ /\ call[p].mode # "refresh" /\ (file[Dir(p)] # None) # (m # None)
          /\ Raise(p)
       \/ /\ call[p].mode # "refresh" /\ m # None /\ file[Dir(p)] # None
          /\ IF Pinned(m, PinOf(p)) THEN HasPrepared(p, m)
             ELSE Goto(p, "rejected") /\ UNCHANGED call
       \/ /\ call[p].mode = "refresh" \/ (m = None /\ file[Dir(p)] = None)
          /\ IF call[p].mode = "offline" THEN Raise(p)
             ELSE Goto(p, "fetch") /\ call' = [call EXCEPT ![p].seen = None]
    /\ UNCHANGED <<plan, remote, file, manifest>>

\* ... and then the file.  A pair that is incomplete or does not match is an
\* error except for a refresh, and so is one that is not the pinned one.
Verify(p) ==
    LET m == call[p].seen
        incomplete == (file[Dir(p)] # None) # (m # None)
    IN
    /\ pc[p] = "verify"
    /\ \/ /\ call[p].mode # "refresh"
          /\ incomplete \/ (m # None /\ m # file[Dir(p)])
          /\ Raise(p)
       \/ /\ call[p].mode # "refresh" /\ m # None /\ m = file[Dir(p)]
          /\ IF Pinned(m, PinOf(p)) THEN HasPrepared(p, m)
             ELSE Goto(p, "rejected") /\ UNCHANGED call
       \/ /\ call[p].mode = "refresh" \/ (m = None /\ ~incomplete)
          /\ IF call[p].mode = "offline" THEN Raise(p)
             ELSE Goto(p, "fetch") /\ call' = [call EXCEPT ![p].seen = None]
    /\ UNCHANGED <<plan, remote, file, manifest>>

-----------------------------------------------------------------------------
\* Mutations: the length is not compared, or the pin is forgotten.
NOAARetainsCut(body, pin) == body.fault # "malformed" /\ Pinned(body, pin)
PagesUnpinned(body, pin) == body.fault = "none"

\* What each plan retains.  NOAA bounds the response, compares its length and
\* parses all of it, so that a body cut short is noticed either way; so does
\* the parsing of the pages of USGS, ECCC and HYDAT.
NOAARetains(body, pin) == body.fault = "none" /\ Pinned(body, pin)
PagesRetained(body, pin) == body.fault = "none" /\ Pinned(body, pin)

\* CHIRPS compares the length only, IBTrACS parses two rows besides.
CHIRPSRetains(body, pin) == body.fault # "cut" /\ Pinned(body, pin)
IBTrACSRetains(body, pin) == body.fault \notin {"cut", "malformed"} /\ Pinned(body, pin)

Retains(body, pin) ==
    CASE plan = "sea level" -> NOAARetains(body, pin)
      [] plan = "CHIRPS"    -> CHIRPSRetains(body, pin)
      [] plan = "IBTrACS"   -> IBTrACSRetains(body, pin)
      [] OTHER              -> PagesRetained(body, pin)

\* Mutations of Download: into place at once, or again until it is good.
DownloadInPlace(p) ==
    /\ pc[p] = "fetch"
    /\ \E fault \in Fault :
        LET body == [version |-> remote[Dir(p)], fault |-> fault]
        IN  /\ file' = [file EXCEPT ![Dir(p)] = body]
            /\ IF Retains(body, PinOf(p))
               THEN Goto(p, "replace") /\ call' = [call EXCEPT ![p].staged = body]
               ELSE Goto(p, "rejected") /\ UNCHANGED call
    /\ UNCHANGED <<plan, remote, manifest>>

DownloadRetries(p) ==
    /\ pc[p] = "fetch"
    /\ \E fault \in Fault :
        LET body == [version |-> remote[Dir(p)], fault |-> fault]
        IN  IF Retains(body, PinOf(p))
            THEN Goto(p, "replace") /\ call' = [call EXCEPT ![p].staged = body]
            ELSE Goto(p, "look") /\ UNCHANGED call
    /\ UNCHANGED <<plan, remote, file, manifest>>

\* The body goes to a scratch directory (IBTrACS: a mkstemp file) that no other
\* call knows of, and is checked there.
Download(p) ==
    /\ pc[p] = "fetch"
    /\ \E fault \in IF p \in Refreshers THEN {"none"} ELSE Fault :
        LET body == [version |-> remote[Dir(p)], fault |-> fault]
        IN  IF Retains(body, PinOf(p))
            THEN Goto(p, "replace") /\ call' = [call EXCEPT ![p].staged = body]
            ELSE Goto(p, "rejected") /\ UNCHANGED call
    /\ UNCHANGED <<plan, remote, file, manifest>>

\* staged.replace(path) ...
Replace(p) ==
    /\ pc[p] = "replace"
    /\ file' = [file EXCEPT ![Dir(p)] = call[p].staged]
    /\ Goto(p, "record")
    /\ UNCHANGED <<plan, remote, manifest, call>>

\* ... and write_manifest(directory, result), one rename as well.
Record(p) ==
    /\ pc[p] = "record"
    /\ manifest' = [manifest EXCEPT ![Dir(p)] = call[p].staged]
    /\ HasPrepared(p, call[p].staged)
    /\ UNCHANGED <<plan, remote, file>>

\* The server or the disk fails.
Fails(p) ==
    /\ pc[p] \in {"fetch", "replace", "record"}
    /\ Raise(p)
    /\ UNCHANGED <<plan, remote, file, manifest>>

-----------------------------------------------------------------------------
\* The reader opens the retained file by its name: what it finds need not be
\* what was verified.  IBTrACS opens it for the header, and again for the rows.
Found(p) == IF call[p].mode = "stream" THEN [version |-> remote[1], fault |-> "none"]
            ELSE file[Dir(p)]

Noted(p) == IF call[p].alone THEN Append(call[p].read, <<Dir(p), Found(p)>>) ELSE <<>>

OpenAgain(p) ==
    /\ call' = [call EXCEPT ![p].read = Noted(p)]
    /\ Goto(p, "opened")

\* A GeoMet plan reads a year and then prepares the next one.
HasRead(p) ==
    /\ call' = [call EXCEPT ![p].read = Noted(p),
                            ![p].dir = IF Dir(p) < Last THEN Dir(p) + 1 ELSE Dir(p)]
    /\ Goto(p, IF Dir(p) < Last THEN "look" ELSE "done")

ReadProjections(p) == plan = "sea level" /\ HasRead(p)
ReadRaster(p) ==
    /\ plan = "CHIRPS"
    /\ IF Found(p).fault = "none" THEN HasRead(p) ELSE Raise(p)
ReadObservations(p) == plan = "USGS" /\ HasRead(p)
ReadYear(p) == plan = "GeoMet" /\ HasRead(p)
ReadHeader(p) == plan = "IBTrACS" /\ pc[p] = "prepared" /\ OpenAgain(p)
ReadRows(p) == plan = "IBTrACS" /\ pc[p] = "opened" /\ HasRead(p)

Read(p) ==
    /\ \/ /\ pc[p] = "prepared"
          /\ ReadProjections(p) \/ ReadRaster(p) \/ ReadObservations(p) \/ ReadYear(p)
       \/ ReadHeader(p) \/ ReadRows(p)
    /\ UNCHANGED <<plan, remote, file, manifest>>

Reset(p) ==
    /\ Goto(p, "idle")
    /\ call' = [call EXCEPT ![p] = NoCall]
    /\ UNCHANGED <<plan, remote, file, manifest>>

Return(p) == pc[p] \notin Running \cup {"idle"} /\ Reset(p)

\* The process is killed: the directory stays as it is.
Crash(p) == pc[p] \in {"replace", "record"} /\ Reset(p)

RemoteChange(d) ==
    /\ remote[d] < MaxVersion
    /\ remote' = [remote EXCEPT ![d] = @ + 1]
    /\ UNCHANGED <<plan, file, manifest, pc, call>>

Step(p) ==
    \/ Look(p) \/ Verify(p) \/ Download(p) \/ Replace(p) \/ Record(p)
    \/ Fails(p) \/ Read(p)

Next ==
    \/ \E p \in Proc : Start(p) \/ Step(p) \/ Return(p) \/ Crash(p)
    \/ \E d \in Dirs : RemoteChange(d)

Spec == Init /\ [][Next]_vars
FairSpec == Spec /\ \A p \in Proc : WF_vars(Step(p))

-----------------------------------------------------------------------------
\* What is retained was received whole and in the form the plan reads; the
\* exceptions are the plans that do not parse what they retain.
RetainedIsWhole ==
    \A d \in Dirs : file[d] # None =>
        \/ file[d].fault = "none"
        \/ plan \in {"CHIRPS", "IBTrACS"} /\ file[d].fault = "cut unseen"
        \/ plan = "CHIRPS" /\ file[d].fault = "malformed"

\* A call with a checksum, with no other call around, reads what it verified
\* and only what was pinned, in both files it opens.
ReadsWhatItVerified ==
    \A p \in Proc : call[p].alone /\ call[p].mode # "stream" =>
        \A i \in DOMAIN call[p].read :
            LET d == call[p].read[i][1]  body == call[p].read[i][2]
            IN  body = call[p].got[d] /\ Pinned(body, call[p].pin[d])

\* A call that succeeds with the cache to itself, whatever earlier calls that
\* failed, were killed or overlapped had left, leaves matching pairs: the
\* same call can be repeated offline.
SucceededAloneIsReproducible ==
    \A p \in Proc : pc[p] = "done" /\ call[p].alone /\ call[p].mode # "stream" =>
        \A d \in Dirs :
            /\ call[p].got[d] # None
            /\ file[d] = call[p].got[d] /\ manifest[d] = call[p].got[d]

\* A download that fails, or brings what is not pinned or not of the right
\* form, leaves the pair as it was: a failed refresh loses nothing.
RejectionKeepsCache ==
    \A p \in Proc : call[p].alone /\ pc[p] \in {"replace", "rejected"} =>
        call[p].found = <<file[Dir(p)], manifest[Dir(p)]>>

-----------------------------------------------------------------------------
(***************************************************************************)
(* The inductive invariant: why the properties hold.                       *)
(***************************************************************************)

\* A call works on the directories of its plan; only CHIRPS streams, which
\* touches none of them.
CallIsOfThePlan(p) ==
    /\ call[p].dir \in Dirs
    /\ call[p].mode = "stream" => plan = "CHIRPS" /\ pc[p] \in {"prepared", "done"}
    /\ pc[p] = "done" => call[p].dir = Last

\* What is about to be put in place was checked, against the pin as well.
StagedIsRetained(p) ==
    pc[p] \in {"replace", "record"} =>
        call[p].staged \in Body /\ Retains(call[p].staged, PinOf(p))

\* While a call is alone no other one is under way ...
AloneIsAlone(p) ==
    call[p].alone /\ pc[p] \in Running \cup {"done", "rejected"} =>
        \A q \in Proc \ {p} : pc[q] \notin Running

\* ... so that the pair it looked at stays as it was until it is replaced, ...
AloneFindsThePair(p) ==
    call[p].alone =>
        /\ pc[p] \in {"verify", "fetch", "replace", "rejected"} =>
            call[p].found = <<file[Dir(p)], manifest[Dir(p)]>>
        /\ pc[p] = "verify" => call[p].seen = manifest[Dir(p)]
        /\ pc[p] = "record" => file[Dir(p)] = call[p].staged

\* ... what it has prepared, in the directories before the one it is at, matches
\* and is what was pinned, ...
Passed(p, d) == IF pc[p] \in {"prepared", "opened", "done"} THEN d <= Dir(p) ELSE d < Dir(p)

AlonePrepares(p) ==
    call[p].alone /\ call[p].mode # "stream" /\ pc[p] \in Running \cup {"done"} =>
        \A d \in Years :
            /\ call[p].got[d] # None <=> Passed(p, d)
            /\ call[p].got[d] # None =>
                /\ Pinned(call[p].got[d], call[p].pin[d])
                /\ file[d] = call[p].got[d] /\ manifest[d] = call[p].got[d]

\* ... and that is what it reads.
AloneReads(p) ==
    call[p].alone /\ call[p].mode # "stream" =>
        \A i \in DOMAIN call[p].read :
            LET d == call[p].read[i][1]  body == call[p].read[i][2]
            IN  body # None /\ body = call[p].got[d] /\ Pinned(body, call[p].pin[d])

CallIsSound(p) ==
    /\ CallIsOfThePlan(p) /\ StagedIsRetained(p)
    /\ AloneIsAlone(p) /\ AloneFindsThePair(p) /\ AlonePrepares(p) /\ AloneReads(p)

IInv == TypeOK /\ RetainedIsWhole /\ \A p \in Proc : CallIsSound(p)

\* Every call ends: also one that reads while others refresh.
CallsEnd == \A p \in Proc : pc[p] \in Running ~> pc[p] \notin Running
=============================================================================
