-------------------------------- MODULE IDFCache --------------------------------
(***************************************************************************)
(* The cache of ECCC rainfall stations of one release and province         *)
(* (workflows/eccc_idf.py, providers/eccc_idf.py).  A plan wants stations  *)
(* by name or all that lie in an area.  The manifest has the checksums of  *)
(* the station files and says whether the province was read completely; a  *)
(* call writes back what it read at its start, with what it fetched, and   *)
(* takes no lock.  Stream mode has a directory of its own and is left out. *)
(***************************************************************************)
EXTENDS Naturals, FiniteSets

CONSTANTS
    Proc,       \* processes sharing the cache directory
    Makers,     \* the ones that also make the outputs and work offline
    Station,    \* the stations of the archive
    InArea,     \* the ones in the area that is asked for
    Named,      \* the one a station plan asks for
    MaxVersion, \* bound on the contents the archive has over time
    None        \* a missing file

ASSUME IDFAssumption ==
    /\ IsFiniteSet(Station) /\ InArea \subseteq Station /\ Named \in Station
    /\ MaxVersion \in Nat \ {0} /\ None \notin Nat

VARIABLES
    archive,    \* the contents of the archive now
    file,       \* the station files
    manifest,   \* [entries, complete]; no manifest is one without entries
    output,     \* per plan, what the canonical output was fitted to, or None
    pc,         \* where each call is
    call        \* its local variables

disk == <<file, manifest, output>>
vars == <<archive, disk, pc, call>>

\* The bytes of a version, and their checksum, are the version.
Version == 1..MaxVersion
Plan == {"area", "station"}
Mode == {"reuse", "offline", "refresh"}
Op == {"prefetch", "ensure"}
Nothing == [s \in {} |-> None]
With(entries, s, v) == [t \in DOMAIN entries \cup {s} |-> IF t = s THEN v ELSE entries[t]]

NoCall == [plan |-> "area", mode |-> "reuse", op |-> "prefetch", stored |-> Nothing,
           valid |-> Nothing, complete |-> FALSE, todo |-> {}, etag |-> None,
           records |-> Nothing, alone |-> TRUE]

Init ==
    /\ archive = 1
    /\ file = [s \in Station |-> None]
    /\ manifest = [entries |-> Nothing, complete |-> FALSE]
    /\ output = [plan \in Plan |-> None]
    /\ pc = [p \in Proc |-> "idle"] /\ call = [p \in Proc |-> NoCall]

Running(p) == pc[p] \notin {"idle", "done"}
Goto(p, l) == pc' = [pc EXCEPT ![p] = l]
Raise(p) == Goto(p, "idle") /\ call' = [call EXCEPT ![p] = NoCall]
ByName(p) == call[p].plan = "station"

-----------------------------------------------------------------------------
\* `alone` is a history variable: no other call ran during this one.
Start(p) ==
    /\ pc[p] = "idle"
    /\ \E plan \in Plan, mode \in IF p \in Makers THEN Mode ELSE {"reuse", "refresh"},
          op \in IF p \in Makers THEN Op ELSE {"prefetch"} :
        call' = [q \in Proc |->
            IF q = p THEN [NoCall EXCEPT !.plan = plan, !.mode = mode, !.op = op,
                                         !.alone = \A r \in Proc \ {p} : ~Running(r)]
            ELSE [call[q] EXCEPT !.alone = @ /\ pc[q] = "idle"]]
    /\ Goto(p, "output")
    /\ UNCHANGED <<archive, disk>>

\* ensure_materialized serves an output that is there: pinned bytes do not change.
Served(p) ==
    /\ pc[p] = "output"
    /\ IF call[p].op = "ensure" /\ call[p].mode # "refresh" /\ output[call[p].plan] # None
       THEN /\ call' = [call EXCEPT ![p].records = output[call[p].plan]]
            /\ Goto(p, "done")
       ELSE Goto(p, "look") /\ UNCHANGED call
    /\ UNCHANGED <<archive, disk>>

\* An area wants every station that is stored.
Wanted(p) == IF ByName(p) THEN {Named} ELSE DOMAIN manifest.entries

Valid(p) ==
    LET good == {s \in Wanted(p) \cap DOMAIN manifest.entries :
                    file[s] # None /\ file[s] = manifest.entries[s]} IN
    [s \in good |-> manifest.entries[s]]

\* Mutation of Fetches: what is stored is all there is.
FetchesMissing(p) == call[p].mode = "refresh" \/ Wanted(p) # DOMAIN Valid(p) \/ Wanted(p) = {}

\* Stations that are missing or damaged, or a province never read completely.
Fetches(p) ==
    \/ call[p].mode = "refresh"
    \/ Wanted(p) # DOMAIN Valid(p)
    \/ ~ByName(p) /\ ~manifest.complete

\* The manifest is read and its files are verified.
Look(p) ==
    /\ pc[p] = "look"
    /\ IF ~Fetches(p)
       THEN call' = [call EXCEPT ![p].valid = Valid(p)] /\ Goto(p, "read")
       ELSE IF call[p].mode = "offline" THEN Raise(p)
       ELSE /\ call' = [call EXCEPT ![p].stored = manifest.entries, ![p].valid = Valid(p),
                                    ![p].complete = manifest.complete,
                                    ![p].todo = IF ByName(p) THEN {Named} ELSE Station]
            /\ Goto(p, "open")
    /\ UNCHANGED <<archive, disk>>

\* Every later range request is for the archive that is there now.
Open(p) ==
    /\ pc[p] = "open"
    /\ call' = [call EXCEPT ![p].etag = archive]
    /\ Goto(p, "fetch")
    /\ UNCHANGED <<archive, disk>>

\* Mutation of SamePin: the bytes replace what was pinned.
SamePinNever(p, s) == call[p].etag \in Version

\* Bytes pinned by an entry read at the start must not have changed.
SamePin(p, s) == s \in DOMAIN call[p].stored => call[p].stored[s] = call[p].etag

\* One station: read (If-Match fails if the archive has changed and the bytes
\* were not read ahead: Fails), compared, staged and renamed.
Fetch(p) ==
    /\ pc[p] = "fetch" /\ call[p].todo # {}
    /\ LET s == CHOOSE s \in call[p].todo : TRUE IN
        IF SamePin(p, s)
        THEN /\ file' = [file EXCEPT ![s] = call[p].etag]
             /\ call' = [call EXCEPT ![p].todo = @ \ {s},
                                     ![p].stored = With(@, s, call[p].etag),
                                     ![p].valid = With(@, s, call[p].etag)]
             /\ UNCHANGED pc
        ELSE Raise(p) /\ UNCHANGED file
    /\ UNCHANGED <<archive, manifest, output>>

\* The locals that are not used again.
Forgets(p) == [call EXCEPT ![p].stored = Nothing, ![p].etag = None, ![p].complete = FALSE]

\* Mutation of WriteManifest: the entries go to the manifest that is there.
WriteManifestMerged(p) ==
    /\ pc[p] = "fetch" /\ call[p].todo = {}
    /\ manifest' = [entries |-> call[p].stored,
                    complete |-> manifest.complete \/ ~ByName(p)]
    /\ call' = Forgets(p)
    /\ Goto(p, "read")
    /\ UNCHANGED <<archive, file, output>>

\* The entries read at the start, the fetched ones and the flag replace it whole.
WriteManifest(p) ==
    /\ pc[p] = "fetch" /\ call[p].todo = {}
    /\ manifest' = [entries |-> call[p].stored,
                    complete |-> call[p].complete \/ ~ByName(p)]
    /\ call' = Forgets(p)
    /\ Goto(p, "read")
    /\ UNCHANGED <<archive, file, output>>

\* The files are parsed, and the stations outside the area left out.
Records(p) ==
    [s \in IF ByName(p) THEN {Named} ELSE DOMAIN call[p].valid \cap InArea |-> file[s]]

Read(p) ==
    LET records == Records(p) IN
    /\ pc[p] = "read"
    /\ IF DOMAIN records = {} \/ (\E s \in DOMAIN records : records[s] = None) THEN Raise(p)
       ELSE /\ call' = [call EXCEPT ![p].records = records]
            /\ Goto(p, IF call[p].op = "ensure" THEN "fit" ELSE "done")
    /\ UNCHANGED <<archive, disk>>

\* The records are fitted into a staged output, which is renamed.
Materialize(p) ==
    /\ pc[p] = "fit"
    /\ output' = [output EXCEPT ![call[p].plan] = call[p].records]
    /\ Goto(p, "done")
    /\ UNCHANGED <<archive, file, manifest, call>>

\* The archive or the disk fails, or the process is killed.
Fails(p) == Running(p) /\ Raise(p) /\ UNCHANGED <<archive, disk>>

Return(p) == pc[p] = "done" /\ Raise(p) /\ UNCHANGED <<archive, disk>>

\* Somebody removes a file while no call runs.
Lose ==
    /\ \A p \in Proc : ~Running(p)
    /\ \E s \in Station : file' = [file EXCEPT ![s] = None]
    /\ call' = [p \in Proc |-> [call[p] EXCEPT !.alone = @ /\ pc[p] = "idle"]]
    /\ UNCHANGED <<archive, manifest, output, pc>>

Republish ==
    /\ archive < MaxVersion /\ archive' = archive + 1
    /\ UNCHANGED <<disk, pc, call>>

Step(p) ==
    \/ Served(p) \/ Look(p) \/ Open(p) \/ Fetch(p) \/ WriteManifest(p)
    \/ Read(p) \/ Materialize(p) \/ Fails(p)

Next ==
    \/ \E p \in Proc : Start(p) \/ Step(p) \/ Return(p)
    \/ Lose \/ Republish

Spec == Init /\ [][Next]_vars

-----------------------------------------------------------------------------
\* A province said to be complete is: the unlocked writes can lose entries, but
\* never some of a complete province's and not the flag.
CompleteIsComplete == manifest.complete => DOMAIN manifest.entries = Station

\* So no call for an area misses one of its stations, whoever else fills the
\* directory, and an output that is served has them all.
AreaIsWhole ==
    \A p \in Proc : pc[p] = "done" /\ ~ByName(p) => DOMAIN call[p].records = InArea

\* A call that fetched or verified its stations with the directory to itself,
\* whatever earlier calls left, used the bytes of the entries.
RecordsAreTheEntries ==
    \A p \in Proc : pc[p] = "done" /\ call[p].alone /\ call[p].valid # Nothing =>
        \A s \in DOMAIN call[p].records :
            call[p].records[s] = call[p].valid[s] /\ manifest.entries[s] = call[p].valid[s]

\* These together, of the rainfall cache.
StationsAreWhole == CompleteIsComplete /\ AreaIsWhole /\ RecordsAreTheEntries

\* The pinned bytes of a station are changed by no call that has the directory to
\* itself: two first calls that overlap can pin different bytes.
PinsAreKept ==
    [][\A s \in DOMAIN manifest.entries \cap DOMAIN manifest'.entries :
        manifest'.entries[s] # manifest.entries[s] =>
            \E p \in Proc : pc[p] = "fetch" /\ ~call[p].alone]_vars

-----------------------------------------------------------------------------
(***************************************************************************)
(* The inductive invariant: why the properties hold.                       *)
(***************************************************************************)

\* Some stations and their pinned bytes.
Pins == UNION {[S -> Version] : S \in SUBSET Station}

Call == [plan : Plan, mode : Mode, op : Op, stored : Pins, valid : Pins, complete : BOOLEAN,
         todo : SUBSET Station, etag : Version \cup {None}, records : Pins, alone : BOOLEAN]

TypeOK ==
    /\ archive \in Version
    /\ file \in [Station -> Version \cup {None}]
    /\ manifest \in [entries : Pins, complete : BOOLEAN]
    /\ output \in [Plan -> Pins \cup {None}]
    /\ pc \in [Proc -> {"idle", "output", "look", "open", "fetch", "read", "fit", "done"}]
    /\ call \in [Proc -> Call]
    /\ \A p \in Proc : pc[p] = "fetch" => call[p].etag \in Version

\* What a plan wants when it fetches.
Asked(p) == IF ByName(p) THEN {Named} ELSE Station

\* A call fetches every station it asked for; the entries it will write have
\* them too, and all of a province that was complete.
FetchesWhatItAsked ==
    \A p \in Proc : pc[p] \in {"open", "fetch"} =>
        /\ call[p].complete => DOMAIN call[p].stored = Station
        /\ Asked(p) \ call[p].todo \subseteq DOMAIN call[p].stored \cap DOMAIN call[p].valid

\* It reads all the stations of its plan, and keeps them.
ReadsWhatItAsked ==
    /\ \A p \in Proc :
        /\ pc[p] \in {"idle", "output", "look"} => call[p].valid = Nothing
        /\ pc[p] = "read" => Asked(p) \subseteq DOMAIN call[p].valid
        /\ pc[p] = "fit" /\ ~ByName(p) => DOMAIN call[p].records = InArea
    /\ output["area"] # None => DOMAIN output["area"] = InArea

\* While a call is alone no other one is under way ...
AloneIsAlone ==
    \A p \in Proc : call[p].alone /\ pc[p] # "idle" => \A q \in Proc \ {p} : ~Running(q)

\* ... so that the entries it will write agree with the ones that are pinned, ...
AloneKeepsPins ==
    \A p \in Proc : call[p].alone /\ pc[p] \in {"open", "fetch"} =>
        \A s \in DOMAIN manifest.entries :
            s \in DOMAIN call[p].stored /\ call[p].stored[s] = manifest.entries[s]

\* ... and what it verified, fetched and read is in the files and in the manifest.
AloneUsesEntries ==
    \A p \in Proc : call[p].alone =>
        /\ pc[p] \in {"open", "fetch"} =>
            \A s \in DOMAIN call[p].valid :
                /\ s \in DOMAIN call[p].stored /\ call[p].stored[s] = call[p].valid[s]
                /\ file[s] = call[p].valid[s]
        /\ pc[p] = "read" =>
            \A s \in DOMAIN call[p].valid :
                manifest.entries[s] = call[p].valid[s] /\ file[s] = call[p].valid[s]
        /\ pc[p] \in {"fit", "done"} /\ call[p].valid # Nothing =>
            \A s \in DOMAIN call[p].records :
                call[p].records[s] = call[p].valid[s] /\ manifest.entries[s] = call[p].valid[s]

IInv ==
    /\ TypeOK /\ FetchesWhatItAsked /\ ReadsWhatItAsked /\ CompleteIsComplete /\ AreaIsWhole
    /\ AloneIsAlone /\ AloneKeepsPins /\ AloneUsesEntries

=============================================================================
