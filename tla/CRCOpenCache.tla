---------------------------- MODULE CRCOpenCache ----------------------------
(***************************************************************************)
(* The cache of a CRC Open release (workflows/crc_open.py): a catalogue    *)
(* pinned by the manifest, whole partitions named by the catalogue, and an *)
(* output with a receipt.  Nothing is locked: the catalogue, the manifest, *)
(* the partitions, the output and the receipt are replaced one by one.     *)
(*                                                                         *)
(* The publisher promises not to change a release.  It is modelled as one  *)
(* that may, since the code checks for it.  Stream mode works in a private *)
(* directory and is left out.                                              *)
(***************************************************************************)
EXTENDS Naturals, FiniteSets

CONSTANTS
    Proc,           \* processes sharing the cache directory
    Makers,         \* the ones that also make the output
    Part,           \* the partitions of the request
    MaxVersion,     \* bound on the contents the release has over time
    None            \* a missing file

CRCOpenAssumption ==
    /\ IsFiniteSet(Part) /\ Part # {} /\ MaxVersion \in Nat \ {0} /\ Makers \subseteq Proc
    /\ None \notin Nat /\ None \notin [pin : Nat, resources : [Part -> Nat \cup {None}]]

VARIABLES
    released,   \* the contents of the release now
    catalog,    \* _CATALOG.json
    manifest,   \* [pin, resources], or None
    part,       \* the partition files
    output,     \* the canonical output: the release it was made of, or None
    receipt,    \* whether the receipt next to it has its checksum
    raced,      \* history: two calls once found no manifest at the same time
    pc,         \* where each call is
    call        \* its local variables

disk == <<catalog, manifest, part, output, receipt>>
vars == <<released, disk, raced, pc, call>>

-----------------------------------------------------------------------------
Version == 1..MaxVersion
Mode == {"reuse", "offline", "refresh"}
Op == {"catalog", "prefetch", "ensure"}

\* A partition or an output of a version, and a checksum of one, are the version.
Manifest == [pin : Version, resources : {[q \in Part |-> None]} \cup [Part -> Version]]
NoResources == [q \in Part |-> None]

Label == {"idle", "pin", "fetch", "install", "record", "parts", "update",
          "check", "write", "receipt", "done"}

NoCall == [mode |-> "reuse", op |-> "catalog", read |-> None, version |-> None,
           todo |-> {}, alone |-> TRUE]

Call == [mode : Mode, op : Op, read : Manifest \cup {None}, version : Version \cup {None},
         todo : SUBSET Part, alone : BOOLEAN]

TypeOK ==
    /\ released \in Version /\ catalog \in Version \cup {None}
    /\ manifest \in Manifest \cup {None}
    /\ part \in [Part -> Version \cup {None}]
    /\ output \in Version \cup {None} /\ receipt \in BOOLEAN /\ raced \in BOOLEAN
    /\ receipt => output # None
    /\ pc \in [Proc -> Label] /\ call \in [Proc -> Call]

Init ==
    /\ released = 1
    /\ catalog = None /\ manifest = None
    /\ part = [q \in Part |-> None]
    /\ output = None /\ receipt = FALSE /\ raced = FALSE
    /\ pc = [p \in Proc |-> "idle"]
    /\ call = [p \in Proc |-> NoCall]

-----------------------------------------------------------------------------
Running(p) == pc[p] \notin {"idle", "done"}
Goto(p, l) == pc' = [pc EXCEPT ![p] = l]
\* The exception of a call that fails leaves nothing in memory.
Raise(p) == Goto(p, "idle") /\ call' = [call EXCEPT ![p] = NoCall]

\* `alone` is a history variable: no other call ran during this one.
Start(p) ==
    /\ pc[p] = "idle"
    /\ \E mode \in Mode, op \in IF p \in Makers THEN Op ELSE Op \ {"ensure"} :
        call' = [q \in Proc |->
            IF q = p THEN [NoCall EXCEPT !.mode = mode, !.op = op,
                                         !.alone = \A r \in Proc \ {p} : ~Running(r)]
            ELSE [call[q] EXCEPT !.alone = FALSE]]
    /\ Goto(p, "pin")
    /\ UNCHANGED <<released, disk, raced>>

AfterCatalog(p) == IF call[p].op = "catalog" THEN "done" ELSE "parts"

\* A call that found no manifest and has not recorded one.
Unpinned(p) == pc[p] \in {"fetch", "install", "record"} /\ call[p].read = None

\* The pinned catalogue is served from the cache when the manifest vouches for
\* the file; offline there is nothing else.
Pin(p) ==
    LET cached == manifest # None /\ catalog = manifest.pin IN
    /\ pc[p] = "pin"
    /\ IF cached /\ call[p].mode # "refresh"
       THEN /\ call' = [call EXCEPT ![p].read = manifest, ![p].version = catalog,
                                    ![p].todo = Part]
            /\ Goto(p, AfterCatalog(p)) /\ UNCHANGED raced
       ELSE IF call[p].mode = "offline" THEN Raise(p) /\ UNCHANGED raced
       ELSE /\ call' = [call EXCEPT ![p].read = manifest]
            /\ raced' = (raced \/ (manifest = None /\ \E q \in Proc \ {p} : Unpinned(q)))
            /\ Goto(p, "fetch")
    /\ UNCHANGED <<released, disk>>

\* Mutation of SamePin: only a refresh compares.
SamePinOnRefresh(p, version) ==
    call[p].mode = "refresh" /\ call[p].read # None => version = call[p].read.pin

\* A pinned release must not have changed.
SamePin(p, version) == call[p].read # None => version = call[p].read.pin

\* catalog_bytes: a catalogue that is not the one of _SUCCESS, as when the
\* release changes between the two requests, is refused (Fails).
FetchCatalog(p) ==
    /\ pc[p] = "fetch"
    /\ IF SamePin(p, released)
       THEN /\ call' = [call EXCEPT ![p].version = released]
            /\ Goto(p, "install")
       ELSE Raise(p)
    /\ UNCHANGED <<released, disk, raced>>

InstallCatalog(p) ==
    /\ pc[p] = "install"
    /\ catalog' = call[p].version
    /\ Goto(p, "record")
    /\ UNCHANGED <<released, manifest, part, output, receipt, call, raced>>

\* The resources are the ones of the manifest read at the start.
RecordPin(p) ==
    /\ pc[p] = "record"
    /\ manifest' = [pin |-> call[p].version,
                    resources |-> IF call[p].read = None THEN NoResources
                                  ELSE call[p].read.resources]
    /\ call' = [call EXCEPT ![p].todo = Part, ![p].read = None]
    /\ Goto(p, AfterCatalog(p))
    /\ UNCHANGED <<released, catalog, part, output, receipt, raced>>

-----------------------------------------------------------------------------
\* A partition file of the size and checksum of the catalogue.
Verified(q, version) == part[q] = version

Downloads(p, q) == ~(Verified(q, call[p].version) /\ call[p].mode # "refresh")

\* Mutation of Genuine: only the size is compared.
GenuineBySize(p) == released \in Version

\* download_partition compares the bytes with the size and the checksum of the
\* catalogue before they get their name.
Genuine(p) == released = call[p].version

Partition(p) ==
    /\ pc[p] = "parts" /\ call[p].todo # {}
    /\ LET q == CHOOSE q \in call[p].todo : TRUE IN
        IF ~Downloads(p, q)
        THEN call' = [call EXCEPT ![p].todo = @ \ {q}] /\ UNCHANGED <<pc, part>>
        ELSE IF call[p].mode = "offline" \/ ~Genuine(p)
        THEN Raise(p) /\ UNCHANGED part
        ELSE /\ part' = [part EXCEPT ![q] = released]
             /\ call' = [call EXCEPT ![p].todo = @ \ {q}] /\ UNCHANGED pc
    /\ UNCHANGED <<released, catalog, manifest, output, receipt, raced>>

\* The manifest is read again ...
ReadManifest(p) ==
    /\ pc[p] = "parts" /\ call[p].todo = {}
    /\ call' = [call EXCEPT ![p].read = manifest]
    /\ Goto(p, "update")
    /\ UNCHANGED <<released, disk, raced>>

\* ... and written back with the request's resources.
UpdateManifest(p) ==
    /\ pc[p] = "update"
    /\ manifest' = [call[p].read EXCEPT !.resources = [q \in Part |-> call[p].version]]
    /\ call' = [call EXCEPT ![p].read = None]
    /\ Goto(p, IF call[p].op = "prefetch" THEN "done" ELSE "check")
    /\ UNCHANGED <<released, catalog, part, output, receipt, raced>>

-----------------------------------------------------------------------------
\* Mutation of CheckReceipt: the output is served as it is.
CheckOutput(p) ==
    /\ pc[p] = "check"
    /\ Goto(p, IF call[p].mode # "refresh" /\ output = call[p].version THEN "done" ELSE "write")
    /\ UNCHANGED <<released, disk, raced, call>>

\* The output is served if its receipt vouches for it and it was made of the
\* pinned catalogue, and is made again otherwise.
CheckReceipt(p) ==
    /\ pc[p] = "check"
    /\ Goto(p, IF call[p].mode # "refresh" /\ receipt /\ output = call[p].version
               THEN "done" ELSE "write")
    /\ UNCHANGED <<released, disk, raced, call>>

\* It is written in a scratch directory and renamed: no two outputs have the
\* same bytes (retrieved_at), so a receipt there is was another's.
WriteOutput(p) ==
    /\ pc[p] = "write"
    /\ output' = call[p].version /\ receipt' = FALSE
    /\ Goto(p, "receipt")
    /\ UNCHANGED <<released, catalog, manifest, part, call, raced>>

\* The receipt is taken of the output that is there.
WriteReceipt(p) ==
    /\ pc[p] = "receipt"
    /\ receipt' = TRUE
    /\ Goto(p, "done")
    /\ UNCHANGED <<released, catalog, manifest, part, output, call, raced>>

\* The source or the disk fails, or a partition disagrees with the catalogue,
\* or the process is killed; a receipt it was writing may be cut short.
Fails(p) ==
    /\ Running(p) /\ Raise(p)
    /\ receipt' \in IF pc[p] = "receipt" THEN {receipt, FALSE} ELSE {receipt}
    /\ UNCHANGED <<released, catalog, manifest, part, output, raced>>

Return(p) == pc[p] = "done" /\ Raise(p) /\ UNCHANGED <<released, disk, raced>>

\* Somebody removes or damages a file while no call runs.
Lose ==
    /\ \A p \in Proc : ~Running(p)
    /\ \/ catalog' = None /\ UNCHANGED part
       \/ \E q \in Part : part' = [part EXCEPT ![q] = None] /\ UNCHANGED catalog
    /\ call' = [p \in Proc |-> [call[p] EXCEPT !.alone = FALSE]]
    /\ UNCHANGED <<released, manifest, output, receipt, pc, raced>>

Republish ==
    /\ released < MaxVersion
    /\ released' = released + 1
    /\ UNCHANGED <<disk, raced, pc, call>>

Step(p) ==
    \/ Pin(p) \/ FetchCatalog(p) \/ InstallCatalog(p) \/ RecordPin(p)
    \/ Partition(p) \/ ReadManifest(p) \/ UpdateManifest(p)
    \/ CheckReceipt(p) \/ WriteOutput(p) \/ WriteReceipt(p) \/ Fails(p)

Next ==
    \/ \E p \in Proc : Start(p) \/ Step(p) \/ Return(p)
    \/ Lose \/ Republish

Spec == Init /\ [][Next]_vars

-----------------------------------------------------------------------------
\* Unless two first calls overlapped, a pin that is recorded never changes: no
\* later call accepts other contents for the release, whatever became of the
\* cached catalogue.
PinIsKept ==
    [][manifest # None /\ ~raced' => manifest' # None /\ manifest'.pin = manifest.pin]_vars

\* Unless they did, the unlocked writes keep the directory of one release: the
\* catalogue, the partitions and the listed resources are those of the pin.
OneRelease ==
    manifest # None /\ ~raced =>
        /\ catalog \in {manifest.pin, None}
        /\ \A q \in Part : /\ part[q] \in {manifest.pin, None}
                            /\ manifest.resources[q] \in {manifest.pin, None}

\* A call that succeeds with the cache to itself, whatever earlier calls left,
\* leaves a cache whose parts vouch for one another: it can be repeated offline.
SucceededAloneIsReproducible ==
    \A p \in Proc : pc[p] = "done" /\ call[p].alone =>
        /\ manifest # None /\ catalog = manifest.pin /\ catalog = call[p].version
        /\ call[p].op # "catalog" => \A q \in Part : part[q] = catalog
        /\ call[p].op = "ensure" => receipt /\ output = catalog

-----------------------------------------------------------------------------
(***************************************************************************)
(* The inductive invariant: why the properties hold.                       *)
(***************************************************************************)

Pinning == {"fetch", "install", "record"}
Pinned == {"parts", "update", "check", "write", "receipt", "done"}

\* Before there is a manifest no call is past pinning, and no partition is there.
NothingIsPinnedYet ==
    manifest = None =>
        /\ \A q \in Part : part[q] = None
        /\ \A p \in Proc : pc[p] \notin Pinned /\ call[p].read = None

\* What a call has when it needs it.
CallsHaveWhatTheyUse ==
    \A p \in Proc :
        /\ pc[p] \in {"install", "record"} \cup Pinned => call[p].version \in Version
        /\ pc[p] = "update" => call[p].read # None
        /\ pc[p] = "receipt" => output # None

\* Unless first calls overlapped, there is one of them until there is a manifest ...
FirstCallIsOne ==
    ~raced => \A p \in Proc : Unpinned(p) =>
        /\ manifest = None
        /\ \A q \in Proc \ {p} : ~Unpinned(q)
        /\ pc[p] = "record" => catalog = call[p].version

\* ... and every later call is of the pin that is recorded.
CallsAreOfThePin ==
    ~raced => \A p \in Proc :
        /\ pc[p] \in Pinning \cup {"update"} /\ call[p].read # None =>
            /\ call[p].read.pin = manifest.pin
            /\ \A q \in Part : call[p].read.resources[q] \in {manifest.pin, None}
        /\ pc[p] \in {"install", "record"} /\ call[p].read # None =>
            call[p].version = manifest.pin
        /\ pc[p] \in Pinned => call[p].version = manifest.pin

AloneIsAlone ==
    \A p \in Proc : call[p].alone /\ pc[p] # "idle" => \A q \in Proc \ {p} : ~Running(q)

\* A call that is alone has in memory what is on disk, whatever it found there.
AloneIsOfThePin ==
    \A p \in Proc : call[p].alone =>
        /\ pc[p] \in Pinning => call[p].read = manifest
        /\ pc[p] \in {"install", "record"} /\ manifest # None =>
            call[p].version = manifest.pin
        /\ pc[p] = "record" => catalog = call[p].version
        /\ pc[p] \in Pinned =>
            /\ manifest # None /\ catalog = manifest.pin /\ catalog = call[p].version
        /\ pc[p] = "update" => call[p].read = manifest

\* It has the partitions it has been through, and then all, and its output.
AloneHasItsParts ==
    \A p \in Proc : call[p].alone =>
        /\ pc[p] = "parts" => \A q \in Part \ call[p].todo : part[q] = call[p].version
        /\ pc[p] \in Pinned \ {"parts"} /\ call[p].op # "catalog" =>
            \A q \in Part : part[q] = call[p].version
        /\ pc[p] = "receipt" => output = call[p].version
        /\ pc[p] = "done" /\ call[p].op = "ensure" => receipt /\ output = call[p].version

IInv ==
    /\ TypeOK /\ NothingIsPinnedYet /\ CallsHaveWhatTheyUse /\ FirstCallIsOne
    /\ CallsAreOfThePin /\ OneRelease /\ AloneIsAlone /\ AloneIsOfThePin /\ AloneHasItsParts

=============================================================================
