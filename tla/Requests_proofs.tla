-------------------------- MODULE Requests_proofs --------------------------
(***************************************************************************)
(* What a request gets, for any inputs. Safety of the CMIP6 calls on one   *)
(* cache, for any processes, years, grids and requests: one dataset per    *)
(* result, no way around a strict licence, and no mixing in calls that     *)
(* resolve their dataset. Then the pure parts: the rows a CRC Open plan    *)
(* writes, of any release; the limits and connections of DuckDB, on any    *)
(* host; the curves an ingest policy publishes and the failures it         *)
(* records; the rows of a portfolio; the windows, strips and samples of a  *)
(* raster; curves censored at a bound; and the values of rows of curves.   *)
(***************************************************************************)
EXTENDS DatasetYears, MCAlgorithms, FiniteSetTheorems, SequenceTheorems, TLAPS

\* A raster with pixels of any size.
CONSTANTS
    Unit,       \* the edge of a pixel
    Epsilon     \* the slack of a window
Scan == INSTANCE RasterScan


\* The idle call is one of the calls.
LEMMA NoCallIsCall == NoCall \in Call
<1>1. PICK r \in Request : TRUE BY DatasetYearsAssumption
<1>2. [request |-> r, mode |-> "reuse", strict |-> FALSE, materialize |-> FALSE] \in Call
    BY <1>1 DEF Call
<1> QED BY <1>2 DEF NoCall

\* The catalogue resolves a request to a dataset that matches it.
LEMMA ResolutionMatches ==
    ASSUME NEW r \in Request
    PROVE  Resolution(r) \in Dataset /\ Matches(Resolution(r), r)
<1>1. /\ r.grid \in Grid \cup {AnyGrid}
      /\ r.version \in 1..MaxVersion \cup {Latest}
      /\ PreferredGrid \in Grid /\ AnyGrid \notin Grid
      /\ MaxVersion \in 1..MaxVersion
    BY DatasetYearsAssumption
<1>2. Resolution(r).grid \in Grid /\ r.grid \in {AnyGrid, Resolution(r).grid}
    BY <1>1 DEF Resolution
<1>3. Resolution(r).version \in Version /\ r.version \in {Latest, Resolution(r).version}
    BY <1>1 DEF Resolution, Version
<1>4. Resolution(r) \in [grid : Grid, version : Version]
    BY <1>2, <1>3 DEF Resolution
<1> QED BY <1>2, <1>3, <1>4 DEF Dataset, Matches

\* A call asks for some years.
LEMMA YearsAreYears ==
    ASSUME TypeOK, NEW p \in Proc
    PROVE  call[p].request \in Request /\ Years(p) \subseteq Year /\ Years(p) # {}
<1>1. call[p].request \in Request BY DEF TypeOK, Call
<1>2. \A r \in Request : r.years \in (SUBSET Year) \ {{}} BY DatasetYearsAssumption
<1>3. Years(p) \in (SUBSET Year) \ {{}} BY <1>1, <1>2, Zenon DEF Years
<1> QED BY <1>1, <1>3

\* The invariant holds in an empty cache.
LEMMA InitIInv == Init => IInv
<1> SUFFICES ASSUME Init PROVE IInv
    OBVIOUS
<1>1. TypeOK BY NoCallIsCall DEF Init, TypeOK, Idle
<1>2. FoundIsRecorded /\ ResolvedIsKept /\ OutputMatches
    BY DEF Init, FoundIsRecorded, ResolvedIsKept, OutputMatches
<1>3. OneDataset /\ StrictIsStrict /\ ResolvedCallIsUniform
    BY DEF Init, OneDataset, StrictIsStrict, ResolvedCallIsUniform
<1> QED BY <1>1, <1>2, <1>3 DEF IInv

-----------------------------------------------------------------------------
(***************************************************************************)
(* Types.                                                                  *)
(***************************************************************************)

\* No step of any process leaves the types.
LEMMA StepTypeOK ==
    ASSUME TypeOK, ResolvedIsKept, Next
    PROVE  TypeOK'
<1> USE DEF TypeOK, Idle
<1>1. ASSUME NEW p \in Proc, Start(p) PROVE TypeOK'
    <2>1. PICK c \in Call :
            LET reuse == c.materialize /\ c.mode # "refresh" /\ output[c.request] # NoDataset
            IN
            /\ call' = [call EXCEPT ![p] = c]
            /\ dataset' = [dataset EXCEPT ![p] = IF reuse THEN output[c.request] ELSE NoDataset]
            /\ pc' = [pc EXCEPT ![p] =
                        IF ~reuse THEN "look"
                        ELSE IF CheckReuse(output[c.request], c) THEN "failed" ELSE "done"]
        BY <1>1 DEF Start
    <2>2. c.request \in Request BY <2>1 DEF Call
    <2>3. output[c.request] \in Dataset \cup {NoDataset} BY <2>2
    <2>4. call' \in [Proc -> Call] /\ dataset' \in [Proc -> Dataset \cup {NoDataset}]
        BY <2>1, <2>3
    <2>5. pc' \in [Proc -> Idle \cup {"look", "decide", "fetch", "fit"}] BY <2>1
    <2> QED BY <1>1, <2>4, <2>5 DEF Start
<1>2. ASSUME NEW p \in Proc, Look(p) PROVE TypeOK'
    BY <1>2 DEF Look
<1>3. ASSUME NEW p \in Proc, ServeFromCache(p) PROVE TypeOK'
    BY <1>3 DEF ServeFromCache, Prepared
<1>4. ASSUME NEW p \in Proc, OfflineMissing(p) PROVE TypeOK'
    BY <1>4 DEF OfflineMissing
<1>5. ASSUME NEW p \in Proc, Resolve(p) PROVE TypeOK'
    <2>1. Resolution(call[p].request) \in Dataset BY YearsAreYears, ResolutionMatches
    <2>2. found' \in [Proc -> [Year -> Dataset \cup {NoDataset}]]
        BY <1>5, <2>1 DEF Resolve, SameDataset
    <2> QED BY <1>5, <2>1, <2>2 DEF Resolve
<1>6. ASSUME NEW p \in Proc, FetchAndMerge(p) PROVE TypeOK'
    <2>1. dataset[p] \in Dataset BY <1>6 DEF FetchAndMerge, ResolvedIsKept
    <2>2. entry' \subseteq Dataset \X Year
        BY <1>6, <2>1, YearsAreYears DEF FetchAndMerge
    <2>3. found' \in [Proc -> [Year -> Dataset \cup {NoDataset}]]
        BY <1>6, <2>1 DEF FetchAndMerge
    <2>4. pc' \in [Proc -> Idle \cup {"look", "decide", "fetch", "fit"}]
        BY <1>6 DEF FetchAndMerge, Prepared
    <2> QED BY <1>6, <2>2, <2>3, <2>4 DEF FetchAndMerge
<1>7. ASSUME NEW p \in Proc, NetworkFails(p) PROVE TypeOK'
    BY <1>7 DEF NetworkFails
<1>8. ASSUME NEW p \in Proc, PublishOutput(p) PROVE TypeOK'
    BY <1>8, YearsAreYears DEF PublishOutput
<1>9. ASSUME NEW p \in Proc, FitFails(p) PROVE TypeOK'
    BY <1>9 DEF FitFails
<1>10. ASSUME NEW p \in Proc, Return(p) PROVE TypeOK'
    BY <1>10, NoCallIsCall DEF Return
<1> QED BY <1>1, <1>2, <1>3, <1>4, <1>5, <1>6, <1>7, <1>8, <1>9, <1>10 DEF Next

-----------------------------------------------------------------------------
(***************************************************************************)
(* What a call found, resolved and serves.                                 *)
(***************************************************************************)

\* A fitted output is handed back only if the licence allows it.
LEMMA StartIInv ==
    ASSUME IInv, TypeOK', NEW p \in Proc, Start(p)
    PROVE  IInv'
<1> USE DEF IInv, TypeOK
<1>1. PICK c \in Call :
        LET reuse == c.materialize /\ c.mode # "refresh" /\ output[c.request] # NoDataset
        IN
        /\ call' = [call EXCEPT ![p] = c]
        /\ dataset' = [dataset EXCEPT ![p] = IF reuse THEN output[c.request] ELSE NoDataset]
        /\ pc' = [pc EXCEPT ![p] =
                    IF ~reuse THEN "look"
                    ELSE IF CheckReuse(output[c.request], c) THEN "failed" ELSE "done"]
    BY DEF Start
<1>2. /\ pc[p] = "idle" /\ UNCHANGED <<entry, output, found, resolved>>
      /\ pc'[p] \in {"look", "failed", "done"} /\ call'[p] = c
    BY <1>1 DEF Start
<1>3. \A q \in Proc \ {p} : pc'[q] = pc[q] /\ call'[q] = call[q] /\ dataset'[q] = dataset[q]
    BY <1>1
<1>4. pc'[p] = "done" =>
        Matches(dataset'[p], call'[p].request) /\ ~LicenceRefuses(dataset'[p], call'[p])
    <2> HAVE pc'[p] = "done"
    <2>1. output[c.request] # NoDataset /\ ~CheckReuse(output[c.request], c)
        BY <1>1
    <2>2. c.request \in Request BY DEF Call
    <2>3. dataset'[p] = output[c.request] BY <1>1, <2>1
    <2>4. Matches(output[c.request], c.request) BY <2>1, <2>2 DEF OutputMatches
    <2> QED BY <1>2, <2>1, <2>3, <2>4 DEF CheckReuse
<1>5. FoundIsRecorded' BY <1>2, <1>3 DEF FoundIsRecorded, Years
<1>6. ResolvedIsKept' BY <1>2, <1>3 DEF ResolvedIsKept
<1>7. OneDataset' BY <1>2, <1>3, <1>4 DEF OneDataset, Years
<1>8. StrictIsStrict' BY <1>2, <1>3, <1>4 DEF StrictIsStrict
<1>9. ResolvedCallIsUniform' BY <1>2, <1>3 DEF ResolvedCallIsUniform
<1>10. OutputMatches' BY <1>2 DEF OutputMatches
<1> QED BY <1>5, <1>6, <1>7, <1>8, <1>9, <1>10

\* What is found matches the request and is recorded.
LEMMA LookIInv ==
    ASSUME IInv, TypeOK', NEW p \in Proc, Look(p)
    PROVE  IInv'
<1> USE DEF IInv, TypeOK
<1>1. /\ pc[p] = "look" /\ pc'[p] = "decide"
      /\ UNCHANGED <<entry, output, call, dataset, resolved>>
      /\ \A q \in Proc \ {p} : pc'[q] = pc[q] /\ found'[q] = found[q]
    BY DEF Look
<1>2. \A y \in Year : found'[p][y] # NoDataset =>
        y \in Years(p) /\ <<found'[p][y], y>> \in entry /\ Matches(found'[p][y], call[p].request)
    BY DEF Look, Newest, Years
<1>3. FoundIsRecorded' BY <1>1, <1>2 DEF FoundIsRecorded, Years
<1>4. ResolvedIsKept' BY <1>1 DEF ResolvedIsKept
<1>5. OneDataset' BY <1>1 DEF OneDataset, Years
<1>6. StrictIsStrict' BY <1>1 DEF StrictIsStrict
<1>7. ResolvedCallIsUniform' BY <1>1 DEF ResolvedCallIsUniform
<1>8. OutputMatches' BY <1>1 DEF OutputMatches
<1> QED BY <1>3, <1>4, <1>5, <1>6, <1>7, <1>8

\* A call served from the cache serves the one dataset of its years.
LEMMA ServeIInv ==
    ASSUME IInv, TypeOK', NEW p \in Proc, ServeFromCache(p)
    PROVE  IInv'
<1> USE DEF IInv, TypeOK
<1>1. /\ pc[p] = "decide" /\ pc'[p] \in {"failed", "fit", "done", "spans"}
      /\ UNCHANGED <<entry, output, call, found, resolved>>
      /\ \A q \in Proc \ {p} : pc'[q] = pc[q] /\ dataset'[q] = dataset[q]
    BY DEF ServeFromCache, Prepared
<1>2. ASSUME pc'[p] \in {"fit", "done"}
      PROVE  /\ dataset'[p] \in Dataset /\ ~LicenceRefuses(dataset'[p], call[p])
             /\ \A y \in Years(p) : found[p][y] = dataset'[p]
    <2>1. PICK d \in Dataset :
            /\ Identities(p) = {d}
            /\ dataset' = [dataset EXCEPT ![p] = d]
            /\ pc' = [pc EXCEPT ![p] =
                        IF LicenceRefuses(d, call[p]) THEN "failed" ELSE Prepared(p)]
        BY <1>2 DEF ServeFromCache
    <2>2. ~LicenceRefuses(d, call[p]) BY <1>2, <2>1
    <2>3. \A y \in Years(p) : found[p][y] = d BY <2>1 DEF Identities
    <2> QED BY <2>1, <2>2, <2>3
<1>3. ASSUME pc'[p] \in {"fit", "done"}
      PROVE  /\ Matches(dataset'[p], call[p].request)
             /\ \A y \in Years(p) : <<dataset'[p], y>> \in entry
    <2>1. Years(p) \subseteq Year /\ Years(p) # {} BY YearsAreYears
    <2>2. \A y \in Years(p) :
            <<found[p][y], y>> \in entry /\ Matches(found[p][y], call[p].request)
        BY <1>1, <1>2, <1>3, <2>1, NoDatasetAssumption DEF FoundIsRecorded
    <2> QED BY <1>2, <1>3, <2>1, <2>2
<1>4. FoundIsRecorded' BY <1>1 DEF FoundIsRecorded, Years
<1>5. ResolvedIsKept' BY <1>1, <1>2 DEF ResolvedIsKept
<1>6. OneDataset' BY <1>1, <1>2, <1>3 DEF OneDataset, Years
<1>7. StrictIsStrict' BY <1>1, <1>2 DEF StrictIsStrict
<1>8. ResolvedCallIsUniform' BY <1>1 DEF ResolvedCallIsUniform, ResolvedIsKept
<1>9. OutputMatches' BY <1>1 DEF OutputMatches
<1> QED BY <1>4, <1>5, <1>6, <1>7, <1>8, <1>9

\* A call that resolves keeps only the years of the resolved dataset.
LEMMA ResolveIInv ==
    ASSUME IInv, TypeOK', NEW p \in Proc, Resolve(p)
    PROVE  IInv'
<1> USE DEF IInv, TypeOK
<1> DEFINE d == Resolution(call[p].request)
<1>1. d \in Dataset /\ Matches(d, call[p].request) BY YearsAreYears, ResolutionMatches
<1>2. /\ pc[p] = "decide" /\ pc'[p] = IF LicenceRefuses(d, call[p]) THEN "failed" ELSE "fetch"
      /\ dataset'[p] = d /\ UNCHANGED <<entry, output, call>>
      /\ \A q \in Proc \ {p} : /\ pc'[q] = pc[q] /\ dataset'[q] = dataset[q]
                              /\ found'[q] = found[q] /\ resolved'[q] = resolved[q]
    BY DEF Resolve
<1>3. \A y \in Year : found'[p][y] = IF found[p][y] = d THEN d ELSE NoDataset
    BY DEF Resolve, SameDataset
<1> HIDE DEF d
<1>4. FoundIsRecorded'
    <2> SUFFICES ASSUME NEW q \in Proc, NEW y \in Year,
                        pc'[q] \in {"decide", "fetch", "fit"}, found'[q][y] # NoDataset
                 PROVE  /\ y \in call'[q].request.years /\ <<found'[q][y], y>> \in entry'
                        /\ Matches(found'[q][y], call'[q].request)
        BY DEF FoundIsRecorded, Years
    <2>1. /\ pc[q] \in {"decide", "fetch", "fit"} /\ found'[q][y] = found[q][y]
          /\ entry' = entry /\ call' = call
        <3>1. CASE q = p BY <3>1, <1>2, <1>3
        <3>2. CASE q # p BY <3>2, <1>2
        <3> QED BY <3>1, <3>2
    <2>2. /\ y \in Years(q) /\ <<found[q][y], y>> \in entry
          /\ Matches(found[q][y], call[q].request)
        BY <2>1 DEF FoundIsRecorded
    <2> QED BY <2>1, <2>2 DEF Years
<1>5. ResolvedIsKept' BY <1>1, <1>2, <1>3 DEF ResolvedIsKept
<1>6. OneDataset' BY <1>2 DEF OneDataset, Years
<1>7. StrictIsStrict' BY <1>2 DEF StrictIsStrict
<1>8. ResolvedCallIsUniform' BY <1>2 DEF ResolvedCallIsUniform
<1>9. OutputMatches' BY <1>2 DEF OutputMatches
<1> QED BY <1>4, <1>5, <1>6, <1>7, <1>8, <1>9

\* What is fetched is recorded, and completes the one dataset.
LEMMA FetchIInv ==
    ASSUME IInv, TypeOK', NEW p \in Proc, FetchAndMerge(p)
    PROVE  IInv'
<1> USE DEF IInv, TypeOK
<1>1. /\ pc[p] = "fetch" /\ UNCHANGED <<output, call, dataset, resolved>>
      /\ entry' = entry \cup {<<dataset[p], y>> : y \in Years(p)}
      /\ \A q \in Proc \ {p} : pc'[q] = pc[q] /\ found'[q] = found[q]
    BY DEF FetchAndMerge
<1>2. /\ dataset[p] \in Dataset
      /\ Matches(dataset[p], call[p].request) /\ ~LicenceRefuses(dataset[p], call[p])
      /\ \A y \in Year : found[p][y] \in {dataset[p], NoDataset}
    BY <1>1 DEF ResolvedIsKept
<1>3. Years(p) \subseteq Year BY YearsAreYears
<1>4. \A y \in Year : found'[p][y] = IF y \in Years(p) /\ found[p][y] = NoDataset
                                     THEN dataset[p] ELSE found[p][y]
    BY DEF FetchAndMerge
<1>5. \A y \in Years(p) : found'[p][y] = dataset[p] BY <1>2, <1>3, <1>4
<1>6. pc'[p] \in {"fit", "done"} BY <1>3, <1>4, <1>5 DEF FetchAndMerge, Prepared
<1>7. \A y \in Years(p) : <<dataset[p], y>> \in entry' BY <1>1
<1>8. FoundIsRecorded'
    <2> SUFFICES ASSUME NEW q \in Proc, NEW y \in Year,
                        pc'[q] \in {"decide", "fetch", "fit"}, found'[q][y] # NoDataset
                 PROVE  /\ y \in Years(q)' /\ <<found'[q][y], y>> \in entry'
                        /\ Matches(found'[q][y], call'[q].request)
        BY DEF FoundIsRecorded
    <2>1. CASE q # p BY <1>1, <2>1 DEF FoundIsRecorded, Years
    <2>2. CASE q = p BY <1>1, <1>2, <1>4, <1>5, <1>7, <2>2 DEF FoundIsRecorded, Years
    <2> QED BY <2>1, <2>2
<1>9. ResolvedIsKept' BY <1>1, <1>2, <1>6 DEF ResolvedIsKept
<1>10. OneDataset'
    <2> SUFFICES ASSUME NEW q \in Proc
                 PROVE  /\ pc'[q] \in {"fit", "done"} => Matches(dataset'[q], call'[q].request)
                        /\ pc'[q] = "fit" => \A y \in Years(q)' :
                             found'[q][y] = dataset'[q] /\ <<dataset'[q], y>> \in entry'
        BY DEF OneDataset
    <2>1. CASE q # p BY <1>1, <2>1 DEF OneDataset, Years
    <2>2. CASE q = p BY <1>1, <1>2, <1>5, <1>7, <2>2 DEF Years
    <2> QED BY <2>1, <2>2
<1>11. StrictIsStrict' BY <1>1, <1>2 DEF StrictIsStrict
<1>12. ResolvedCallIsUniform' BY <1>1, <1>6 DEF ResolvedCallIsUniform
<1>13. OutputMatches' BY <1>1 DEF OutputMatches
<1> QED BY <1>8, <1>9, <1>10, <1>11, <1>12, <1>13

\* The output of a request is made of the dataset its call serves.
LEMMA PublishIInv ==
    ASSUME IInv, TypeOK', NEW p \in Proc, PublishOutput(p)
    PROVE  IInv'
<1> USE DEF IInv, TypeOK
<1>1. /\ pc[p] = "fit" /\ pc'[p] = "done" /\ UNCHANGED <<entry, call, found, dataset, resolved>>
      /\ output' = [output EXCEPT ![call[p].request] = dataset[p]]
      /\ \A q \in Proc \ {p} : pc'[q] = pc[q]
    BY DEF PublishOutput
<1>2. Matches(dataset[p], call[p].request) BY <1>1 DEF OneDataset
<1>3. OutputMatches' BY <1>1, <1>2, YearsAreYears DEF OutputMatches
<1>4. FoundIsRecorded' BY <1>1 DEF FoundIsRecorded, Years
<1>5. ResolvedIsKept' BY <1>1 DEF ResolvedIsKept
<1>6. OneDataset' BY <1>1, <1>2 DEF OneDataset, Years
<1>7. StrictIsStrict' BY <1>1 DEF StrictIsStrict
<1>8. ResolvedCallIsUniform' BY <1>1 DEF ResolvedCallIsUniform
<1> QED BY <1>3, <1>4, <1>5, <1>6, <1>7, <1>8

\* A call that fails or has ended serves nothing.
LEMMA EndIInv ==
    ASSUME IInv, TypeOK', NEW p \in Proc,
           OfflineMissing(p) \/ NetworkFails(p) \/ FitFails(p) \/ Return(p)
    PROVE  IInv'
<1> USE DEF IInv, TypeOK
<1>1. /\ UNCHANGED <<entry, output>> /\ pc'[p] \in {"missing", "failed", "idle"}
      /\ pc'[p] = "idle" => ~resolved'[p]
      /\ \A q \in Proc \ {p} :
            /\ pc'[q] = pc[q] /\ call'[q] = call[q] /\ found'[q] = found[q]
            /\ dataset'[q] = dataset[q] /\ resolved'[q] = resolved[q]
    BY DEF OfflineMissing, NetworkFails, FitFails, Return
<1>2. FoundIsRecorded' BY <1>1 DEF FoundIsRecorded, Years
<1>3. ResolvedIsKept' BY <1>1 DEF ResolvedIsKept
<1>4. OneDataset'
    <2> SUFFICES ASSUME NEW q \in Proc, pc'[q] \in {"fit", "done"}
                 PROVE  /\ Matches(dataset'[q], call'[q].request)
                        /\ pc'[q] = "fit" => \A y \in Years(q)' :
                             found'[q][y] = dataset'[q] /\ <<dataset'[q], y>> \in entry'
        BY DEF OneDataset
    <2>1. q # p BY <1>1
    <2> QED BY <1>1, <2>1 DEF OneDataset, Years
<1>5. StrictIsStrict' BY <1>1 DEF StrictIsStrict
<1>6. ResolvedCallIsUniform' BY <1>1 DEF ResolvedCallIsUniform
<1>7. OutputMatches' BY <1>1 DEF OutputMatches
<1> QED BY <1>2, <1>3, <1>4, <1>5, <1>6, <1>7

-----------------------------------------------------------------------------
\* The invariant holds in every state.
THEOREM Invariance == Spec => []IInv
<1>1. IInv /\ [Next]_vars => IInv'
    <2> SUFFICES ASSUME IInv, [Next]_vars PROVE IInv'
        OBVIOUS
    <2>1. CASE Next
        <3>1. TypeOK' BY <2>1, StepTypeOK DEF IInv
        <3> QED BY <2>1, <3>1, StartIInv, LookIInv, ServeIInv, ResolveIInv, FetchIInv,
                   PublishIInv, EndIInv DEF Next
    <2>2. CASE UNCHANGED vars
        BY <2>2 DEF vars, IInv, TypeOK, FoundIsRecorded, ResolvedIsKept, OutputMatches,
                    OneDataset, StrictIsStrict, ResolvedCallIsUniform, Years
    <2> QED BY <2>1, <2>2
<1> QED BY InitIInv, <1>1, PTL DEF Spec

\* Every result, and every sample an output is fitted to, is made of years of one
\* dataset the request allows, whatever calls of other versions and grids have
\* left in the cache.
THEOREM ResultsAreOfOneDataset == Spec => []OneDataset
<1>1. IInv => OneDataset BY DEF IInv
<1> QED BY Invariance, <1>1, PTL

\* Data under a restrictive licence never reaches a strict call, on any path.
THEOREM StrictLicenceHolds == Spec => []StrictIsStrict
<1>1. IInv => StrictIsStrict BY DEF IInv
<1> QED BY Invariance, <1>1, PTL

\* A call that resolves its dataset never fails on a mixture of cached years.
THEOREM ResolvedCallsAreUniform == Spec => []ResolvedCallIsUniform
<1>1. IInv => ResolvedCallIsUniform BY DEF IInv
<1> QED BY Invariance, <1>1, PTL

-----------------------------------------------------------------------------
(***************************************************************************)
(* The rows of a CRC Open plan.                                            *)
(***************************************************************************)

\* A partition with a row that a plan asks for is not pruned, if it is what the
\* catalogue says it is.
LEMMA WantedIsSelected ==
    ASSUME NEW e, NEW hazard, NEW plan, NEW parent, NEW r \in e.rows,
           Sel!Agrees(e, hazard, parent), Sel!Matches(r, plan)
    PROVE  Sel!MayMatch(e, plan, parent)
<1>1. plan.area # Anything => e.r0 \in Sel!Parents(plan.area, parent)
    BY DEF Sel!Agrees, Sel!Matches, Sel!Parents
<1>2. plan.area # Anything /\ e.cells # Anything => e.cells \cap plan.area # {}
    BY DEF Sel!Agrees, Sel!Matches
<1>3. plan.horizons # Anything /\ e.horizons # {} => plan.horizons \cap e.horizons # {}
    BY DEF Sel!Agrees, Sel!Matches
<1> QED BY <1>1, <1>2, <1>3 DEF Sel!MayMatch

\* The partitions of a hazard that are downloaded for a plan.
Chosen(plan, catalog, parent, name) ==
    {e \in catalog.hazards[name].partitions : Sel!MayMatch(e, plan, parent)}

\* What comes out of a plan that does not fail: of each of its hazards, the rows
\* that match it in the partitions that were chosen, all of them as declared.
LEMMA MaterializedRows ==
    ASSUME NEW plan, NEW catalog, NEW parent,
           Sel!Materialized(plan, catalog, parent) # Error
    PROVE  LET got == Sel!Materialized(plan, catalog, parent) IN
           /\ plan.hazards # {} /\ DOMAIN got = plan.hazards
           /\ plan.hazards \subseteq DOMAIN catalog.hazards
           /\ \A name \in plan.hazards :
                /\ \A e \in Chosen(plan, catalog, parent, name) :
                        Sel!Agrees(e, catalog.hazards[name], parent)
                /\ got[name] = Sel!MatchingRows(Chosen(plan, catalog, parent, name), plan)
                /\ got[name] # {}
<1> DEFINE got == Sel!Materialized(plan, catalog, parent)
           chosen == IF plan = Error \/ plan.hazards = {} THEN Error
                     ELSE Sel!Selection(plan, catalog, parent)
           rows == [name \in DOMAIN chosen |->
                       Sel!Written(plan, catalog.hazards[name], chosen[name], parent)]
<1>1. got = IF chosen = Error THEN Error
            ELSE IF \E name \in DOMAIN rows : rows[name] = Error THEN Error ELSE rows
    BY DEF Sel!Materialized
<1>2. chosen # Error /\ got = rows /\ \A name \in DOMAIN rows : rows[name] # Error
    BY <1>1
<1>3. plan.hazards # {} /\ chosen = Sel!Selection(plan, catalog, parent)
    BY <1>2
<1>4. chosen = [name \in plan.hazards |-> Chosen(plan, catalog, parent, name)]
    BY <1>2, <1>3 DEF Sel!Selection, Sel!Names, Chosen
<1>5. DOMAIN got = plan.hazards /\ plan.hazards \subseteq DOMAIN catalog.hazards
    <2>1. DOMAIN got = plan.hazards
        BY <1>2, <1>4
    <2>2. Sel!Available(plan, catalog)
        BY <1>2, <1>3 DEF Sel!Selection
    <2> QED BY <1>3, <2>1, <2>2 DEF Sel!Available, Sel!Names
<1>6. ASSUME NEW name \in plan.hazards
      PROVE  /\ \A e \in Chosen(plan, catalog, parent, name) :
                    Sel!Agrees(e, catalog.hazards[name], parent)
             /\ got[name] = Sel!MatchingRows(Chosen(plan, catalog, parent, name), plan)
             /\ got[name] # {}
    <2>1. chosen[name] = Chosen(plan, catalog, parent, name) /\ name \in DOMAIN chosen
        BY <1>4
    <2>2. /\ rows[name] = Sel!Written(plan, catalog.hazards[name],
                                          Chosen(plan, catalog, parent, name), parent)
          /\ name \in DOMAIN rows
        BY <2>1
    <2> HIDE DEF rows, chosen
    <2> QED BY <1>2, <2>2 DEF Sel!Written
<1> QED BY <1>3, <1>5, <1>6

\* Whatever the catalogue, the files and the plan, pruning is invisible.
THEOREM PruningKeepsRows ==
    ASSUME NEW plan, NEW catalog, NEW parent, Sel!ErrorIsApart(plan, catalog)
    PROVE  Sel!PruningIsInvisible(plan, catalog, parent)
<1> DEFINE got == Sel!Materialized(plan, catalog, parent)
           honest == \A name \in DOMAIN catalog.hazards :
                        \A e \in catalog.hazards[name].partitions :
                            Sel!Agrees(e, catalog.hazards[name], parent)
           kept(name) == Chosen(plan, catalog, parent, name)
           wanted(name) == Sel!Wanted(plan, catalog.hazards[name])
<1>1. ASSUME NEW name
      PROVE  Sel!MatchingRows(kept(name), plan) \subseteq wanted(name)
    BY DEF Chosen, Sel!Wanted, Sel!MatchingRows
<1>2. ASSUME honest, NEW name \in DOMAIN catalog.hazards
      PROVE  Sel!MatchingRows(kept(name), plan) = wanted(name)
    <2>1. ASSUME NEW r \in wanted(name)
          PROVE  r \in Sel!MatchingRows(kept(name), plan)
        <3>1. PICK e \in catalog.hazards[name].partitions :
                r \in e.rows /\ Sel!Matches(r, plan)
            BY <2>1 DEF Sel!Wanted, Sel!MatchingRows
        <3>2. Sel!Agrees(e, catalog.hazards[name], parent)
            BY <1>2
        <3>3. e \in kept(name)
            BY <3>1, <3>2, WantedIsSelected DEF Chosen
        <3> QED BY <3>1, <3>3 DEF Sel!MatchingRows
    <2> QED BY <1>1, <2>1
<1>3. ASSUME got # Error, NEW name \in DOMAIN got
      PROVE  /\ got[name] # {} /\ got[name] \subseteq wanted(name)
             /\ honest => got[name] = wanted(name)
    <2>1. /\ name \in DOMAIN catalog.hazards /\ got[name] # {}
          /\ got[name] = Sel!MatchingRows(kept(name), plan)
        BY <1>3, MaterializedRows
    <2> HIDE DEF got, honest, kept, wanted
    <2> QED BY <1>1, <1>2, <2>1
<1>4. ASSUME honest, got = Error, plan.hazards # {}, Sel!Available(plan, catalog),
             \A name \in plan.hazards : wanted(name) # {}
      PROVE  FALSE
    <2> DEFINE partitions == UNION {catalog.hazards[name].partitions : name \in DOMAIN catalog.hazards}
               all == UNION {e.rows : e \in partitions}
               chosen == [name \in plan.hazards |-> kept(name)]
               rows == [name \in plan.hazards |->
                           Sel!Written(plan, catalog.hazards[name], kept(name), parent)]
    <2>1. plan.hazards \subseteq DOMAIN catalog.hazards
        BY <1>4 DEF Sel!Available, Sel!Names
    <2>2. ASSUME NEW name \in plan.hazards
          PROVE  /\ kept(name) # {} /\ kept(name) \in SUBSET partitions
                 /\ rows[name] = wanted(name) /\ wanted(name) \in SUBSET all
        <3>1. name \in DOMAIN catalog.hazards
            BY <2>1
        <3>2. Sel!MatchingRows(kept(name), plan) = wanted(name) /\ wanted(name) # {}
            BY <1>2, <1>4, <3>1
        <3>3. kept(name) # {}
            BY <3>2 DEF Sel!MatchingRows
        <3>4. kept(name) \subseteq catalog.hazards[name].partitions
            BY DEF Chosen
        <3>5. \A e \in kept(name) : Sel!Agrees(e, catalog.hazards[name], parent)
            BY <1>4, <3>1, <3>4
        <3>6. rows[name] = wanted(name)
            BY <3>2, <3>5 DEF Sel!Written
        <3>7. kept(name) \subseteq partitions
            BY <3>1, <3>4
        <3>8. wanted(name) \subseteq all
            BY <3>1 DEF Sel!Wanted, Sel!MatchingRows
        <3> QED BY <3>3, <3>6, <3>7, <3>8
    <2> HIDE DEF partitions, all
    <2>3. chosen \in [plan.hazards -> SUBSET partitions] /\ rows \in [plan.hazards -> SUBSET all]
        <3>1. \A name \in plan.hazards : rows[name] \in SUBSET all
            BY <2>2
        <3> QED BY <2>2, <3>1
    <2>4. /\ Error # plan /\ Error # chosen /\ Error # rows
          /\ \A name \in plan.hazards : Error # rows[name]
        <3>1. /\ Error # plan /\ Error \notin SUBSET all
              /\ Error \notin [plan.hazards -> SUBSET partitions]
              /\ Error \notin [plan.hazards -> SUBSET all]
            BY <2>1 DEF Sel!ErrorIsApart, partitions, all
        <3>2. \A name \in plan.hazards : rows[name] \in SUBSET all
            BY <2>2
        <3> QED BY <2>3, <3>1, <3>2
    <2>5. Sel!Selection(plan, catalog, parent) = chosen
        <3>1. [name \in Sel!Names(plan, catalog) |->
                {e \in catalog.hazards[name].partitions : Sel!MayMatch(e, plan, parent)}] = chosen
            BY <1>4 DEF Sel!Names, Chosen
        <3>2. {} \notin {chosen[name] : name \in DOMAIN chosen}
            BY <2>2
        <3> HIDE DEF chosen
        <3> QED BY <1>4, <3>1, <3>2 DEF Sel!Selection
    <2>6. got = rows
        <3>1. [name \in DOMAIN chosen |->
                Sel!Written(plan, catalog.hazards[name], chosen[name], parent)] = rows
            OBVIOUS
        <3>2. DOMAIN rows = plan.hazards
            OBVIOUS
        <3> HIDE DEF chosen, rows
        <3> QED BY <1>4, <2>4, <2>5, <3>1, <3>2 DEF Sel!Materialized
    <2> QED BY <1>4, <2>4, <2>6
<1>5. honest /\ got = Error =>
        \/ plan.hazards = {} \/ ~Sel!Available(plan, catalog)
        \/ \E name \in Sel!Names(plan, catalog) : wanted(name) = {}
    <2> HIDE DEF got, honest, wanted
    <2> QED BY <1>4 DEF Sel!Names
<1> HIDE DEF kept
<1> QED BY <1>3, <1>5 DEF Sel!PruningIsInvisible

\* A narrowed plan asks for some of the hazards and the years of the plan, in the
\* same area.
LEMMA NarrowedPlan ==
    ASSUME NEW pathway, NEW area, NEW hazards, NEW horizons, NEW sel, NEW plan,
           plan = Sel!Plan(pathway, area, hazards, horizons), hazards # {},
           Sel!Narrowed(plan, sel) # Error
    PROVE  LET q == Sel!Narrowed(plan, sel) IN
           /\ q.pathway = plan.pathway /\ q.area = plan.area
           /\ q.hazards \subseteq plan.hazards
           /\ q.horizons = IF sel.horizons = Anything THEN plan.horizons ELSE sel.horizons
           /\ sel.horizons # Anything /\ plan.horizons # Anything => sel.horizons \subseteq plan.horizons
<1> DEFINE q == Sel!Narrowed(plan, sel)
           byHazard == IF sel.hazards = Anything THEN plan ELSE Sel!WithHazards(plan, sel.hazards)
<1>1. /\ ~(sel.hazards # Anything /\ plan.hazards # {} /\ ~(sel.hazards \subseteq plan.hazards))
      /\ ~(sel.horizons # Anything /\ plan.horizons # Anything /\ ~(sel.horizons \subseteq plan.horizons))
      /\ q = IF sel.horizons = Anything \/ byHazard = Error THEN byHazard
             ELSE Sel!WithHorizons(byHazard, sel.horizons)
    BY DEF Sel!Narrowed
<1>2. /\ byHazard # Error
      /\ q = IF sel.horizons = Anything THEN byHazard ELSE [byHazard EXCEPT !.horizons = sel.horizons]
    BY <1>1 DEF Sel!WithHorizons
<1>3. byHazard = IF sel.hazards = Anything THEN plan ELSE [plan EXCEPT !.hazards = sel.hazards]
    BY <1>2 DEF Sel!WithHazards
<1>4. plan.hazards = hazards
    BY DEF Sel!Plan
<1>5. byHazard = Sel!Plan(pathway, area, IF sel.hazards = Anything THEN hazards ELSE sel.hazards, horizons)
    BY <1>3 DEF Sel!Plan
<1>6. q = Sel!Plan(pathway, area, IF sel.hazards = Anything THEN hazards ELSE sel.hazards,
                       IF sel.horizons = Anything THEN horizons ELSE sel.horizons)
    <2> HIDE DEF byHazard
    <2> QED BY <1>2, <1>5 DEF Sel!Plan
<1> HIDE DEF q
<1> QED BY <1>1, <1>4, <1>6 DEF Sel!Plan, q

\* Whatever the catalogue, the files, the plan and the portfolio's selection,
\* narrowing is invisible.
THEOREM NarrowingKeepsRows ==
    ASSUME NEW pathway, NEW area, NEW hazards, NEW horizons, NEW sel, NEW catalog, NEW parent
    PROVE  Sel!NarrowingIsInvisible(Sel!Plan(pathway, area, hazards, horizons),
                                        sel, catalog, parent)
<1> DEFINE plan == Sel!Plan(pathway, area, hazards, horizons)
           q == Sel!Narrowed(plan, sel)
           narrow == Sel!Materialized(q, catalog, parent)
           wide == Sel!Materialized(plan, catalog, parent)
           inYears(r) == sel.horizons # Anything => r.horizon \in sel.horizons
<1>1. SUFFICES ASSUME narrow # Error, wide # Error, NEW name \in DOMAIN narrow
               PROVE  narrow[name] = {r \in wide[name] : inYears(r)}
    BY DEF Sel!NarrowingIsInvisible
<1>2. q # Error
    BY <1>1 DEF Sel!Materialized
<1>3. hazards # {} /\ plan.hazards = hazards
    <2>1. plan.hazards # {}
        BY <1>1, MaterializedRows
    <2> QED BY <2>1 DEF Sel!Plan
<1>4. /\ q.pathway = plan.pathway /\ q.area = plan.area
      /\ q.hazards \subseteq plan.hazards
      /\ q.horizons = IF sel.horizons = Anything THEN plan.horizons ELSE sel.horizons
      /\ sel.horizons # Anything /\ plan.horizons # Anything => sel.horizons \subseteq plan.horizons
    <2> HIDE DEF plan
    <2>1. plan = Sel!Plan(pathway, area, hazards, horizons)
        BY DEF plan
    <2> QED BY <1>2, <1>3, <2>1, NarrowedPlan
<1> HIDE DEF plan, q
<1>5. name \in q.hazards /\ name \in plan.hazards
    BY <1>1, <1>4, MaterializedRows
<1> DEFINE few == Chosen(q, catalog, parent, name)
           many == Chosen(plan, catalog, parent, name)
           hazard == catalog.hazards[name]
<1>6. /\ \A e \in few : Sel!Agrees(e, hazard, parent)
      /\ narrow[name] = Sel!MatchingRows(few, q)
    BY <1>1, <1>5, MaterializedRows
<1>7. /\ \A e \in many : Sel!Agrees(e, hazard, parent)
      /\ wide[name] = Sel!MatchingRows(many, plan)
    BY <1>1, <1>5, MaterializedRows
<1>8. ASSUME NEW r PROVE Sel!Matches(r, q) <=> Sel!Matches(r, plan) /\ inYears(r)
    BY <1>4 DEF Sel!Matches
<1>9. few \subseteq hazard.partitions /\ many \subseteq hazard.partitions
    BY DEF Chosen
<1>10. ASSUME NEW e \in hazard.partitions, NEW r \in e.rows, Sel!Matches(r, q)
       PROVE  e \in few <=> e \in many
    <2>1. Sel!Matches(r, plan)
        BY <1>8, <1>10
    <2>2. e \in few => e \in many
        <3>1. e \in few => Sel!Agrees(e, hazard, parent)
            BY <1>6
        <3>2. Sel!Agrees(e, hazard, parent) => Sel!MayMatch(e, plan, parent)
            BY <2>1, WantedIsSelected
        <3> QED BY <3>1, <3>2 DEF Chosen
    <2>3. e \in many => e \in few
        <3>1. e \in many => Sel!Agrees(e, hazard, parent)
            BY <1>7
        <3>2. Sel!Agrees(e, hazard, parent) => Sel!MayMatch(e, q, parent)
            BY <1>10, WantedIsSelected
        <3> QED BY <3>1, <3>2 DEF Chosen
    <2> QED BY <2>2, <2>3
<1> HIDE DEF few, many, hazard, inYears
<1>11. Sel!MatchingRows(few, q) = {r \in Sel!MatchingRows(many, plan) : inYears(r)}
    BY <1>8, <1>9, <1>10 DEF Sel!MatchingRows
<1> HIDE DEF narrow, wide
<1> QED BY <1>6, <1>7, <1>11 DEF inYears

\* The input of the topic is a release and a plan.
SelectionIInv ==
    topic = "selection" =>
        \/ input.step = 0 /\ input.data \in SelectionStart
        \/ input.step = 1 /\ \E rows \in SelectionStart : input.data \in SelectionInputs(rows)

\* What the run checks of selections: pruning partitions and narrowing a plan are
\* invisible in what is written, of any release and plan.
THEOREM SelectionStaysInvisible == Asked => []SelectionIsInvisible
<1>1. ChooseTopic => SelectionIInv
    <2> SUFFICES ASSUME ChooseTopic, topic = "selection"
                 PROVE  input.step = 0 /\ input.data \in SelectionStart
        BY DEF SelectionIInv
    <2>1. PICK start :
            /\ \E kind \in {"selection", "blocks", "curves", "policies", "rasters", "evaluation",
                            "portfolios", "limits"} : \E s : start = <<kind, s>>
            /\ start[1] = "selection" => \E s \in SelectionStart : start = <<"selection", s>>
            /\ topic = start[1] /\ input = [step |-> 0, data |-> start[2]]
        BY DEF ChooseTopic
    <2> QED BY <2>1
<1>2. SelectionIInv /\ [Choose]_question => SelectionIInv'
    <2> SUFFICES ASSUME SelectionIInv, [Choose]_question PROVE SelectionIInv'
        OBVIOUS
    <2>1. CASE ChooseSelection
        BY <2>1 DEF ChooseSelection, SelectionIInv
    <2>2. CASE topic # "selection" /\ UNCHANGED topic
        BY <2>2 DEF SelectionIInv
    <2>3. CASE UNCHANGED question
        BY <2>3 DEF SelectionIInv, question
    <2> QED BY <2>1, <2>2, <2>3
            DEF Choose, ChooseBlocks, ChooseCurve, ChoosePolicy, ChooseRaster,
                ChooseEvaluation, ChoosePortfolio, ChooseLimits
<1>3. SelectionIInv => SelectionIsInvisible
    <2> SUFFICES ASSUME NEW rows \in SelectionStart, NEW i \in SelectionInputs(rows)
                 PROVE  /\ Sel!PruningIsInvisible(i.plan, i.catalog, Parent)
                        /\ Sel!NarrowingIsInvisible(i.plan, i.sel, i.catalog, Parent)
        BY DEF SelectionIInv, SelectionIsInvisible
    <2>1. Sel!ErrorIsApart(i.plan, i.catalog)
        BY SelectionAssumption
    <2>2. i.plan \in SelectionPlans
        BY DEF SelectionInputs
    <2>3. PICK area, hazards, years : i.plan = Sel!Plan("p", area, hazards, years)
        BY <2>2 DEF SelectionPlans
    <2> QED BY <2>1, <2>3, PruningKeepsRows, NarrowingKeepsRows
<1> QED BY <1>1, <1>2, <1>3, PTL DEF Asked

-----------------------------------------------------------------------------

(***************************************************************************)
(* Runtime limits.                                                         *)
(***************************************************************************)

\* What the constants are told from, and what files and variables can say.
Apart ==
    /\ Missing # Error /\ Missing # Anything /\ Error # Anything
    /\ {Missing, Error, Anything} \cap Int = {} /\ Missing # "path"

\* What a control file says of memory, and of processors.
MemoryIsRead(bytes) == Lim!IsNumber(bytes) => bytes \in Int
QuotaIsRead(quota) == Lim!IsNumber(quota) => quota \in Int \X Nat

\* A host with a processor, whose container's group is the mount root or has a
\* control file below it.
HostIsSound(host) ==
    /\ host.cpus \in Nat \ {0} /\ host.affinity \in {Missing} \cup (Nat \ {0})
    /\ host.memory \in Nat /\ host.free \in Nat
    /\ \A group \in {host.files.root, host.files.own} : MemoryIsRead(group.memory) /\ QuotaIsRead(group.cpu)
    /\ MemoryIsRead(host.files.memory1) /\ QuotaIsRead(host.files.cpu1)
    /\ host.scoped <=> host.own = Missing \/ ~Lim!Exists(host.files.own)

EnvironmentIsSound(env) ==
    /\ Lim!IsNumber(env.threads) => env.threads \in Int
    /\ Lim!IsNumber(env.perThread) => env.perThread \in Int

\* One of at most three numbers is the least.
LEMMA LeastOfThree ==
    ASSUME NEW a, NEW b, NEW c, NEW S, S \subseteq {a, b, c}, S \subseteq Int, S # {}
    PROVE  Lim!Least(S) \in S /\ \A o \in S : Lim!Least(S) <= o
<1>1. \E n \in S : \A o \in S : n <= o
    <2>1. PICK x \in S : TRUE OBVIOUS
    <2>2. PICK y \in S : y < x \/ \A o \in S : x <= o
        <3>1. CASE \A o \in S : x <= o BY <3>1
        <3>2. CASE \E o \in S : ~(x <= o) BY <3>2
        <3> QED BY <3>1, <3>2
    <2>3. PICK z \in S : z < y \/ \A o \in S : y <= o
        <3>1. CASE \A o \in S : y <= o BY <3>1
        <3>2. CASE \E o \in S : ~(y <= o) BY <3>2
        <3> QED BY <3>1, <3>2
    <2>4. CASE y < x /\ z < y
        <3>1. {a, b, c} = {x, y, z} BY <2>4
        <3>2. \A o \in S : o \in {x, y, z} BY <3>1
        <3>3. \A o \in S : z <= o BY <2>4, <3>2
        <3> QED BY <3>3
    <2> QED BY <2>2, <2>3, <2>4
<1> QED BY <1>1 DEF Lim!Least

LEMMA LeastOfTwo ==
    ASSUME NEW a \in Int, NEW b \in Int
    PROVE  /\ Lim!Least({a, b}) \in {a, b}
           /\ Lim!Least({a, b}) <= a /\ Lim!Least({a, b}) <= b
<1>1. \E n \in {a, b} : \A o \in {a, b} : n <= o
    <2>1. CASE a <= b BY <2>1
    <2>2. CASE b <= a BY <2>2
    <2> QED BY <2>1, <2>2
<1>2. /\ Lim!Least({a, b}) \in {a, b}
      /\ \A o \in {a, b} : Lim!Least({a, b}) <= o
    BY <1>1 DEF Lim!Least
<1> QED BY <1>2

\* The first of two dictionaries wins.
LEMMA FirstWins ==
    ASSUME NEW f, NEW g
    PROVE  /\ \A k \in DOMAIN f : Lim!Over(f, g)[k] = f[k]
           /\ \A k \in DOMAIN g \ DOMAIN f : Lim!Over(f, g)[k] = g[k]
BY DEF Lim!Over

\* A quota is a thread at least.
LEMMA QuotaIsAThread ==
    ASSUME NEW q \in Int \X Nat, q[2] # 0
    PROVE  Lim!RoundUp(q) \in Nat \ {0}
<1>1. q[1] \in Int /\ q[2] \in Nat \ {0}
    OBVIOUS
<1>2. (-q[1]) \div q[2] \in Int
    BY <1>1
<1> QED BY <1>2 DEF Lim!RoundUp, Lim!Larger

LEMMA QuotaIsNumber ==
    ASSUME NEW group, NEW files, QuotaIsRead(group.cpu), QuotaIsRead(files.cpu1), Apart
    PROVE  Lim!CpuQuota(group, files) \in {Missing} \cup (Nat \ {0})
BY QuotaIsAThread DEF Lim!CpuQuota, QuotaIsRead

\* The processors are at most those of the host and of its quota.
LEMMA CpusAreLimited ==
    ASSUME NEW host, HostIsSound(host), Apart
    PROVE  LET quota == Lim!CpuQuota(Lim!Container(host), host.files) IN
           /\ Lim!Cpus(host) \in 1..host.cpus
           /\ quota # Missing => quota \in Nat /\ Lim!Cpus(host) <= quota
<1> DEFINE quota == Lim!CpuQuota(Lim!Container(host), host.files)
           S == {host.cpus, host.affinity, quota} \ {Missing}
<1>1. Lim!Container(host) \in {host.files.root, host.files.own}
    BY DEF Lim!Container
<1>2. quota \in {Missing} \cup (Nat \ {0})
    BY <1>1, QuotaIsNumber DEF HostIsSound
<1>3. Missing \notin Int
    BY DEF Apart
<1>4. /\ host.cpus \in Nat \ {0} /\ host.affinity \in {Missing} \cup (Nat \ {0})
    BY DEF HostIsSound
<1> HIDE DEF quota
<1>5. S \subseteq {host.cpus, host.affinity, quota} /\ S \subseteq Nat \ {0} /\ host.cpus \in S
    BY <1>2, <1>3, <1>4
<1>6. Lim!Least(S) \in S /\ \A o \in S : Lim!Least(S) <= o
    <2> HIDE DEF S
    <2>1. S \subseteq Int /\ S # {}
        BY <1>5
    <2> QED BY <1>5, <2>1, LeastOfThree
<1>7. Lim!Cpus(host) = Lim!Least(S)
    <2>1. Lim!Cpus(host) = Lim!Larger(1, Lim!Least(S))
        BY DEF Lim!Cpus, quota
    <2>2. Lim!Least(S) \in Nat \ {0}
        BY <1>5, <1>6
    <2> QED BY <2>1, <2>2 DEF Lim!Larger
<1>8. quota # Missing => quota \in S
    OBVIOUS
<1>9. Lim!Cpus(host) \in 1..host.cpus /\ (quota # Missing => quota \in Nat /\ Lim!Cpus(host) <= quota)
    <2> HIDE DEF S
    <2>1. Lim!Least(S) \in Nat \ {0}
        BY <1>5, <1>6
    <2>2. Lim!Least(S) <= host.cpus
        BY <1>5, <1>6
    <2>3. quota # Missing => quota \in Nat /\ Lim!Least(S) <= quota
        BY <1>2, <1>6, <1>8
    <2> QED BY <1>4, <1>7, <2>1, <2>2, <2>3
<1> QED BY <1>9 DEF quota

\* The memory is the least of the limits.
LEMMA MemoryIsNumber ==
    ASSUME NEW host, HostIsSound(host)
    PROVE  Lim!Memory(host) \in Nat
<1> DEFINE group == Lim!Container(host)
           S == {host.memory} \cup Lim!MemoryLimits(group, host.files)
<1>1. group \in {host.files.root, host.files.own}
    BY DEF Lim!Container
<1>2. MemoryIsRead(group.memory) /\ MemoryIsRead(host.files.memory1) /\ host.memory \in Nat
    BY <1>1 DEF HostIsSound
<1> HIDE DEF group
<1>3. S \subseteq {host.memory, group.memory, host.files.memory1} /\ S \subseteq Nat /\ S # {}
    BY <1>2 DEF Lim!MemoryLimits, MemoryIsRead
<1>4. Lim!Least(S) \in S
    <2> HIDE DEF S
    <2>1. S \subseteq Int
        BY <1>3
    <2> QED BY <1>3, <2>1, LeastOfThree
<1> QED BY <1>3, <1>4 DEF Lim!Memory, group

\* The threads a call is given are at most the processors, and, unless the
\* environment says so, no more than the memory allows.
LEMMA ThreadsAreLimited ==
    ASSUME NEW raw, NEW cpus \in Nat \ {0}, NEW usable \in Nat, NEW perThread \in {Missing} \cup (Nat \ {0}),
           Lim!IsNumber(raw) => raw \in Int, Apart
    PROVE  LET threads == Lim!EnvInt(raw, Lim!Threads(cpus, usable, perThread), cpus) IN
           /\ threads \in 1..cpus
           /\ raw = Missing /\ perThread # Missing =>
                threads = 1 \/ threads * perThread <= usable
<1> DEFINE byMemory == Lim!Least({cpus, usable \div perThread})
           byVariable == Lim!Least({raw, cpus})
<1>1. ASSUME perThread # Missing
      PROVE  /\ byMemory \in Nat /\ byMemory <= cpus /\ byMemory <= usable \div perThread
             /\ usable \div perThread \in Nat
    <2>1. usable \div perThread \in Nat
        BY <1>1
    <2>2. PICK share \in Nat : share = usable \div perThread
        BY <2>1
    <2>3. /\ Lim!Least({cpus, share}) \in {cpus, share}
          /\ Lim!Least({cpus, share}) <= cpus /\ Lim!Least({cpus, share}) <= share
        <3>1. cpus \in Int /\ share \in Int
            OBVIOUS
        <3> QED BY ONLY <3>1, LeastOfTwo
    <2>4. byMemory \in {cpus, share} /\ byMemory <= cpus /\ byMemory <= share
        BY <2>2, <2>3
    <2> QED BY <2>2, <2>4
<1>2. ASSUME Lim!IsNumber(raw) PROVE byVariable \in Int /\ byVariable <= cpus
    <2>1. byVariable \in {raw, cpus} /\ byVariable <= cpus
        <3>1. raw \in Int /\ cpus \in Int
            BY <1>2
        <3> QED BY ONLY <3>1, LeastOfTwo
    <2> QED BY <1>2, <2>1
<1>3. ASSUME perThread # Missing, byMemory > 1 PROVE byMemory * perThread <= usable
    <2>1. (usable \div perThread) * perThread <= usable
        BY <1>3
    <2>2. byMemory * perThread <= (usable \div perThread) * perThread
        BY <1>1, <1>3
    <2> QED BY <1>1, <1>3, <2>1, <2>2
<1> HIDE DEF byMemory, byVariable
<1>4. Lim!Threads(cpus, usable, perThread) =
        IF perThread = Missing THEN cpus ELSE IF 1 > byMemory THEN 1 ELSE byMemory
    BY DEF Lim!Threads, Lim!Larger, byMemory
<1>5. Lim!Threads(cpus, usable, perThread) \in 1..cpus
    BY <1>1, <1>4
<1>6. Lim!EnvInt(raw, Lim!Threads(cpus, usable, perThread), cpus) =
        IF Lim!IsNumber(raw) THEN IF 1 > byVariable THEN 1 ELSE byVariable
        ELSE Lim!Threads(cpus, usable, perThread)
    BY DEF Lim!EnvInt, Lim!Larger, byVariable
<1>7. ~Lim!IsNumber(Missing)
    BY DEF Lim!IsNumber
<1> QED BY <1>1, <1>2, <1>3, <1>4, <1>5, <1>6, <1>7

\* The space to spill to is at most the free space, but a GiB.
LEMMA SpillIsLimited ==
    ASSUME NEW free \in Nat
    PROVE  Lim!Spill(free) <= Lim!Larger(Lim!GiB, free)
<1>1. free \div 2 \in Nat /\ free \div 2 <= free
    OBVIOUS
<1>2. /\ Lim!Least({64 * 20, free \div 2}) \in {64 * 20, free \div 2}
      /\ Lim!Least({64 * 20, free \div 2}) <= free \div 2
    BY <1>1, LeastOfTwo
<1>3. Lim!Spill(free) = Lim!Larger(20, Lim!Least({64 * 20, free \div 2}))
    BY DEF Lim!Spill, Lim!GiB
<1> QED BY <1>1, <1>2, <1>3 DEF Lim!Larger, Lim!GiB

\* What is detected of a sound host stays inside its container.
LEMMA DetectedIsInside ==
    ASSUME NEW host, NEW env, NEW perThread \in {Missing} \cup (Nat \ {0}),
           HostIsSound(host), EnvironmentIsSound(env), Apart
    PROVE  LET resources == Lim!Detected(host, env, perThread)
               enforced == IF host.scoped THEN host.files.root ELSE host.files.own
               quota == Lim!CpuQuota(enforced, host.files) IN
           /\ resources.memory = Lim!Least({host.memory} \cup Lim!MemoryLimits(enforced, host.files))
           /\ quota # Missing => resources.threads <= quota
           /\ resources.threads \in 1..host.cpus
           /\ env.memory = Missing => resources.memory_limit <= Lim!Larger(Lim!GiB, resources.memory)
           /\ env.threads = Missing /\ perThread = 50 =>
                resources.threads = 1 \/ resources.threads * 50 <= resources.memory
           /\ resources.max_temp <= Lim!Larger(Lim!GiB, host.free)
<1> DEFINE resources == Lim!Detected(host, env, perThread)
           enforced == IF host.scoped THEN host.files.root ELSE host.files.own
           quota == Lim!CpuQuota(enforced, host.files)
           cpus == Lim!Cpus(host)
           memory == Lim!Memory(host)
           usable == Lim!Larger(Lim!GiB, (memory * 3) \div 5)
           threads == Lim!EnvInt(env.threads, Lim!Threads(cpus, usable, perThread), cpus)
<1>1. Lim!Container(host) = enforced
    BY DEF HostIsSound, Lim!Container
<1>2. memory = Lim!Least({host.memory} \cup Lim!MemoryLimits(enforced, host.files)) /\ memory \in Nat
    BY <1>1, MemoryIsNumber DEF Lim!Memory
<1>3. cpus \in 1..host.cpus /\ host.cpus \in Nat /\ (quota # Missing => quota \in Nat /\ cpus <= quota)
    BY <1>1, CpusAreLimited DEF HostIsSound
<1>4. /\ resources.memory = memory /\ resources.threads = threads
      /\ env.memory = Missing =>
            resources.memory_limit = Lim!Larger(1, usable \div Lim!GiB) * Lim!GiB
      /\ resources.max_temp = Lim!Spill(host.free)
    BY DEF Lim!Detected
<1> HIDE DEF resources, enforced, quota, cpus, memory, threads
<1>5. usable \in Nat /\ (usable = 20 \/ usable <= memory)
    BY <1>2 DEF Lim!Larger, Lim!GiB
<1>6. Lim!Larger(1, usable \div Lim!GiB) * Lim!GiB <= Lim!Larger(Lim!GiB, memory)
    <2> HIDE DEF usable
    <2> QED BY <1>2, <1>5 DEF Lim!Larger, Lim!GiB
<1> HIDE DEF usable
<1>7. /\ threads \in 1..cpus
      /\ env.threads = Missing /\ perThread # Missing => threads = 1 \/ threads * perThread <= usable
    <2>1. cpus \in Nat \ {0}
        BY <1>3
    <2> QED BY <1>5, <2>1, ThreadsAreLimited DEF EnvironmentIsSound, threads
<1>8. env.threads = Missing /\ perThread = 50 => threads = 1 \/ threads * 50 <= memory
    <2>1. SUFFICES ASSUME env.threads = Missing, perThread = 50, threads # 1
                   PROVE  threads * 50 <= memory
        OBVIOUS
    <2>2. threads * 50 <= usable /\ threads \in Nat /\ threads > 1
        <3>1. Missing # 50 BY DEF Apart
        <3>2. threads \in Nat /\ threads >= 1 BY <1>3, <1>7
        <3> QED BY <1>7, <2>1, <3>1, <3>2
    <2> QED BY <1>2, <1>5, <2>2
<1>9. quota # Missing => threads <= quota
    BY <1>3, <1>7
<1>10. threads \in 1..host.cpus
    BY <1>3, <1>7
<1>11. Lim!Spill(host.free) <= Lim!Larger(Lim!GiB, host.free)
    BY SpillIsLimited DEF HostIsSound
<1> QED BY <1>2, <1>4, <1>6, <1>8, <1>9, <1>10, <1>11 DEF resources, enforced, quota

\* What a thread needs is a number or unknown, unless the variable is infinite.
LEMMA BytesAreRead ==
    ASSUME NEW raw, NEW default \in {Missing, 50}, Lim!IsNumber(raw) => raw \in Int, Apart
    PROVE  LET perThread == Lim!BytesPerThread(raw, default) IN
           /\ perThread = Error <=> raw = Anything
           /\ perThread # Error => perThread \in {Missing} \cup (Nat \ {0})
           /\ raw = Missing => perThread = default
<1>1. CASE raw = Anything
    BY <1>1 DEF Lim!BytesPerThread, Apart
<1>2. CASE raw # Anything /\ Lim!IsNumber(raw) /\ raw > 0
    BY <1>2 DEF Lim!BytesPerThread, Apart, Lim!Larger, Lim!GiB, Lim!IsNumber
<1>3. CASE raw # Anything /\ ~(Lim!IsNumber(raw) /\ raw > 0)
    <2>1. Lim!BytesPerThread(raw, default) = default
        BY <1>3 DEF Lim!BytesPerThread
    <2> QED BY <1>3, <2>1 DEF Apart
<1> QED BY <1>1, <1>2, <1>3

\* Of any sound host, environment, extensions and caller's settings: what is
\* detected is enforced on the container, and the settings stay inside it.
THEOREM LimitsStayInside ==
    ASSUME NEW host, NEW env, NEW extensions, NEW config,
           HostIsSound(host), EnvironmentIsSound(env), Apart,
           Lim!ErrorIsApart(host, env, extensions, config)
    PROVE  Lim!LimitsAreEnforced(host, env, extensions, config)
<1> DEFINE default == Lim!Spatial(extensions)
           perThread == Lim!BytesPerThread(env.perThread, default)
           resources == Lim!Detect(host, env, default)
           settings == Lim!Analytics(host, env, extensions, config)
           enforced == IF host.scoped THEN host.files.root ELSE host.files.own
           quota == Lim!CpuQuota(enforced, host.files)
<1>1. default \in {Missing, 50} /\ ("spatial" \in Lim!ToSet(extensions) => default = 50)
    BY DEF Lim!Spatial
<1>2. /\ perThread = Error <=> env.perThread = Anything
      /\ perThread # Error => perThread \in {Missing} \cup (Nat \ {0})
      /\ env.perThread = Missing => perThread = default
    <2> HIDE DEF default
    <2> QED BY <1>1, BytesAreRead DEF EnvironmentIsSound
<1>3. CASE perThread = Error
    <2>1. settings = Error
        BY <1>3 DEF Lim!Analytics, Lim!Detect
    <2>2. env.perThread = Anything
        BY <1>2, <1>3
    <2> QED BY <2>1, <2>2 DEF Lim!LimitsAreEnforced
<1>4. CASE perThread # Error
    <2>1. resources = Lim!Detected(host, env, perThread)
        BY <1>4 DEF Lim!Detect
    <2>2. resources # Error /\ Lim!Over(config, Lim!AsConfig(resources)) # Error
        BY <1>4, <2>1 DEF Lim!ErrorIsApart
    <2>3. settings = Lim!Over(config, Lim!AsConfig(resources)) /\ settings # Error
        BY <2>2 DEF Lim!Analytics
    <2>4. \A k \in DOMAIN config : settings[k] = config[k]
        BY <2>3, FirstWins
    <2>5. "memory_limit" \notin DOMAIN config => settings.memory_limit = resources.memory_limit
        <3> DEFINE four == [threads |-> resources.threads, memory_limit |-> resources.memory_limit,
                            max_temp |-> resources.max_temp, open_files |-> 8]
        <3>1. Lim!AsConfig(resources) = Lim!Over(four, Lim!BaseConfig)
            BY DEF Lim!AsConfig
        <3>2. "memory_limit" \in DOMAIN four /\ four["memory_limit"] = resources.memory_limit
            OBVIOUS
        <3> HIDE DEF four, resources, settings
        <3>3. /\ "memory_limit" \in DOMAIN Lim!AsConfig(resources)
              /\ Lim!AsConfig(resources)["memory_limit"] = resources.memory_limit
            BY <3>1, <3>2 DEF Lim!Over
        <3> QED BY <2>3, <3>3, FirstWins
    <2>6. /\ resources.memory = Lim!Least({host.memory} \cup Lim!MemoryLimits(enforced, host.files))
          /\ quota # Missing => resources.threads <= quota
          /\ resources.threads \in 1..host.cpus
          /\ env.memory = Missing => resources.memory_limit <= Lim!Larger(Lim!GiB, resources.memory)
          /\ env.threads = Missing /\ perThread = 50 =>
                resources.threads = 1 \/ resources.threads * 50 <= resources.memory
          /\ resources.max_temp <= Lim!Larger(Lim!GiB, host.free)
        <3> HIDE DEF perThread
        <3> QED BY <1>2, <1>4, <2>1, DetectedIsInside
    <2>7. {env.threads, env.perThread} = {Missing} /\ "spatial" \in Lim!ToSet(extensions) =>
            env.threads = Missing /\ perThread = 50
        <3> HIDE DEF perThread, default
        <3> QED BY <1>1, <1>2
    <2> HIDE DEF settings, resources, quota, enforced, perThread
    <2>8. /\ resources.memory = Lim!Least({host.memory} \cup Lim!MemoryLimits(enforced, host.files))
          /\ quota # Missing => resources.threads <= quota
          /\ resources.threads \in 1..host.cpus
          /\ (env.memory = Missing /\ "memory_limit" \notin DOMAIN config)
             => settings.memory_limit <= Lim!Larger(Lim!GiB, resources.memory)
          /\ ({env.threads, env.perThread} = {Missing} /\ "spatial" \in Lim!ToSet(extensions))
             => resources.threads = 1 \/ resources.threads * 50 <= resources.memory
          /\ resources.max_temp <= Lim!Larger(Lim!GiB, host.free)
        BY <2>5, <2>6, <2>7
    <2> QED BY <2>2, <2>3, <2>4, <2>8
            DEF Lim!LimitsAreEnforced, settings, resources, quota, enforced
<1> QED BY <1>3, <1>4

(***************************************************************************)
(* Connections.                                                            *)
(***************************************************************************)

\* The instance counts as this module does.
LEMMA LimitsCardinality == \A x : Lim!Cardinality(x) = Cardinality(x)
BY DEF Lim!Cardinality, Cardinality

\* Some of the steps, if they are as many as all of them, are all of them.
LEMMA AllAreTaken ==
    ASSUME NEW n \in Nat, NEW S \in SUBSET (1..n)
    PROVE  /\ Cardinality(S) \in 0..n /\ (Cardinality(S) = n => S = 1..n)
           /\ Cardinality(S) > 0 => S # {}
<1>1. IsFiniteSet(1..n) /\ Cardinality(1..n) = n
    BY FS_Interval
<1>2. /\ IsFiniteSet(S) /\ Cardinality(S) <= n
      /\ Cardinality(S) = n => S = 1..n
    BY <1>1, FS_Subset
<1>3. Cardinality(S) \in Nat
    BY <1>2, FS_CardinalityType
<1>4. Cardinality(S) > 0 => S # {}
    BY FS_EmptySet
<1> QED BY <1>2, <1>3, <1>4

\* A number up to another is below it or is it, and is positive or zero.
LEMMA BelowOrEqual ==
    ASSUME NEW n \in Nat, NEW k \in 0..n
    PROVE  (k < n \/ k = n) /\ (k > 0 \/ k = 0)
OBVIOUS

\* The first none of a sequence.
LEMMA NoneTaken == ASSUME NEW s PROVE SubSeq(s, 1, 0) = <<>>
BY SubSeqEmpty

\* Of any extensions and statements: a connection that is open has them all, one
\* that could not have them is closed, and a caller's setting is kept.
THEOREM ConnectionsStayWhole ==
    ASSUME NEW S, NEW T, NEW extensions \in Seq(S), NEW setup \in Seq(T), NEW settings, NEW store
    PROVE  Lim!ConnectionIsWhole(settings, extensions, store, setup)
<1> DEFINE con == Lim!Connect(settings, extensions, store, setup)
           loaded == Lim!Loaded(extensions, store)
           ran == Lim!Ran(extensions, store, setup)
           failed == loaded < Len(extensions) \/ ran < Len(setup)
<1>1. con = [config |-> Lim!Over(settings, Lim!BaseConfig), open |-> ~failed, failed |-> failed,
             loaded |-> SubSeq(extensions, 1, loaded), ran |-> SubSeq(setup, 1, ran)]
    BY Zenon DEF Lim!Connect
<1>2. /\ Len(extensions) \in Nat /\ DOMAIN extensions = 1..Len(extensions)
      /\ Len(setup) \in Nat /\ DOMAIN setup = 1..Len(setup)
    OBVIOUS
<1>5. /\ loaded \in 0..Len(extensions) /\ ran \in 0..Len(setup)
      /\ ran > 0 => loaded = Len(extensions)
    <2> DEFINE load == {n \in DOMAIN extensions : \A i \in 1..n : Lim!Ensured(store[extensions[i]])}
               run == {n \in DOMAIN setup : /\ Lim!Loaded(extensions, store) = Len(extensions)
                                            /\ \A i \in 1..n : setup[i]}
    <2>1. loaded = Cardinality(load) /\ ran = Cardinality(run)
        BY LimitsCardinality, Zenon DEF Lim!Loaded, Lim!Ran
    <2>2. load \in SUBSET (1..Len(extensions)) /\ run \in SUBSET (1..Len(setup))
        BY <1>2
    <2>3. run # {} => loaded = Len(extensions)
        OBVIOUS
    <2> HIDE DEF load, run, loaded, ran
    <2> QED BY <1>2, <2>1, <2>2, <2>3, AllAreTaken
<1> HIDE DEF ran, loaded, con
<1>6. loaded = Len(extensions) => SubSeq(extensions, 1, loaded) = extensions
    BY SubSeqFull
<1>7. ran = Len(setup) => SubSeq(setup, 1, ran) = setup
    BY SubSeqFull
<1>8. SubSeq(setup, 1, ran) # <<>> => ran > 0
    <2>1. ran > 0 \/ ran = 0
        BY <1>2, <1>5, BelowOrEqual, Zenon
    <2> QED BY <2>1, NoneTaken, Zenon
<1>9. con.config = Lim!Over(settings, Lim!BaseConfig)
    BY <1>1, Zenon
<1>10. /\ (con.open <=> ~failed) /\ (con.failed <=> failed)
       /\ con.open = ~con.failed
       /\ con.loaded = SubSeq(extensions, 1, loaded) /\ con.ran = SubSeq(setup, 1, ran)
    BY <1>1, Zenon
<1>11. ~failed => loaded = Len(extensions) /\ ran = Len(setup)
    BY <1>2, <1>5, BelowOrEqual, Zenon
<1>12. ran > 0 => loaded = Len(extensions)
    BY <1>5, Zenon
<1> HIDE DEF failed
<1>13. con.open => con.loaded = extensions /\ con.ran = setup
    BY <1>6, <1>7, <1>10, <1>11, Zenon
<1>14. con.ran # <<>> => con.loaded = extensions
    BY <1>6, <1>8, <1>10, <1>12, Zenon
<1>15. \A k \in DOMAIN settings : con.config[k] = settings[k]
    <2>1. \A k \in DOMAIN settings : Lim!Over(settings, Lim!BaseConfig)[k] = settings[k]
        BY FirstWins, Zenon
    <2> QED BY <1>9, <2>1, Zenon
<1> QED BY <1>10, <1>13, <1>14, <1>15, Zenon DEF Lim!ConnectionIsWhole, con

\* The input of the topic is a host and its variables, or a connection.
LimitsIInv ==
    topic = "limits" =>
        \/ input.step = 0 /\ input.data \in LimitStart
        \/ input.step = 1 /\ \E start \in LimitStart : input.data \in LimitInputs(start)

\* The hosts the run makes are sound.
LEMMA HostsAreSound ==
    ASSUME NEW start \in [own : Groups, scoped : BOOLEAN],
           start.scoped \/ Lim!Exists(start.own), Apart,
           NEW cpu \in {Anything, <<100, 100>>}, NEW cpus \in {1, 8}, NEW memory \in {10, 2000},
           NEW free \in {10, 4000}, NEW legacy \in {Missing, 60}
    PROVE  HostIsSound(Host(start, [memory |-> 200, cpu |-> cpu], cpus, memory, free, legacy))
<1> DEFINE host == Host(start, [memory |-> 200, cpu |-> cpu], cpus, memory, free, legacy)
           other == [memory |-> 200, cpu |-> cpu]
           none == [memory |-> Missing, cpu |-> Missing]
<1>2. start.own \in Groups /\ start.scoped \in BOOLEAN
    OBVIOUS
<1>3. \A g \in Groups \cup {other, none} : MemoryIsRead(g.memory) /\ QuotaIsRead(g.cpu)
    BY DEF Groups, MemoryIsRead, QuotaIsRead, Lim!IsNumber
<1>4. /\ host.cpus = cpus /\ host.affinity = (IF cpus = 8 THEN 4 ELSE Missing)
      /\ host.memory = memory /\ host.free = free /\ host.scoped = start.scoped /\ host.own = "path"
      /\ host.files.root = (IF start.scoped THEN start.own ELSE other)
      /\ host.files.own = (IF start.scoped THEN none ELSE start.own)
      /\ host.files.memory1 = legacy
      /\ host.files.cpu1 = (IF legacy = Missing THEN Missing ELSE <<300, 100>>)
    BY DEF Host
<1> HIDE DEF host, other, none
<1>5. host.cpus \in Nat \ {0} /\ host.affinity \in {Missing} \cup (Nat \ {0})
      /\ host.memory \in Nat /\ host.free \in Nat
    BY <1>4
<1>6. \A group \in {host.files.root, host.files.own} : MemoryIsRead(group.memory) /\ QuotaIsRead(group.cpu)
    <2>1. start.own \in Groups
        BY <1>2
    <2> QED BY <1>3, <1>4, <2>1
<1>7. MemoryIsRead(host.files.memory1) /\ QuotaIsRead(host.files.cpu1)
    <2>1. host.files.memory1 = Missing \/ host.files.memory1 \in Int
        BY <1>4
    <2>2. host.files.cpu1 = Missing \/ host.files.cpu1 \in Int \X Nat
        BY <1>4
    <2> QED BY <2>1, <2>2 DEF MemoryIsRead, QuotaIsRead, Lim!IsNumber
<1>8. host.scoped <=> host.own = Missing \/ ~Lim!Exists(host.files.own)
    <2>1. host.own # Missing
        BY <1>4 DEF Apart
    <2>2. ~Lim!Exists(none)
        BY DEF Lim!Exists, none
    <2>3. CASE start.scoped
        <3>1. host.files.own = none /\ host.scoped
            BY <1>4, <2>3
        <3> QED BY <2>2, <3>1
    <2>4. CASE ~start.scoped
        <3>1. host.files.own = start.own /\ ~host.scoped
            BY <1>4, <2>4
        <3> QED BY <2>1, <2>4, <3>1
    <2> QED BY <2>3, <2>4
<1>9. HostIsSound(host)
    BY <1>5, <1>6, <1>7, <1>8 DEF HostIsSound
<1> QED BY <1>9 DEF host, other

\* What the run checks of limits: those of the container are kept, and a
\* connection that fails to open is closed, of any host and connection.
THEOREM LimitsStayKept == Asked => []LimitsAreKept
<1>1. ChooseTopic => LimitsIInv
    <2> SUFFICES ASSUME ChooseTopic, topic = "limits"
                 PROVE  input.step = 0 /\ input.data \in LimitStart
        BY DEF LimitsIInv
    <2>1. PICK start :
            /\ \E kind \in {"selection", "blocks", "curves", "policies", "rasters", "evaluation",
                            "portfolios", "limits"} : \E s : start = <<kind, s>>
            /\ start[1] = "limits" => \E s \in LimitStart : start = <<"limits", s>>
            /\ topic = start[1] /\ input = [step |-> 0, data |-> start[2]]
        BY DEF ChooseTopic
    <2> QED BY <2>1
<1>2. LimitsIInv /\ [Choose]_question => LimitsIInv'
    <2> SUFFICES ASSUME LimitsIInv, [Choose]_question PROVE LimitsIInv'
        OBVIOUS
    <2>1. CASE ChooseLimits
        BY <2>1 DEF ChooseLimits, LimitsIInv
    <2>2. CASE topic # "limits" /\ UNCHANGED topic
        BY <2>2 DEF LimitsIInv
    <2>3. CASE UNCHANGED question
        BY <2>3 DEF LimitsIInv, question
    <2> QED BY <2>1, <2>2, <2>3
            DEF Choose, ChooseSelection, ChooseBlocks, ChooseCurve, ChoosePolicy,
                ChooseRaster, ChooseEvaluation, ChoosePortfolio
<1>3. LimitsIInv => LimitsAreKept
    <2> SUFFICES ASSUME NEW start \in LimitStart, NEW i \in LimitInputs(start)
                 PROVE  \/ /\ i.what = "limits"
                           /\ Lim!LimitsAreEnforced(i.host, i.env, i.extensions, i.config)
                        \/ /\ i.what = "connect"
                           /\ Lim!ConnectionIsWhole([threads |-> 2], i.extensions, i.store, i.setup)
        <3>1. SUFFICES ASSUME LimitsIInv, topic = "limits" /\ input.step = 1 PROVE LimitsAreKept
            BY DEF LimitsAreKept
        <3>2. PICK start \in LimitStart : input.data \in LimitInputs(start)
            BY <3>1 DEF LimitsIInv
        <3>3. \/ /\ input.data.what = "limits"
                 /\ Lim!LimitsAreEnforced(input.data.host, input.data.env, input.data.extensions,
                                              input.data.config)
              \/ /\ input.data.what = "connect"
                 /\ Lim!ConnectionIsWhole([threads |-> 2], input.data.extensions, input.data.store,
                                              input.data.setup)
            BY <3>2
        <3>4. CASE input.data.what = "limits"
            BY <3>3, <3>4 DEF LimitsAreKept
        <3>5. CASE input.data.what = "connect"
            BY <3>3, <3>5 DEF LimitsAreKept
        <3> QED BY <3>3, <3>4, <3>5
    <2>1. CASE "own" \notin DOMAIN start
        <3>1. i \in Connections(start.extensions)
            BY <2>1 DEF LimitInputs
        <3>2. i.what = "connect" /\ i.extensions = start.extensions
              /\ i.setup \in {<<>>, <<TRUE>>, <<FALSE, TRUE>>, <<TRUE, FALSE>>}
            BY <3>1 DEF Connections
        <3>3. i.setup \in Seq(BOOLEAN)
            <4>1. <<>> \in Seq(BOOLEAN) /\ <<TRUE>> \in Seq(BOOLEAN) /\ <<FALSE, TRUE>> \in Seq(BOOLEAN)
                  /\ <<TRUE, FALSE>> \in Seq(BOOLEAN)
                OBVIOUS
            <4> QED BY <3>2, <4>1, Zenon
        <3>4. start.extensions \in {<<>>, <<"h3">>, <<"spatial", "h3">>}
            BY <2>1 DEF LimitStart
        <3>5. start.extensions \in Seq({"h3", "spatial"})
            <4>1. <<>> \in Seq({"h3", "spatial"}) /\ <<"h3">> \in Seq({"h3", "spatial"}) /\ <<"spatial", "h3">> \in Seq({"h3", "spatial"})
                OBVIOUS
            <4> QED BY <3>4, <4>1, Zenon
        <3>6. Lim!ConnectionIsWhole([threads |-> 2], start.extensions, i.store, i.setup)
            BY <3>3, <3>5, ConnectionsStayWhole, Zenon
        <3> QED BY <3>2, <3>6, Zenon
    <2>2. CASE "own" \in DOMAIN start
        <3>1. start \in [own : Groups, scoped : BOOLEAN]
            BY <2>2 DEF LimitStart
        <3>2. start.scoped \/ Lim!Exists(start.own)
            BY <2>2 DEF LimitInputs
        <3>3. /\ i.what = "limits" /\ i.host \in Hosts(start)
              /\ i.env.threads \in {Missing, Error, 3} /\ i.env.perThread \in {Missing, Anything, 1}
            BY <2>2, <3>2 DEF LimitInputs
        <3>4. Apart
            BY LimitsAssumption DEF Apart
        <3>5. HostIsSound(i.host)
            BY <3>1, <3>2, <3>3, <3>4, HostsAreSound DEF Hosts
        <3>6. EnvironmentIsSound(i.env)
            BY <3>3 DEF EnvironmentIsSound, Lim!IsNumber
        <3>7. Lim!ErrorIsApart(i.host, i.env, i.extensions, i.config)
            BY <3>3, LimitsAssumption
        <3> QED BY <3>3, <3>4, <3>5, <3>6, <3>7, LimitsStayInside
    <2> QED BY <2>1, <2>2
<1> QED BY <1>1, <1>2, <1>3, PTL DEF Asked

(***************************************************************************)
(* Curves under an ingest policy.                                          *)
(***************************************************************************)

\* A policy has its fields, and a pixel, a policy and its fits have numbers
\* where they are compared with the support of a fit.
PolicyFields ==
    {"method", "family", "hurdle", "fallback", "diagnostics", "support", "periods", "low", "high",
     "rmse", "residual", "tail", "failure"}

CurveIsSound(pixel, p, fits) ==
    /\ DOMAIN p = PolicyFields
    /\ Pol!ValidPolicy(p)
    /\ \A i \in DOMAIN pixel.values : pixel.values[i] \in Int \cup {Missing}
    /\ fits[p.family].support \in Int \X Int

\* The policy that the fallback is tried under; it can be made.
FallbackPolicy(p) == [p EXCEPT !.family = p.fallback, !.fallback = Missing]

LEMMA FallbackCanBeMade ==
    ASSUME NEW p, DOMAIN p = PolicyFields, Pol!ValidPolicy(p), p.fallback # Missing
    PROVE  LET q == FallbackPolicy(p) IN
           /\ Pol!ValidPolicy(q) /\ q.family = p.fallback /\ q.family # "genextreme"
           /\ q.periods = p.periods /\ q.tail = p.tail /\ q.low = p.low /\ q.high = p.high
           /\ q.support = p.support /\ p.method = "sample_lmoments" /\ p.diagnostics
           /\ p.family = "genextreme"
<1> DEFINE q == FallbackPolicy(p)
<1>1. /\ q.method = p.method /\ q.family = p.fallback /\ q.hurdle = p.hurdle /\ q.fallback = Missing
      /\ q.diagnostics = p.diagnostics /\ q.support = p.support /\ q.periods = p.periods
      /\ q.low = p.low /\ q.high = p.high /\ q.rmse = p.rmse /\ q.residual = p.residual
      /\ q.tail = p.tail
    BY DEF PolicyFields, FallbackPolicy
<1> HIDE DEF q
<1>2. /\ p.family = "genextreme" /\ p.method = "sample_lmoments" /\ p.diagnostics
      /\ p.fallback \in Pol!LMomentsFamilies /\ p.fallback # "genextreme"
    BY DEF Pol!ValidPolicy, Pol!GEV
<1>3. Pol!ValidPolicy(q)
    BY <1>1, <1>2 DEF Pol!ValidPolicy
<1>4. /\ Pol!ValidPolicy(q) /\ q.family = p.fallback /\ q.family # "genextreme"
      /\ q.periods = p.periods /\ q.tail = p.tail /\ q.low = p.low /\ q.high = p.high
      /\ q.support = p.support /\ p.method = "sample_lmoments" /\ p.diagnostics
      /\ p.family = "genextreme"
    BY <1>1, <1>2, <1>3
<1> QED BY <1>4 DEF q

\* A fitted curve comes of the policy's own family, which passed its gates, or of
\* the fallback after that family, the fallback having passed them.
LEMMA EstimatePasses ==
    ASSUME NEW p, NEW values, NEW fits, DOMAIN p = PolicyFields, Pol!ValidPolicy(p),
           Pol!Estimate(values, p, fits).outcome = "fitted"
    PROVE  \/ /\ Pol!Estimate(values, p, fits) = Pol!Fit(p.family, <<p.family>>, <<>>)
              /\ p.method \in Pol!SampleMethods =>
                    Pol!SampleFitPasses(fits[p.family], p.family, values, p)
              /\ p.method \notin Pol!SampleMethods => Pol!QuantileFitPasses(fits[p.family], p)
           \/ /\ p.fallback # Missing
              /\ Pol!Estimate(values, p, fits)
                    = Pol!Fit(p.fallback, <<p.family, p.fallback>>, <<p.family>>)
              /\ fits[p.fallback].sound /\ Pol!LevelsPass(fits[p.fallback], p)
              /\ p.fallback # "genextreme" /\ p.method = "sample_lmoments" /\ p.diagnostics
<1> DEFINE e == Pol!Estimate(values, p, fits)
<1>1. CASE p.method \notin Pol!SampleMethods
    BY <1>1 DEF Pol!Estimate, Pol!Failure
<1>2. CASE p.method \in Pol!SampleMethods
    <2>1. ~Pol!Alike(values)
        BY <1>2 DEF Pol!Estimate, Pol!Failure
    <2>2. CASE Pol!SampleFitPasses(fits[p.family], p.family, values, p)
        BY <1>2, <2>1, <2>2 DEF Pol!Estimate
    <2>3. CASE ~Pol!SampleFitPasses(fits[p.family], p.family, values, p)
        <3> DEFINE q == FallbackPolicy(p)
        <3>1. p.fallback # Missing /\ e = Pol!Refit(values, p, fits)
            BY <1>2, <2>1, <2>3 DEF Pol!Estimate, Pol!Failure
        <3>2. /\ Pol!SampleFitPasses(fits[q.family], q.family, values, q)
              /\ e = Pol!Fit(q.family, <<p.family, p.fallback>>, <<p.family>>)
            BY <3>1 DEF Pol!Refit, Pol!Failure, FallbackPolicy
        <3>3. /\ q.family = p.fallback /\ q.family # "genextreme"
              /\ q.periods = p.periods /\ q.tail = p.tail /\ q.low = p.low /\ q.high = p.high
              /\ p.method = "sample_lmoments" /\ p.diagnostics
            BY <3>1, FallbackCanBeMade
        <3> HIDE DEF q
        <3>4. fits[p.fallback].sound /\ Pol!LevelsPass(fits[p.fallback], q)
            BY <3>2, <3>3 DEF Pol!SampleFitPasses
        <3>5. Pol!LevelsPass(fits[p.fallback], p)
            BY <3>3, <3>4 DEF Pol!LevelsPass
        <3> QED BY <3>1, <3>2, <3>3, <3>4, <3>5
    <2> QED BY <2>2, <2>3
<1> QED BY <1>1, <1>2

\* A pixel's record is a fitted one only if its estimate is.
LEMMA PixelOutcomes ==
    ASSUME NEW pixel, NEW p, NEW fits
    PROVE  LET values == Pol!Known(pixel.values)
               fit == Pol!Estimate(values, p, fits)
               record == Pol!Pixel(pixel, p, fits)
           IN  \/ record.outcome = "error"
               \/ /\ record.outcome = "skipped"
                  /\ \/ record \in {Pol!Skipped(r, <<p.family>>, <<p.family>>) : r \in {"too_few_knots", "no_cells"}}
                     \/ /\ fit.outcome = "failed"
                        /\ record = Pol!Skipped(Pol!FailureReason(p), fit.attempted,
                                        IF fit.failed = <<>> THEN <<p.family>> ELSE fit.failed)
               \/ record = fit /\ fit.outcome = "fitted" /\ pixel.cells # {}
<1> DEFINE values == Pol!Known(pixel.values)
           fit == Pol!Estimate(values, p, fits)
<1>1. fit.outcome \in {"failed", "fitted"}
    BY DEF Pol!Estimate, Pol!Refit, Pol!Failure, Pol!Fit
<1> HIDE DEF fit
<1>2. CASE Pol!TooFew(values)
    BY <1>2 DEF Pol!Pixel, Pol!Skipped
<1>3. CASE ~Pol!TooFew(values) /\ fit.outcome = "failed"
    BY <1>3 DEF Pol!Pixel, Pol!Skipped, fit
<1>4. CASE ~Pol!TooFew(values) /\ fit.outcome # "failed"
    <2>1. Pol!Pixel(pixel, p, fits) = IF pixel.cells = {}
                THEN Pol!Skipped("no_cells", <<p.family>>, <<p.family>>) ELSE fit
        BY <1>4 DEF Pol!Pixel, fit
    <2> QED BY <1>1, <1>4, <2>1 DEF Pol!Skipped, fit
<1> QED BY <1>2, <1>3, <1>4

\* Under a policy with no hurdle that is impossible or certain, the mass of a
\* published curve at its bound is neither.
LEMMA AtomsArePossible ==
    ASSUME NEW p, NEW mass, Missing \notin Int, Pol!ValidHurdle(p.hurdle),
           p.method = "censored_quantile" => p.hurdle = Missing /\ mass \in 1..99,
           NEW atom,
           atom = CASE p.method = "censored_quantile" -> mass
                    [] p.hurdle # Missing -> p.hurdle.atom
                    [] OTHER -> Missing
    PROVE  /\ (p.method = "censored_quantile" \/ p.hurdle # Missing) <=> atom # Missing
           /\ (p.method = "censored_quantile" \/ p.hurdle # Missing) => atom \in 1..99
<1>1. CASE p.method = "censored_quantile"
    <2>1. atom = mass /\ mass \in 1..99 /\ mass \in Int
        BY <1>1
    <2> QED BY <1>1, <2>1
<1>2. CASE p.method # "censored_quantile" /\ p.hurdle # Missing
    <2>1. atom = p.hurdle.atom /\ p.hurdle.atom \in 1..99 /\ p.hurdle.atom \in Int
        BY <1>2 DEF Pol!ValidHurdle
    <2> QED BY <1>2, <2>1
<1>3. CASE p.method # "censored_quantile" /\ p.hurdle = Missing
    BY <1>3
<1> QED BY <1>1, <1>2, <1>3

\* A curve that is published passes every gate of its policy, whichever family
\* made it: for any policy that can be made, any pixel and any fits.
THEOREM CurvesPassTheirGates ==
    ASSUME NEW pixel, NEW p, NEW fits, Missing \notin Int, CurveIsSound(pixel, p, fits)
    PROVE  Pol!PublishedCurvesPass(pixel, p, fits)
<1> DEFINE values == Pol!Known(pixel.values)
           record == Pol!Pixel(pixel, p, fits)
<1> SUFFICES ASSUME NEW row \in Pol!Rows(pixel, p, fits)
    PROVE  LET f == fits[row.family]
           IN  /\ \A t \in p.periods : Pol!Within(f.level, p.low, p.high)
               /\ p.method \in Pol!SampleMethods => f.sound
               /\ p.support /\ row.family = Pol!GEV =>
                   \A v \in Pol!ToSet(pixel.values) \ {Missing} : v \in f.support[1]..f.support[2]
               /\ p.method \notin Pol!SampleMethods =>
                    f.converged /\ Pol!Within(f.rmse, Missing, p.rmse)
               /\ row.family # p.family =>
                    row.family = p.fallback /\ record.failed = <<p.family>> /\ p.diagnostics
               /\ row.kind = "hurdle" <=> row.atom # Missing
               /\ row.kind = "hurdle" => row.atom \in 1..99
    BY DEF Pol!PublishedCurvesPass
<1>1. DOMAIN p = PolicyFields /\ Pol!ValidPolicy(p) /\ Pol!ValidHurdle(p.hurdle)
    BY DEF CurveIsSound, Pol!ValidPolicy
<1>2. record.outcome = "fitted"
    BY DEF Pol!Rows
<1>3. record = Pol!Estimate(values, p, fits)
    BY <1>2, PixelOutcomes
<1>4. /\ row.family = record.family
      /\ row.kind = IF p.method = "censored_quantile" \/ p.hurdle # Missing THEN "hurdle" ELSE "fitted"
      /\ row.atom = CASE p.method = "censored_quantile" -> fits[p.family].mass
                      [] p.hurdle # Missing -> p.hurdle.atom
                      [] OTHER -> Missing
    BY <1>2 DEF Pol!Rows
<1> HIDE DEF record
<1>5. CASE /\ record = Pol!Fit(p.family, <<p.family>>, <<>>)
           /\ p.method \in Pol!SampleMethods =>
                Pol!SampleFitPasses(fits[p.family], p.family, values, p)
           /\ p.method \notin Pol!SampleMethods => Pol!QuantileFitPasses(fits[p.family], p)
    <2> DEFINE f == fits[p.family]
    <2>1. row.family = p.family
        BY <1>4, <1>5 DEF Pol!Fit
    <2>2. Pol!LevelsPass(f, p)
        BY <1>5 DEF Pol!SampleFitPasses, Pol!QuantileFitPasses
    <2>3. \A t \in p.periods : Pol!Within(f.level, p.low, p.high)
        BY <2>2 DEF Pol!LevelsPass
    <2>4. p.method \in Pol!SampleMethods => f.sound
        BY <1>5 DEF Pol!SampleFitPasses
    <2>5. p.method \notin Pol!SampleMethods => f.converged /\ Pol!Within(f.rmse, Missing, p.rmse)
        BY <1>5 DEF Pol!QuantileFitPasses
    <2>6. ASSUME p.support, p.family = "genextreme",
                 NEW v \in Pol!ToSet(pixel.values) \ {Missing}
          PROVE  v \in f.support[1]..f.support[2]
        <3>1. p.method \in Pol!SampleMethods
            BY <1>1, <2>6 DEF Pol!ValidPolicy
        <3>2. PICK i \in DOMAIN pixel.values : v = pixel.values[i]
            BY DEF Pol!ToSet
        <3>3. i \in DOMAIN values /\ values[i] = v
            BY <3>2, <2>6 DEF Pol!Known
        <3>4. f.support[1] <= v /\ v <= f.support[2]
            BY <1>5, <2>6, <3>1, <3>3 DEF Pol!SampleFitPasses, Pol!GEV
        <3>5. v \in Int /\ f.support \in Int \X Int
            BY <2>6, <3>2 DEF CurveIsSound
        <3> QED BY <3>4, <3>5
    <2>7. p.method = "censored_quantile" => fits[p.family].mass \in 1..99
        BY <1>5 DEF Pol!QuantileFitPasses, Pol!SampleMethods
    <2>8. /\ row.kind = "hurdle" <=> row.atom # Missing
          /\ row.kind = "hurdle" => row.atom \in 1..99
        <3>1. p.method = "censored_quantile" => p.hurdle = Missing
            BY <1>1 DEF Pol!ValidPolicy
        <3> QED BY <1>1, <1>4, <2>7, <3>1, AtomsArePossible
    <2> QED BY <2>1, <2>3, <2>4, <2>5, <2>6, <2>8 DEF Pol!GEV
<1>6. CASE /\ p.fallback # Missing
           /\ record = Pol!Fit(p.fallback, <<p.family, p.fallback>>, <<p.family>>)
           /\ fits[p.fallback].sound /\ Pol!LevelsPass(fits[p.fallback], p)
           /\ p.fallback # "genextreme" /\ p.method = "sample_lmoments" /\ p.diagnostics
    <2>1. row.family = p.fallback /\ record.failed = <<p.family>>
        BY <1>4, <1>6 DEF Pol!Fit
    <2>2. \A t \in p.periods : Pol!Within(fits[p.fallback].level, p.low, p.high)
        BY <1>6 DEF Pol!LevelsPass
    <2>3. p.method \in Pol!SampleMethods
        BY <1>6 DEF Pol!SampleMethods
    <2>4. p.hurdle = Missing
        BY <1>1, <2>3 DEF Pol!ValidPolicy
    <2>5. row.kind = "fitted" /\ row.atom = Missing
        BY <1>4, <1>6, <2>4
    <2> QED BY <1>6, <2>1, <2>2, <2>3, <2>5 DEF Pol!GEV
<1> QED
    <2>1. Pol!Estimate(values, p, fits).outcome = "fitted"
        BY <1>2, <1>3
    <2> HIDE DEF values
    <2> QED BY <1>1, <1>3, <1>5, <1>6, <2>1, EstimatePasses

\* Where the rows of a pixel come from a family, they are one for each cell.
LEMMA RowsCoverCells ==
    ASSUME NEW pixel, NEW p, NEW fits,
           Pol!Estimate(Pol!Known(pixel.values), p, fits).outcome = "fitted",
           ~Pol!TooFew(Pol!Known(pixel.values))
    PROVE  /\ {r.cell : r \in Pol!Rows(pixel, p, fits)} = pixel.cells
           /\ \A r \in Pol!Rows(pixel, p, fits) :
                r.family = Pol!Estimate(Pol!Known(pixel.values), p, fits).family
<1> DEFINE fit == Pol!Estimate(Pol!Known(pixel.values), p, fits)
           record == Pol!Pixel(pixel, p, fits)
           rows == Pol!Rows(pixel, p, fits)
<1>1. record = IF pixel.cells = {} THEN Pol!Skipped("no_cells", <<p.family>>, <<p.family>>) ELSE fit
    BY DEF Pol!Pixel
<1>2. CASE pixel.cells = {}
    <2>1. record.outcome = "skipped"
        BY <1>1, <1>2 DEF Pol!Skipped
    <2>2. rows = {}
        BY <2>1 DEF Pol!Rows
    <2> QED BY <1>2, <2>2
<1>3. CASE pixel.cells # {}
    <2>1. record = fit /\ record.outcome = "fitted"
        BY <1>1, <1>3
    <2> DEFINE RowOf(c) ==
            [cell |-> c, family |-> record.family,
             kind |-> IF p.method = "censored_quantile" \/ p.hurdle # Missing THEN "hurdle" ELSE "fitted",
             atom |-> CASE p.method = "censored_quantile" -> fits[p.family].mass
                        [] p.hurdle # Missing -> p.hurdle.atom
                        [] OTHER -> Missing]
    <2>2. rows = {RowOf(c) : c \in pixel.cells}
        BY <2>1 DEF Pol!Rows
    <2>3. \A c \in pixel.cells : RowOf(c).cell = c /\ RowOf(c).family = record.family
        OBVIOUS
    <2> HIDE DEF RowOf, rows
    <2>4. {r.cell : r \in rows} = pixel.cells
        BY <2>2, <2>3
    <2>5. \A r \in rows : r.family = record.family
        BY <2>2, <2>3
    <2> QED BY <2>1, <2>4, <2>5 DEF rows
<1> QED BY <1>2, <1>3

\* A policy that can be made can be met: where a family of it fits, a pixel gets
\* a row for each of its cells.
THEOREM PoliciesCanBeMet ==
    ASSUME NEW pixel, NEW p, NEW fits, CurveIsSound(pixel, p, fits)
    PROVE  Pol!AcceptedPoliciesFit(pixel, p, fits)
<1> DEFINE values == Pol!Known(pixel.values)
           fit == Pol!Estimate(values, p, fits)
           Usable(family) ==
              /\ fits[family].sound /\ fits[family].converged /\ fits[family].mass \in 1..99
              /\ Pol!Within(fits[family].rmse, Missing, p.rmse)
              /\ Pol!Within(fits[family].residual, Missing, p.residual)
              /\ Pol!Within(fits[family].level, p.low, p.high)
              /\ \A i \in DOMAIN values : values[i] \in fits[family].support[1]..fits[family].support[2]
           suits == /\ ~Pol!TooFew(values) /\ ~Pol!Alike(values) /\ Pol!Monotone(values)
                    /\ Beyond \in p.periods => p.tail = "lower"
<1>1. DOMAIN p = PolicyFields /\ Pol!ValidPolicy(p)
    BY DEF CurveIsSound
<1>2. ASSUME suits, NEW family \in {p.family, p.fallback}, Usable(family)
      PROVE  Pol!LevelsPass(fits[family], p)
    <2>1. p.periods # {} /\ p.tail = "upper" => Beyond \notin p.periods
        BY <1>2
    <2> QED BY <1>2, <2>1 DEF Pol!LevelsPass
<1>3. ASSUME suits, Usable(p.family)
      PROVE  fit = Pol!Fit(p.family, <<p.family>>, <<>>)
    <2>1. Pol!LevelsPass(fits[p.family], p)
        BY <1>2, <1>3
    <2>2. \A i \in DOMAIN values :
            fits[p.family].support[1] <= values[i] /\ values[i] <= fits[p.family].support[2]
        <3>1. fits[p.family].support \in Int \X Int
            BY DEF CurveIsSound
        <3> QED BY <1>3, <3>1
    <2>3. CASE p.method \in Pol!SampleMethods
        <3>1. Pol!SampleFitPasses(fits[p.family], p.family, values, p)
            BY <1>3, <2>1, <2>2 DEF Pol!SampleFitPasses
        <3> QED BY <1>3, <2>3, <3>1 DEF Pol!Estimate
    <2>4. CASE p.method \notin Pol!SampleMethods
        <3>1. Pol!QuantileFitPasses(fits[p.family], p)
            BY <1>3, <2>1 DEF Pol!QuantileFitPasses
        <3> QED BY <1>3, <2>4, <3>1 DEF Pol!Estimate
    <2> QED BY <2>3, <2>4
<1>4. ASSUME suits, p.fallback # Missing, Usable(p.fallback)
      PROVE  fit.outcome = "fitted"
    <2> DEFINE q == FallbackPolicy(p)
    <2>1. /\ Pol!ValidPolicy(q) /\ q.family = p.fallback /\ q.family # "genextreme"
          /\ q.periods = p.periods /\ q.tail = p.tail /\ q.low = p.low /\ q.high = p.high
          /\ p.method = "sample_lmoments"
        BY <1>1, <1>4, FallbackCanBeMade
    <2>2. Pol!LevelsPass(fits[p.fallback], p)
        BY <1>2, <1>4
    <2>3. fit = IF Pol!SampleFitPasses(fits[p.family], p.family, values, p)
                THEN Pol!Fit(p.family, <<p.family>>, <<>>) ELSE Pol!Refit(values, p, fits)
        BY <1>4, <2>1 DEF Pol!Estimate, Pol!SampleMethods
    <2>4. Pol!Refit(values, p, fits) = Pol!Fit(p.fallback, <<p.family, p.fallback>>, <<p.family>>)
        <3>1. Pol!Refit(values, p, fits)
                = IF Pol!ValidPolicy(q) /\ Pol!SampleFitPasses(fits[q.family], q.family, values, q)
                  THEN Pol!Fit(q.family, <<p.family, p.fallback>>, <<p.family>>)
                  ELSE Pol!Failure(<<p.family, p.fallback>>, <<p.family, p.fallback>>)
            BY DEF Pol!Refit, FallbackPolicy
        <3> HIDE DEF q
        <3>2. Pol!LevelsPass(fits[q.family], q)
            BY <2>1, <2>2 DEF Pol!LevelsPass
        <3>3. Pol!SampleFitPasses(fits[q.family], q.family, values, q)
            BY <1>4, <2>1, <3>2 DEF Pol!SampleFitPasses, Pol!GEV
        <3> QED BY <2>1, <3>1, <3>3
    <2> QED BY <2>3, <2>4 DEF Pol!Fit
<1>5. suits /\ Usable(p.family) =>
        /\ {r.cell : r \in Pol!Rows(pixel, p, fits)} = pixel.cells
        /\ \A r \in Pol!Rows(pixel, p, fits) : r.family = p.family
    <2> SUFFICES ASSUME suits, Usable(p.family)
                 PROVE  /\ {r.cell : r \in Pol!Rows(pixel, p, fits)} = pixel.cells
                        /\ \A r \in Pol!Rows(pixel, p, fits) : r.family = p.family
        OBVIOUS
    <2>1. fit.outcome = "fitted" /\ fit.family = p.family
        BY <1>3 DEF Pol!Fit
    <2> QED BY <2>1, RowsCoverCells
<1>6. suits /\ p.fallback # Missing /\ Usable(p.fallback) =>
        {r.cell : r \in Pol!Rows(pixel, p, fits)} = pixel.cells
    BY <1>4, RowsCoverCells
<1> QED BY <1>5, <1>6 DEF Pol!AcceptedPoliciesFit

\* The beginnings of a sequence of one or two.
LEMMA FirstOfOne == ASSUME NEW a PROVE Pol!IsPrefix(<<a>>, <<a>>)
BY DEF Pol!IsPrefix
LEMMA FirstOfTwo == ASSUME NEW a, NEW b PROVE Pol!IsPrefix(<<a>>, <<a, b>>)
<1> DEFINE S == {a, b}
<1>1. <<a>> \in Seq(S) /\ Len(<<a>>) = 1 /\ <<a>>[1] = a /\ Len(<<a, b>>) = 2 /\ <<a, b>>[1] = a
    OBVIOUS
<1>2. \A i \in 1..1 : <<a>>[i] \in S /\ <<a, b>>[i] \in S
    BY <1>1
<1>3. /\ SubSeq(<<a>>, 1, 1) \in Seq(S) /\ SubSeq(<<a, b>>, 1, 1) \in Seq(S)
      /\ Len(SubSeq(<<a>>, 1, 1)) = 1 /\ Len(SubSeq(<<a, b>>, 1, 1)) = 1
      /\ SubSeq(<<a>>, 1, 1)[1] = a /\ SubSeq(<<a, b>>, 1, 1)[1] = a
    BY <1>1, <1>2, SubSeqProperties
<1>4. SubSeq(<<a>>, 1, 1) = SubSeq(<<a, b>>, 1, 1)
    BY <1>3, SeqEqual
<1> QED BY <1>1, <1>4 DEF Pol!IsPrefix

\* Appending to a sequence of one, and the whole of a sequence of two as its prefix.
LEMMA OneAndAnother == ASSUME NEW a, NEW b PROVE Append(<<a>>, b) = <<a, b>>
<1> DEFINE S == {a, b}
<1>1. <<a>> \in Seq(S) /\ <<a, b>> \in Seq(S) /\ b \in S
    OBVIOUS
<1>2. Len(<<a>>) = 1 /\ <<a>>[1] = a /\ Len(<<a, b>>) = 2 /\ <<a, b>>[1] = a /\ <<a, b>>[2] = b
    OBVIOUS
<1>3. /\ Append(<<a>>, b) \in Seq(S) /\ Len(Append(<<a>>, b)) = 2
      /\ Append(<<a>>, b)[1] = a /\ Append(<<a>>, b)[2] = b
    BY <1>1, <1>2, AppendProperties
<1>4. \A i \in 1..2 : Append(<<a>>, b)[i] = <<a, b>>[i]
    BY <1>2, <1>3
<1> HIDE DEF S
<1> QED BY <1>1, <1>2, <1>3, <1>4, SeqEqual

LEMMA BothOfTwo == ASSUME NEW a, NEW b PROVE Pol!IsPrefix(<<a, b>>, <<a, b>>)
BY DEF Pol!IsPrefix

\* The families that a failed estimate tried and failed.
LEMMA FailuresAccount ==
    ASSUME NEW p, NEW values, NEW fits, Pol!Estimate(values, p, fits).outcome = "failed"
    PROVE  LET fit == Pol!Estimate(values, p, fits)
               both == <<p.family, p.fallback>>
           IN  \/ fit.attempted = <<p.family>> /\ fit.failed \in {<<>>, <<p.family>>}
               \/ p.fallback # Missing /\ fit.attempted = both /\ fit.failed = both
<1> DEFINE fit == Pol!Estimate(values, p, fits)
           both == <<p.family, p.fallback>>
<1>1. CASE fit \in {Pol!Fit(f, a, b) : f \in {p.family}, a \in {<<p.family>>}, b \in {<<>>}}
    BY <1>1 DEF Pol!Fit
<1>2. CASE fit \in {Pol!Failure(<<p.family>>, <<>>), Pol!Failure(<<p.family>>, <<p.family>>)}
    <2>1. fit.attempted = <<p.family>> /\ fit.failed \in {<<>>, <<p.family>>}
        BY <1>2 DEF Pol!Failure
    <2> QED BY <2>1
<1>3. CASE p.fallback # Missing /\ fit = Pol!Refit(values, p, fits)
    <2>1. fit = Pol!Failure(both, both)
        BY <1>3 DEF Pol!Refit, Pol!Fit
    <2>2. fit.attempted = both /\ fit.failed = both
        BY <2>1 DEF Pol!Failure
    <2> QED BY <1>3, <2>2
<1> QED BY <1>1, <1>2, <1>3 DEF Pol!Estimate

\* The record of a pixel accounts for every family that was tried, and a pixel
\* without a row has a reason: for any policy that can be made and any source it
\* accepts.
THEOREM RecordsTellAll ==
    ASSUME NEW pixel, NEW p, NEW source, NEW fits,
           DOMAIN p = PolicyFields, Pol!ValidPolicy(p), Pol!Accepts(p, source)
    PROVE  Pol!RecordsAccount(pixel, p, source, fits)
<1> DEFINE values == Pol!Known(pixel.values)
           fit == Pol!Estimate(values, p, fits)
           record == Pol!Pixel(pixel, p, fits)
           told == Pol!Provenance(p, source)
           both == <<p.family, p.fallback>>
           rows == Pol!Rows(pixel, p, fits)
<1> SUFFICES ASSUME record.outcome # "error"
             PROVE  /\ p.method \in Pol!SampleMethods => told.input = "samples"
                    /\ Pol!IsPrefix(record.attempted, told.families)
                    /\ record.outcome = "skipped" <=> rows = {}
                    /\ record.outcome = "skipped" => record.reason # Missing
                    /\ record.outcome = "fitted" => Append(record.failed, record.family) = record.attempted
                    /\ record.outcome = "skipped" => Pol!IsPrefix(record.failed, record.attempted)
    BY DEF Pol!RecordsAccount
<1>1. p.method \in Pol!SampleMethods => told.input = "samples"
    BY DEF Pol!Accepts, Pol!Provenance
<1>2. told.families = IF p.fallback = Missing THEN <<p.family>> ELSE both
    BY DEF Pol!Provenance
<1>3. Pol!IsPrefix(<<p.family>>, told.families)
    BY <1>2, FirstOfOne, FirstOfTwo, Zenon
<1>4. p.fallback # Missing => Pol!IsPrefix(both, told.families)
    BY <1>2, BothOfTwo, Zenon
<1>5. CASE record.outcome = "skipped"
    <2>1. rows = {}
        BY <1>5 DEF Pol!Rows
    <2>2. CASE record \in {Pol!Skipped(r, <<p.family>>, <<p.family>>) : r \in {"too_few_knots", "no_cells"}}
        <3>1. /\ record.attempted = <<p.family>> /\ record.failed = <<p.family>>
              /\ record.reason \in {"too_few_knots", "no_cells"}
            BY <2>2 DEF Pol!Skipped
        <3>2. record.reason # Missing
            BY <3>1, PoliciesAssumption
        <3>3. Pol!IsPrefix(record.attempted, told.families)
            BY <1>3, <3>1, Zenon
        <3>4. Pol!IsPrefix(record.failed, record.attempted)
            BY <3>1, FirstOfOne, Zenon
        <3> QED BY <1>1, <1>5, <2>1, <3>2, <3>3, <3>4
    <2>3. CASE /\ fit.outcome = "failed"
               /\ record = Pol!Skipped(Pol!FailureReason(p), fit.attempted,
                               IF fit.failed = <<>> THEN <<p.family>> ELSE fit.failed)
        <3>1. /\ record.attempted = fit.attempted
              /\ record.failed = IF fit.failed = <<>> THEN <<p.family>> ELSE fit.failed
              /\ record.reason \in {"censored_fit_failed", "fit_failed"}
            BY <2>3 DEF Pol!Skipped, Pol!FailureReason
        <3>2. record.reason # Missing
            BY <3>1, PoliciesAssumption
        <3>3. \/ record.attempted = <<p.family>> /\ record.failed = <<p.family>>
              \/ p.fallback # Missing /\ record.attempted = both /\ record.failed = both
            <4>1. both # <<>> /\ <<p.family>> # <<>>
                OBVIOUS
            <4>2. \/ fit.attempted = <<p.family>> /\ fit.failed \in {<<>>, <<p.family>>}
                  \/ p.fallback # Missing /\ fit.attempted = both /\ fit.failed = both
                BY <2>3, FailuresAccount
            <4> HIDE DEF record, fit, both
            <4> QED BY <3>1, <4>1, <4>2
        <3>4. /\ Pol!IsPrefix(record.attempted, told.families)
              /\ Pol!IsPrefix(record.failed, record.attempted)
            BY <1>3, <1>4, <3>3, FirstOfOne, BothOfTwo, Zenon
        <3> QED BY <1>1, <1>5, <2>1, <3>2, <3>4
    <2> QED BY <1>5, <2>2, <2>3, PixelOutcomes
<1>6. CASE record.outcome # "skipped"
    <2>1. record = fit /\ fit.outcome = "fitted" /\ pixel.cells # {}
        BY <1>6, PixelOutcomes
    <2>2. rows # {}
        <3>1. PICK c \in pixel.cells : TRUE
            BY <2>1
        <3> QED BY <2>1, <3>1 DEF Pol!Rows
    <2>3. \/ record = Pol!Fit(p.family, <<p.family>>, <<>>)
          \/ p.fallback # Missing /\ record = Pol!Fit(p.fallback, both, <<p.family>>)
        BY <2>1, EstimatePasses
    <2>4. CASE record = Pol!Fit(p.family, <<p.family>>, <<>>)
        <3>1. record.attempted = <<p.family>> /\ record.failed = <<>> /\ record.family = p.family
            BY <2>4 DEF Pol!Fit
        <3>2. Append(<<>>, p.family) = <<p.family>>
            OBVIOUS
        <3>3. Pol!IsPrefix(record.attempted, told.families)
            BY <1>3, <3>1, Zenon
        <3>4. Append(record.failed, record.family) = record.attempted
            BY <3>1, <3>2, Zenon
        <3> QED BY <1>1, <1>6, <2>2, <3>3, <3>4
    <2>5. CASE p.fallback # Missing /\ record = Pol!Fit(p.fallback, both, <<p.family>>)
        <3>1. record.attempted = both /\ record.failed = <<p.family>> /\ record.family = p.fallback
            BY <2>5 DEF Pol!Fit
        <3>2. Append(<<p.family>>, p.fallback) = both
            BY OneAndAnother
        <3>3. Pol!IsPrefix(record.attempted, told.families)
            BY <1>4, <2>5, <3>1, Zenon
        <3>4. Append(record.failed, record.family) = record.attempted
            BY <3>1, <3>2, Zenon
        <3> QED BY <1>1, <1>6, <2>2, <3>3, <3>4
    <2> QED BY <2>3, <2>4, <2>5
<1> QED BY <1>5, <1>6

\* The input of the topic is an estimator, and then a policy for it.
PoliciesIInv ==
    topic = "policies" =>
        \/ input.step = 0 /\ input.data \in PolicyStart
        \/ input.step = 1 /\ \E method \in PolicyStart : input.data \in IngestPolicies(method)

\* What the run checks of policies: they can be met, what they let through passes
\* their gates, and the records tell what was tried.
THEOREM PoliciesStayMet == Asked => []PoliciesAreMet
<1>1. ChooseTopic => PoliciesIInv
    <2> SUFFICES ASSUME ChooseTopic, topic = "policies"
                 PROVE  input.step = 0 /\ input.data \in PolicyStart
        BY DEF PoliciesIInv
    <2>1. PICK start :
            /\ \E kind \in {"selection", "blocks", "curves", "policies", "rasters", "evaluation",
                            "portfolios", "limits"} : \E s : start = <<kind, s>>
            /\ start[1] = "policies" => \E s \in PolicyStart : start = <<"policies", s>>
            /\ topic = start[1] /\ input = [step |-> 0, data |-> start[2]]
        BY DEF ChooseTopic
    <2> QED BY <2>1
<1>2. PoliciesIInv /\ [Choose]_question => PoliciesIInv'
    <2> SUFFICES ASSUME PoliciesIInv, [Choose]_question PROVE PoliciesIInv'
        OBVIOUS
    <2>1. CASE ChoosePolicy
        BY <2>1 DEF ChoosePolicy, PoliciesIInv
    <2>2. CASE topic # "policies" /\ UNCHANGED topic
        BY <2>2 DEF PoliciesIInv
    <2>3. CASE UNCHANGED question
        BY <2>3 DEF PoliciesIInv, question
    <2> QED BY <2>1, <2>2, <2>3
            DEF Choose, ChooseBlocks, ChooseCurve, ChooseSelection, ChooseRaster,
                ChooseEvaluation, ChoosePortfolio, ChooseLimits
<1>3. PoliciesIInv => PoliciesAreMet
    <2> SUFFICES ASSUME NEW method \in PolicyStart, NEW p \in IngestPolicies(method),
                        NEW pixel \in Pixels, NEW a \in Outcomes, NEW b \in Outcomes
                 PROVE  LET fits == [f \in {"genextreme", "gumbel_r", "gumbel_l", "norm"} |->
                                        IF f = p.family THEN a ELSE b]
                        IN  /\ Pol!PublishedCurvesPass(pixel, p, fits)
                            /\ Pol!AcceptedPoliciesFit(pixel, p, fits)
                            /\ \A source \in {s \in PolicySources : Pol!Accepts(p, s)} :
                                    Pol!RecordsAccount(pixel, p, source, fits)
        <3>1. Good \in Outcomes
            BY DEF Outcomes
        <3> QED BY <3>1 DEF PoliciesIInv, PoliciesAreMet
    <2> DEFINE fits == [f \in {"genextreme", "gumbel_r", "gumbel_l", "norm"} |->
                            IF f = p.family THEN a ELSE b]
    <2>1. DOMAIN p = PolicyFields /\ Pol!ValidPolicy(p)
        BY DEF IngestPolicies, PolicyFields
    <2>2. \A i \in DOMAIN pixel.values : pixel.values[i] \in Int \cup {Missing}
        BY DEF Pixels
    <2>3. a.support \in Int \X Int /\ b.support \in Int \X Int
        BY DEF Outcomes, Good
    <2>4. p.family \in DOMAIN fits
        BY DEF IngestPolicies
    <2>5. fits[p.family].support \in Int \X Int
        BY <2>3, <2>4
    <2>6. CurveIsSound(pixel, p, fits)
        BY <2>1, <2>2, <2>5 DEF CurveIsSound
    <2>7. Missing \notin Int
        BY PoliciesAssumption
    <2> HIDE DEF fits
    <2>8. /\ Pol!PublishedCurvesPass(pixel, p, fits)
          /\ Pol!AcceptedPoliciesFit(pixel, p, fits)
          /\ \A source \in {s \in PolicySources : Pol!Accepts(p, s)} :
                Pol!RecordsAccount(pixel, p, source, fits)
        BY <2>1, <2>6, <2>7, CurvesPassTheirGates, PoliciesCanBeMet, RecordsTellAll
    <2> QED BY <2>8 DEF fits
<1> QED BY <1>1, <1>2, <1>3, PTL DEF Asked

(***************************************************************************)
(* The curves of a portfolio.                                              *)
(***************************************************************************)

\* A finite set of integers that is not empty has a least and a greatest element.
LEMMA FiniteBounds ==
    ASSUME NEW S \in SUBSET Int, IsFiniteSet(S), S # {}
    PROVE  /\ \E x \in S : \A y \in S : x <= y
           /\ \E x \in S : \A y \in S : y <= x
<1> DEFINE Low(Part) == \E x \in Part : \A y \in Part : x <= y
           High(Part) == \E x \in Part : \A y \in Part : y <= x
           bad == {Part \in FiniteSubsetsOf(S) : Part # {} /\ ~(Low(Part) /\ High(Part))}
<1>1. SUFFICES ASSUME bad # {} PROVE FALSE
    <2>1. S \in FiniteSubsetsOf(S)
        BY DEF FiniteSubsetsOf
    <2> QED BY <2>1, <1>1
<1>2. PICK Part \in bad : \A U \in bad : ~(<<U, Part>> \in StrictSubsetOrdering(S))
    <2>1. bad \subseteq FiniteSubsetsOf(S)
        OBVIOUS
    <2> HIDE DEF bad
    <2> QED BY <1>1, <2>1, FS_StrictSubsetOrderingWellFounded, WFMin, Zenon
<1>3. Part \subseteq S /\ IsFiniteSet(Part) /\ Part # {}
    BY DEF FiniteSubsetsOf
<1>4. PICK x \in Part : TRUE
    BY <1>3
<1> DEFINE U == Part \ {x}
<1>5. U \in FiniteSubsetsOf(S) /\ <<U, Part>> \in StrictSubsetOrdering(S)
    BY <1>3, <1>4, FS_Subset DEF FiniteSubsetsOf, StrictSubsetOrdering
<1>6. U = {} \/ (Low(U) /\ High(U))
    BY <1>2, <1>5
<1>7. Low(Part) /\ High(Part)
    <2>1. CASE U = {}
        <3>1. \A y \in Part : y = x
            BY <2>1, <1>4
        <3> QED BY <3>1, <1>3, <1>4
    <2>2. CASE Low(U) /\ High(U)
        <3>1. PICK l \in U : \A y \in U : l <= y
            BY <2>2
        <3>2. PICK h \in U : \A y \in U : y <= h
            BY <2>2
        <3>3. Low(Part)
            <4>1. (IF l <= x THEN l ELSE x) \in Part /\ \A y \in Part : (IF l <= x THEN l ELSE x) <= y
                BY <3>1, <1>3, <1>4
            <4> QED BY <4>1
        <3>4. High(Part)
            <4>1. (IF h <= x THEN x ELSE h) \in Part /\ \A y \in Part : y <= (IF h <= x THEN x ELSE h)
                BY <3>2, <1>3, <1>4
            <4> QED BY <4>1
        <3> QED BY <3>3, <3>4
    <2> QED BY <1>6, <2>1, <2>2
<1> QED BY <1>2, <1>7

\* Curves and assets with numbers where they are compared.
CurvesAreSound(curves) ==
    /\ IsFiniteSet(curves)
    /\ \A c \in curves : /\ c.source \in Int /\ c.value \in Int \cup {Missing}
                         /\ c.geometry \in (Int \X Int) \cup {Missing}

\* The instance counts as this module does.
LEMMA PortfolioCardinality == \A x : Por!Cardinality(x) = Cardinality(x)
BY DEF Por!Cardinality, Cardinality

\* A finite set with two elements has more than one.
LEMMA MoreThanOne ==
    ASSUME NEW S, IsFiniteSet(S), NEW c \in S, NEW d \in S, c # d
    PROVE  Por!Cardinality(S) > 1
<1>1. {d} \subseteq S /\ {d} # S /\ IsFiniteSet({d}) /\ Cardinality({d}) = 1
    BY FS_Singleton
<1>2. Cardinality(S) \in Nat /\ Cardinality({d}) <= Cardinality(S) /\ Cardinality({d}) # Cardinality(S)
    BY <1>1, FS_Subset, FS_CardinalityType
<1> QED BY <1>1, <1>2, PortfolioCardinality

\* A set of one element has one.
LEMMA OneIsOne == ASSUME NEW r PROVE Por!Cardinality({r}) = 1
BY FS_Singleton, PortfolioCardinality

\* Of two candidates at most one comes before the other.
LEMMA BeforeIsAsymmetric ==
    ASSUME NEW c, NEW d, NEW x \in Int, c.source \in Int, d.source \in Int,
           c.geometry \in (Int \X Int) \cup {Missing}, d.geometry \in (Int \X Int) \cup {Missing},
           Por!Before(c, d, x)
    PROVE  ~Por!Before(d, c, x)
<1>1. CASE c.geometry = Missing \/ d.geometry = Missing
    BY <1>1 DEF Por!Before
<1>2. CASE c.geometry # Missing /\ d.geometry # Missing
    <2>1. /\ Por!FromCentroid(c.geometry, x) \in Int
          /\ Por!FromCentroid(d.geometry, x) \in Int
        BY <1>2 DEF Por!FromCentroid
    <2> QED BY <1>2, <2>1 DEF Por!Before
<1> QED BY <1>1, <1>2

\* A candidate that comes before one that contains the point contains it.
LEMMA ContainingComesFirst ==
    ASSUME NEW c, NEW d, NEW x \in Int, Por!Before(c, d, x),
           d.geometry # Missing, Por!InsideOf(d.geometry, x)
    PROVE  c.geometry # Missing /\ Por!InsideOf(c.geometry, x)
BY DEF Por!Before

\* The candidates of an asset are curves, and the asset is somewhere.
LEMMA CandidatesAreCurves ==
    ASSUME NEW asset, NEW s, NEW curves, NEW filter, NEW point, IsFiniteSet(curves)
    PROVE  LET all == Por!Candidates(asset, s, curves, filter, point) IN
           /\ all \subseteq curves /\ IsFiniteSet(all)
           /\ all # {} => asset.at # Missing
<1>1. Por!Candidates(asset, s, curves, filter, point) \subseteq curves
    BY DEF Por!Candidates
<1>2. IsFiniteSet(Por!Candidates(asset, s, curves, filter, point))
    BY <1>1, FS_Subset
<1> QED BY <1>1, <1>2 DEF Por!Candidates

\* What is matched: one curve at most of a point, and the one that contains it.
LEMMA MatchedCurve ==
    ASSUME NEW asset, NEW s, NEW curves, NEW filter, CurvesAreSound(curves),
           asset.at \in Int \cup {Missing}
    PROVE  LET all == Por!Candidates(asset, s, curves, filter, TRUE)
               matched == Por!Matched(asset, s, curves, filter, TRUE)
           IN  /\ matched \subseteq all
               /\ \A c, d \in matched : c = d
               /\ \A c \in matched, d \in all :
                    d.geometry # Missing /\ Por!InsideOf(d.geometry, asset.at) =>
                        c.geometry # Missing /\ Por!InsideOf(c.geometry, asset.at)
               /\ matched = {} => all = {} \/ Por!Cardinality(all) > 1
<1> DEFINE all == Por!Candidates(asset, s, curves, filter, TRUE)
           matched == Por!Matched(asset, s, curves, filter, TRUE)
<1>1. matched = {c \in all : \A d \in all \ {c} : Por!Before(c, d, asset.at)}
    BY DEF Por!Matched
<1>2. all \subseteq curves /\ IsFiniteSet(all) /\ (all # {} => asset.at \in Int)
    BY CandidatesAreCurves DEF CurvesAreSound
<1> HIDE DEF all, matched
<1>3. ASSUME NEW c \in matched, NEW d \in matched, c # d
      PROVE  FALSE
    <2>1. Por!Before(c, d, asset.at) /\ Por!Before(d, c, asset.at)
        BY <1>1, <1>3
    <2>2. /\ c.source \in Int /\ c.geometry \in (Int \X Int) \cup {Missing}
          /\ d.source \in Int /\ d.geometry \in (Int \X Int) \cup {Missing}
          /\ asset.at \in Int
        BY <1>1, <1>2 DEF CurvesAreSound
    <2> QED BY <2>1, <2>2, BeforeIsAsymmetric
<1>4. ASSUME NEW c \in matched, NEW d \in all,
             d.geometry # Missing, Por!InsideOf(d.geometry, asset.at)
      PROVE  c.geometry # Missing /\ Por!InsideOf(c.geometry, asset.at)
    <2>1. CASE c = d
        BY <1>4, <2>1
    <2>2. CASE c # d
        <3>1. Por!Before(c, d, asset.at) /\ asset.at \in Int
            BY <1>1, <1>2, <2>2
        <3> QED BY <1>4, <3>1, ContainingComesFirst
    <2> QED BY <2>1, <2>2
<1>5. ASSUME matched = {}, all # {}
      PROVE  Por!Cardinality(all) > 1
    <2>1. PICK c \in all : TRUE
        BY <1>5
    <2>2. PICK d \in all : d # c
        BY <1>1, <1>5, <2>1
    <2> QED BY <1>2, <2>2, MoreThanOne
<1>6. matched \subseteq all
    BY <1>1
<1> QED BY <1>3, <1>4, <1>5, <1>6 DEF all, matched

\* The worst of the curves of a cell is no better than any of them.
LEMMA AggregateIsWorst ==
    ASSUME NEW curves, NEW tail, CurvesAreSound(curves), NEW c \in curves, c.value # Missing,
           Missing \notin Int
    PROVE  LET worst == Por!Aggregate(curves, tail) IN
           /\ worst # Missing
           /\ IF tail = "upper" THEN worst >= c.value ELSE worst <= c.value
<1> DEFINE values == {Por!Value(d) : d \in curves} \ {Missing}
<1>1. c.value \in values /\ values \in SUBSET Int
    BY DEF CurvesAreSound, Por!Value
<1>2. IsFiniteSet(values)
    <2>1. IsFiniteSet({Por!Value(d) : d \in curves})
        <3> DEFINE T == {Por!Value(d) : d \in curves}
                   f == [d \in curves |-> Por!Value(d)]
        <3>1. f \in [curves -> T] /\ \A v \in T : \E d \in curves : f[d] = v
            OBVIOUS
        <3>2. f \in Surjection(curves, T)
            BY <3>1 DEF Surjection
        <3> QED BY <3>2, FS_Surjection DEF CurvesAreSound
    <2> QED BY <2>1, FS_Subset
<1>3. /\ \E v \in values : \A w \in values : w <= v
      /\ \E v \in values : \A w \in values : v <= w
    <2> HIDE DEF values
    <2> QED BY <1>1, <1>2, FiniteBounds
<1>4. Por!Aggregate(curves, tail)
        = IF tail = "upper" THEN Por!Largest(values) ELSE Por!Smallest(values)
    BY <1>1 DEF Por!Aggregate
<1> HIDE DEF values
<1>5. Por!Largest(values) \in values /\ \A w \in values : w <= Por!Largest(values)
    BY <1>3 DEF Por!Largest
<1>6. Por!Smallest(values) \in values /\ \A w \in values : w >= Por!Smallest(values)
    <2>1. \E v \in values : \A w \in values : w >= v
        BY <1>1, <1>3
    <2> QED BY <2>1 DEF Por!Smallest
<1>7. Por!Largest(values) >= c.value /\ Por!Smallest(values) <= c.value
    BY <1>1, <1>5, <1>6
<1> QED BY <1>1, <1>4, <1>5, <1>6, <1>7

\* The rows of one asset and one scenario.
OfPair(rows, id, s) == {r \in rows : r.id = id /\ r.scenario = s}

\* The rows of flood curves that are merged: one for an asset and a scenario.
LEMMA MergedRows ==
    ASSUME NEW assets, NEW curves, NEW filter, NEW point, NEW provider, NEW tail,
           ~point, provider = "jrc",
           \A i, j \in DOMAIN assets : assets[i].id = assets[j].id => i = j,
           NEW i \in DOMAIN assets, NEW s \in Por!Scenarios(curves, filter)
    PROVE  OfPair(Por!Joined(assets, curves, filter, point, provider, tail), assets[i].id, s)
            = {[id |-> assets[i].id, scenario |-> s, source |-> "jrc-cell-aggregate",
                match |-> "h3_cell_aggregate",
                value |-> Por!Aggregate(Por!Matched(assets[i], s, curves, filter, point), tail)]}
<1> DEFINE pairs == (DOMAIN assets) \X Por!Scenarios(curves, filter)
           RowOf(j, t) == [id |-> assets[j].id, scenario |-> t, source |-> "jrc-cell-aggregate",
                match |-> "h3_cell_aggregate",
                value |-> Por!Aggregate(Por!Matched(assets[j], t, curves, filter, point), tail)]
           rows == Por!Joined(assets, curves, filter, point, provider, tail)
<1>1. rows = {RowOf(q[1], q[2]) : q \in pairs}
    BY DEF Por!Joined
<1>2. \A j, t : RowOf(j, t).id = assets[j].id /\ RowOf(j, t).scenario = t
    OBVIOUS
<1> HIDE DEF RowOf, rows
<1>3. \A r \in OfPair(rows, assets[i].id, s) : r = RowOf(i, s)
    <2> SUFFICES ASSUME NEW r \in OfPair(rows, assets[i].id, s) PROVE r = RowOf(i, s)
        OBVIOUS
    <2>1. PICK j \in DOMAIN assets, t \in Por!Scenarios(curves, filter) : r = RowOf(j, t)
        BY <1>1 DEF OfPair
    <2>2. assets[j].id = assets[i].id /\ t = s
        BY <1>2, <2>1 DEF OfPair
    <2> QED BY <2>1, <2>2
<1>4. RowOf(i, s) \in OfPair(rows, assets[i].id, s)
    <2>1. <<i, s>> \in pairs
        OBVIOUS
    <2>2. RowOf(i, s) \in rows
        BY <1>1, <2>1
    <2> QED BY <1>2, <2>2 DEF OfPair
<1>5. OfPair(rows, assets[i].id, s) = {RowOf(i, s)}
    BY <1>3, <1>4
<1> QED BY <1>5 DEF RowOf, rows

\* The other rows: one for each curve that is matched.
LEMMA JoinedRows ==
    ASSUME NEW assets, NEW curves, NEW filter, NEW point, NEW provider, NEW tail,
           ~(~point /\ provider = "jrc"),
           \A i, j \in DOMAIN assets : assets[i].id = assets[j].id => i = j,
           NEW i \in DOMAIN assets, NEW s \in Por!Scenarios(curves, filter)
    PROVE  OfPair(Por!Joined(assets, curves, filter, point, provider, tail), assets[i].id, s)
            = {[id |-> assets[i].id, scenario |-> s, source |-> c.source,
                match |-> IF point /\ c.geometry # Missing THEN "exact_geometry" ELSE "h3_cell",
                value |-> c.value] : c \in Por!Matched(assets[i], s, curves, filter, point)}
<1> DEFINE pairs == (DOMAIN assets) \X Por!Scenarios(curves, filter)
           RowOf(j, t, c) == [id |-> assets[j].id, scenario |-> t, source |-> c.source,
                match |-> IF point /\ c.geometry # Missing THEN "exact_geometry" ELSE "h3_cell",
                value |-> c.value]
           matched(j, t) == Por!Matched(assets[j], t, curves, filter, point)
           rows == Por!Joined(assets, curves, filter, point, provider, tail)
<1>1. rows = UNION {{RowOf(q[1], q[2], c) : c \in matched(q[1], q[2])} : q \in pairs}
    BY DEF Por!Joined
<1>2. \A j, t, c : RowOf(j, t, c).id = assets[j].id /\ RowOf(j, t, c).scenario = t
    OBVIOUS
<1> HIDE DEF RowOf, rows, matched
<1>3. \A r \in OfPair(rows, assets[i].id, s) : r \in {RowOf(i, s, c) : c \in matched(i, s)}
    <2> SUFFICES ASSUME NEW r \in OfPair(rows, assets[i].id, s)
                 PROVE  r \in {RowOf(i, s, c) : c \in matched(i, s)}
        OBVIOUS
    <2>1. PICK j \in DOMAIN assets, t \in Por!Scenarios(curves, filter) :
            r \in {RowOf(j, t, c) : c \in matched(j, t)}
        BY <1>1 DEF OfPair
    <2>2. assets[j].id = assets[i].id /\ t = s
        BY <1>2, <2>1 DEF OfPair
    <2> QED BY <2>1, <2>2
<1>4. \A c \in matched(i, s) : RowOf(i, s, c) \in OfPair(rows, assets[i].id, s)
    <2> SUFFICES ASSUME NEW c \in matched(i, s) PROVE RowOf(i, s, c) \in OfPair(rows, assets[i].id, s)
        OBVIOUS
    <2>1. <<i, s>> \in pairs
        OBVIOUS
    <2>2. RowOf(i, s, c) \in rows
        BY <1>1, <2>1
    <2> QED BY <1>2, <2>2 DEF OfPair
<1>5. OfPair(rows, assets[i].id, s) = {RowOf(i, s, c) : c \in matched(i, s)}
    BY <1>3, <1>4
<1> QED BY <1>5 DEF RowOf, rows, matched

\* Of any portfolio, curves and filter: it is refused for a reason, or every asset
\* has one row for every scenario, of the curve that contains it if there is one,
\* and no better than any curve of its cell.
THEOREM EveryAssetIsJoined ==
    ASSUME NEW assets, NEW curves, NEW filter, NEW point \in BOOLEAN, NEW provider, NEW tail,
           CurvesAreSound(curves), \A i \in DOMAIN assets : assets[i].at \in Int \cup {Missing},
           Missing \notin Int,
           Error # Por!Joined(assets, curves, filter, point, provider, tail)
    PROVE  Por!EveryAssetHasItsCurve(assets, curves, filter, point, provider, tail)
<1> DEFINE result == Por!Evaluate(assets, curves, filter, point, provider, tail)
           merge == ~point /\ provider = "jrc"
           scenarios == Por!Scenarios(curves, filter)
           all(i, s) == Por!Candidates(assets[i], s, curves, filter, point)
           matched(i, s) == Por!Matched(assets[i], s, curves, filter, point)
           containing(i, s) == {c \in all(i, s) : c.geometry # Missing /\ Por!InsideOf(c.geometry, assets[i].at)}
<1>1. \A i \in DOMAIN assets, s \in scenarios :
        /\ all(i, s) \subseteq curves /\ IsFiniteSet(all(i, s)) /\ matched(i, s) \subseteq all(i, s)
        /\ matched(i, s) = {} => all(i, s) = {} \/ Por!Cardinality(all(i, s)) > 1
        /\ ~point => matched(i, s) = all(i, s)
    <2> SUFFICES ASSUME NEW i \in DOMAIN assets, NEW s \in scenarios
                 PROVE  /\ all(i, s) \subseteq curves /\ IsFiniteSet(all(i, s)) /\ matched(i, s) \subseteq all(i, s)
                        /\ matched(i, s) = {} => all(i, s) = {} \/ Por!Cardinality(all(i, s)) > 1
                        /\ ~point => matched(i, s) = all(i, s)
        OBVIOUS
    <2>1. all(i, s) \subseteq curves /\ IsFiniteSet(all(i, s))
        BY CandidatesAreCurves DEF CurvesAreSound
    <2>2. CASE point
        <3>1. point = TRUE
            BY <2>2
        <3> QED BY <2>1, <2>2, <3>1, MatchedCurve
    <2>3. CASE ~point
        BY <2>1, <2>3 DEF Por!Matched
    <2> QED BY <2>2, <2>3
<1>2. CASE result = Error
    <2>1. Por!Refused(assets, curves, filter, point, merge)
        BY <1>2 DEF Por!Evaluate
    <2>2. \/ \E i, j \in DOMAIN assets : i # j /\ assets[i].id = assets[j].id
          \/ \E i \in DOMAIN assets : assets[i].id = Missing
          \/ \E i \in DOMAIN assets, s \in scenarios : Por!Ambiguous(assets[i], all(i, s), point)
          \/ \E i \in DOMAIN assets, s \in scenarios : matched(i, s) = {}
        BY <2>1 DEF Por!Refused
    <2>3. \A i \in DOMAIN assets, s \in scenarios :
            Por!Ambiguous(assets[i], all(i, s), point) => Por!Cardinality(all(i, s)) > 1
        BY DEF Por!Ambiguous
    <2>4. \/ \E i, j \in DOMAIN assets : i # j /\ assets[i].id = assets[j].id
          \/ \E i \in DOMAIN assets : assets[i].id = Missing
          \/ \E i \in DOMAIN assets, s \in scenarios : all(i, s) = {} \/ Por!Cardinality(all(i, s)) > 1
        <3> HIDE DEF all, matched, scenarios
        <3> QED BY <1>1, <2>2, <2>3
    <2> QED BY <1>2, <2>4 DEF Por!EveryAssetHasItsCurve
<1>3. CASE result # Error
    <2>1. /\ ~Por!Refused(assets, curves, filter, point, merge)
          /\ result = Por!Joined(assets, curves, filter, point, provider, tail)
        BY <1>3 DEF Por!Evaluate
    <2>2. \A i, j \in DOMAIN assets : assets[i].id = assets[j].id => i = j
        BY <2>1 DEF Por!Refused
    <2>3. \A i \in DOMAIN assets, s \in scenarios :
            /\ matched(i, s) # {}
            /\ ~merge => ~Por!Ambiguous(assets[i], all(i, s), point)
        BY <2>1 DEF Por!Refused
    <2> SUFFICES ASSUME NEW i \in DOMAIN assets, NEW s \in scenarios,
                        NEW own, own = OfPair(result, assets[i].id, s)
                 PROVE  /\ Por!Cardinality(own) = 1
                        /\ \A r \in own :
                            /\ (point /\ containing(i, s) # {}) =>
                                    \E c \in containing(i, s) : r.source = c.source /\ r.value = c.value
                            /\ (provider # "jrc" \/ point) =>
                                    \E c \in all(i, s) : r.source = c.source /\ r.value = c.value
                            /\ ~point => \A c \in all(i, s) : c.value # Missing =>
                                    r.value # Missing /\ (IF tail = "upper" THEN r.value >= c.value
                                                          ELSE r.value <= c.value)
        BY <1>3 DEF Por!EveryAssetHasItsCurve, OfPair
    <2> HIDE DEF result
    <2>4. CASE merge
        <3> DEFINE worst == Por!Aggregate(matched(i, s), tail)
        <3>1. own = {[id |-> assets[i].id, scenario |-> s, source |-> "jrc-cell-aggregate",
                      match |-> "h3_cell_aggregate", value |-> worst]}
            BY <2>1, <2>2, <2>4, MergedRows
        <3>2. Por!Cardinality(own) = 1 /\ \A r \in own : r.value = worst
            <4>1. Por!Cardinality(own) = 1
                BY <3>1, OneIsOne, Zenon
            <4>2. \A r \in own : r.value = worst
                BY <3>1
            <4> QED BY <4>1, <4>2
        <3>3. matched(i, s) = all(i, s) /\ CurvesAreSound(all(i, s))
            BY <1>1, <2>4 DEF CurvesAreSound
        <3>4. \A c \in all(i, s) : c.value # Missing =>
                worst # Missing /\ (IF tail = "upper" THEN worst >= c.value ELSE worst <= c.value)
            <4> HIDE DEF all, matched
            <4> QED BY <3>3, AggregateIsWorst
        <3> QED BY <2>4, <3>2, <3>4
    <2>5. CASE ~merge
        <3>1. PICK c \in matched(i, s) : \A d \in matched(i, s) : d = c
            <4>1. CASE point
                <5>1. \A c, d \in matched(i, s) : c = d
                    BY <4>1, MatchedCurve
                <5> QED BY <2>3, <5>1
            <4>2. CASE ~point
                <5>1. ~(Por!Cardinality(all(i, s)) > 1)
                    BY <2>3, <2>5, <4>2 DEF Por!Ambiguous
                <5>2. \A c, d \in all(i, s) : c = d
                    <6> HIDE DEF all, matched
                    <6> QED BY <1>1, <5>1, MoreThanOne
                <5> QED BY <1>1, <2>3, <4>2, <5>2
            <4> QED BY <4>1, <4>2
        <3> DEFINE row == [id |-> assets[i].id, scenario |-> s, source |-> c.source,
                match |-> IF point /\ c.geometry # Missing THEN "exact_geometry" ELSE "h3_cell",
                value |-> c.value]
        <3>2. own = {[id |-> assets[i].id, scenario |-> s, source |-> d.source,
                      match |-> IF point /\ d.geometry # Missing THEN "exact_geometry" ELSE "h3_cell",
                      value |-> d.value] : d \in matched(i, s)}
            BY <2>1, <2>2, <2>5, JoinedRows
        <3>3. own = {row}
            BY <3>1, <3>2
        <3>4. Por!Cardinality(own) = 1 /\ \A r \in own : r.source = c.source /\ r.value = c.value
            <4>1. Por!Cardinality(own) = 1
                BY <3>3, OneIsOne, Zenon
            <4>2. \A r \in own : r.source = c.source /\ r.value = c.value
                BY <3>3
            <4> QED BY <4>1, <4>2
        <3>5. c \in all(i, s) /\ c \in curves /\ c.value \in Int \cup {Missing}
            BY <1>1 DEF CurvesAreSound
        <3>6. point /\ containing(i, s) # {} => c \in containing(i, s)
            <4> SUFFICES ASSUME point, NEW d \in containing(i, s) PROVE c \in containing(i, s)
                OBVIOUS
            <4>1. c.geometry # Missing /\ Por!InsideOf(c.geometry, assets[i].at)
                BY MatchedCurve
            <4> QED BY <3>5, <4>1
        <3>7. ~point => \A d \in all(i, s) : d = c
            BY <1>1, <3>1
        <3>8. c.value # Missing => c.value >= c.value /\ c.value <= c.value
            BY <3>5
        <3> HIDE DEF all, matched, containing, row
        <3> QED BY <3>4, <3>5, <3>6, <3>7, <3>8
    <2> QED BY <2>4, <2>5
<1> QED BY <1>2, <1>3

(***************************************************************************)
(* Windows, strips and samples of rasters.                                 *)
(***************************************************************************)

\* The least and the greatest of two numbers.
LEMMA OfTwo ==
    ASSUME NEW a \in Int, NEW b \in Int
    PROVE  /\ Scan!Max({a, b}) = IF a >= b THEN a ELSE b
           /\ Scan!Min({a, b}) = IF a <= b THEN a ELSE b
<1>1. \E x \in {a, b} : \A y \in {a, b} : x >= y
    OBVIOUS
<1>2. \E x \in {a, b} : \A y \in {a, b} : x <= y
    OBVIOUS
<1>3. Scan!Max({a, b}) \in {a, b} /\ \A y \in {a, b} : Scan!Max({a, b}) >= y
    BY <1>1 DEF Scan!Max
<1>4. Scan!Min({a, b}) \in {a, b} /\ \A y \in {a, b} : Scan!Min({a, b}) <= y
    BY <1>2 DEF Scan!Min
<1> QED BY <1>3, <1>4

\* A product grows with a factor.
LEMMA ProductGrows ==
    ASSUME NEW u \in Nat \ {0}, NEW i \in Int, NEW j \in Int
    PROVE  /\ i <= j <=> i * u <= j * u
           /\ (i + 1) * u = i * u + u
           /\ i * u \in Int
<1>1. i * u \in Int /\ j * u \in Int /\ (i + 1) * u = i * u + u
    OBVIOUS
<1>2. i <= j => i * u <= j * u
    <2> SUFFICES ASSUME i <= j PROVE i * u <= j * u
        OBVIOUS
    <2>1. PICK d \in Nat : j = i + d
        <3>1. j - i \in Nat /\ j = i + (j - i)
            OBVIOUS
        <3> QED BY <3>1
    <2>2. j * u = i * u + d * u /\ d * u \in Nat
        BY <2>1
    <2> QED BY <1>1, <2>2
<1>3. i > j => i * u > j * u
    <2> SUFFICES ASSUME i > j PROVE i * u > j * u
        OBVIOUS
    <2>1. PICK d \in Nat : i = j + 1 + d
        <3>1. i - j - 1 \in Nat /\ i = j + 1 + (i - j - 1)
            OBVIOUS
        <3> QED BY <3>1
    <2>2. i * u = j * u + u + d * u /\ d * u \in Nat
        BY <2>1
    <2> QED BY <1>1, <2>2
<1> QED BY <1>1, <1>2, <1>3

\* The pixel of a coordinate.
LEMMA FloorIs ==
    ASSUME Unit \in Nat \ {0}, NEW x \in Int, NEW i \in Int
    PROVE  Scan!Floor(x) \in Int /\ (i <= Scan!Floor(x) <=> i * Unit <= x)
<1> DEFINE q == x \div Unit
<1>1. q \in Int /\ x % Unit \in 0..Unit - 1 /\ x = Unit * q + (x % Unit)
    OBVIOUS
<1> HIDE DEF q
<1>2. q * Unit <= x /\ x < q * Unit + Unit
    BY <1>1
<1>3. i <= q => i * Unit <= x
    <2>1. i <= q => i * Unit <= q * Unit
        BY <1>1, ProductGrows
    <2>2. q * Unit \in Int /\ i * Unit \in Int
        BY <1>1, ProductGrows
    <2> QED BY <1>2, <2>1, <2>2
<1>4. i > q => i * Unit > x
    <2>1. q + 1 <= i => (q + 1) * Unit <= i * Unit
        BY <1>1, ProductGrows
    <2>2. (q + 1) * Unit = q * Unit + Unit /\ q * Unit \in Int /\ i * Unit \in Int
        BY <1>1, ProductGrows
    <2> QED BY <1>1, <1>2, <2>1, <2>2
<1>5. Scan!Floor(x) = q
    BY DEF Scan!Floor, q
<1> QED BY <1>1, <1>3, <1>4, <1>5

LEMMA CeilIs ==
    ASSUME Unit \in Nat \ {0}, NEW x \in Int, NEW i \in Int
    PROVE  Scan!Ceil(x) \in Int /\ (i < Scan!Ceil(x) <=> i * Unit < x)
<1>1. -x \in Int /\ -i \in Int
    OBVIOUS
<1>2. Scan!Floor(-x) \in Int /\ (-i <= Scan!Floor(-x) <=> (-i) * Unit <= -x)
    BY <1>1, FloorIs
<1>3. (-i) * Unit = -(i * Unit) /\ i * Unit \in Int
    OBVIOUS
<1>4. Scan!Ceil(x) = -Scan!Floor(-x)
    BY DEF Scan!Ceil, Scan!Floor
<1> QED BY <1>2, <1>3, <1>4

\* The pixels of a GeoTIFF window and of a Zarr window.
LEMMA TiffPixels ==
    ASSUME Unit \in Nat \ {0}, Epsilon \in Nat,
           NEW low \in Int, NEW high \in Int, NEW count \in Nat, NEW i \in Int
    PROVE  i \in Scan!Indices(Scan!TiffRange(low, high, count)) <=>
            /\ 0 <= i /\ i < count /\ low + Epsilon < i * Unit + Unit
            /\ i * Unit <= low + Epsilon \/ i * Unit < high - Epsilon
<1> DEFINE start == Scan!Floor(low + Epsilon)
           ceil == Scan!Ceil(high - Epsilon)
           stop == Scan!Max({start + 1, ceil})
<1>1. start \in Int /\ (i <= start <=> i * Unit <= low + Epsilon)
    BY FloorIs
<1>2. i + 1 <= start <=> i * Unit + Unit <= low + Epsilon
    <2>1. i + 1 <= start <=> (i + 1) * Unit <= low + Epsilon
        BY FloorIs
    <2> QED BY <2>1, ProductGrows
<1>3. ceil \in Int /\ (i < ceil <=> i * Unit < high - Epsilon)
    BY CeilIs
<1>4. Scan!TiffRange(low, high, count)
        = [start |-> Scan!Max({0, start}), stop |-> Scan!Min({count, stop})]
    BY DEF Scan!TiffRange, Scan!Span
<1> HIDE DEF start, ceil
<1>5. stop = IF start + 1 >= ceil THEN start + 1 ELSE ceil
    BY <1>1, <1>3, OfTwo
<1> HIDE DEF stop
<1>6. /\ Scan!Max({0, start}) = IF 0 >= start THEN 0 ELSE start
      /\ Scan!Min({count, stop}) = IF count <= stop THEN count ELSE stop
    <2>1. stop \in Int /\ count \in Int /\ 0 \in Int
        BY <1>1, <1>3, <1>5
    <2> QED BY <1>1, <2>1, OfTwo
<1>7. i \in Scan!Indices(Scan!TiffRange(low, high, count)) <=>
        0 <= i /\ start <= i /\ i < count /\ i < stop
    BY <1>1, <1>3, <1>4, <1>5, <1>6 DEF Scan!Indices
<1>8. i < stop <=> i <= start \/ i < ceil
    BY <1>1, <1>3, <1>5
<1>9. start <= i <=> low + Epsilon < i * Unit + Unit
    <2>1. i * Unit \in Int
        OBVIOUS
    <2> QED BY <1>1, <1>2, <2>1
<1> QED BY <1>1, <1>3, <1>7, <1>8, <1>9

LEMMA ZarrPixels ==
    ASSUME Unit \in Nat \ {0}, NEW low \in Int, NEW high \in Int, NEW count \in Nat, NEW i \in Int
    PROVE  i \in Scan!Indices(Scan!ZarrRange(low, high, count)) <=>
            0 <= i /\ i < count /\ low < i * Unit + Unit /\ i * Unit < high
<1> DEFINE start == Scan!Floor(low)
           ceil == Scan!Ceil(high)
<1>1. start \in Int /\ (i + 1 <= start <=> i * Unit + Unit <= low)
    <2>1. i + 1 <= start <=> (i + 1) * Unit <= low
        BY FloorIs
    <2> QED BY <2>1, FloorIs, ProductGrows
<1>2. ceil \in Int /\ (i < ceil <=> i * Unit < high)
    BY CeilIs
<1>3. Scan!ZarrRange(low, high, count)
        = [start |-> Scan!Max({0, start}), stop |-> Scan!Min({count, ceil})]
    BY DEF Scan!ZarrRange, Scan!Span
<1> HIDE DEF start, ceil
<1>4. /\ Scan!Max({0, start}) = IF 0 >= start THEN 0 ELSE start
      /\ Scan!Min({count, ceil}) = IF count <= ceil THEN count ELSE ceil
    BY <1>1, <1>2, OfTwo
<1>5. i \in Scan!Indices(Scan!ZarrRange(low, high, count)) <=>
        0 <= i /\ start <= i /\ i < count /\ i < ceil
    BY <1>1, <1>2, <1>3, <1>4 DEF Scan!Indices
<1>6. start <= i <=> low < i * Unit + Unit
    <2>1. i * Unit \in Int
        OBVIOUS
    <2> QED BY <1>1, <2>1
<1> QED BY <1>2, <1>5, <1>6

LEMMA IndicesAreIntegers == ASSUME NEW span, NEW i \in Scan!Indices(span) PROVE i \in Int
BY DEF Scan!Indices

\* Bounds on edges of pixels select the same pixels when they are off by the slack.
LEMMA NoiseIsHarmless ==
    ASSUME Unit \in Nat \ {0}, Epsilon \in Nat, 2 * Epsilon < Unit,
           NEW low \in Int, NEW high \in Int, NEW count \in Nat, NEW i \in Int,
           low % Unit = 0, high % Unit = 0, low < high,
           NEW d \in -Epsilon..Epsilon, NEW e \in -Epsilon..Epsilon
    PROVE  i \in Scan!Indices(Scan!TiffRange(low + d, high + e, count)) <=>
                i \in 0..count - 1 /\ low <= i * Unit /\ i * Unit < high
<1>1. PICK a \in Int : low = a * Unit
    <2>1. low = Unit * (low \div Unit) + (low % Unit) /\ low \div Unit \in Int
        OBVIOUS
    <2>2. PICK q \in Int : q = low \div Unit
        BY <2>1
    <2>3. low = q * Unit
        BY <2>1, <2>2
    <2> QED BY <2>3
<1>2. PICK b \in Int : high = b * Unit
    <2>1. high = Unit * (high \div Unit) + (high % Unit) /\ high \div Unit \in Int
        OBVIOUS
    <2>2. PICK q \in Int : q = high \div Unit
        BY <2>1
    <2>3. high = q * Unit
        BY <2>1, <2>2
    <2> QED BY <2>3
<1>3. i \in Scan!Indices(Scan!TiffRange(low + d, high + e, count)) <=>
        /\ 0 <= i /\ i < count /\ low + d + Epsilon < i * Unit + Unit
        /\ i * Unit <= low + d + Epsilon \/ i * Unit < high + e - Epsilon
    BY TiffPixels
<1>4. /\ a <= i <=> a * Unit <= i * Unit
      /\ i + 1 <= a <=> (i + 1) * Unit <= a * Unit
      /\ i <= a <=> i * Unit <= a * Unit
      /\ a + 1 <= i <=> (a + 1) * Unit <= i * Unit
      /\ b <= i <=> b * Unit <= i * Unit
      /\ i + 1 <= b <=> (i + 1) * Unit <= b * Unit
      /\ (i + 1) * Unit = i * Unit + Unit /\ (a + 1) * Unit = a * Unit + Unit
    BY <1>1, <1>2, ProductGrows
<1>5. i * Unit \in Int /\ Unit \in Int
    OBVIOUS
<1>6. PICK p \in Int : p = i * Unit
    BY <1>5
<1>7. low + d + Epsilon < p + Unit <=> low <= p
    <2>1. low <= p \/ p + Unit <= low
        BY <1>1, <1>4, <1>6
    <2> QED BY <2>1, <1>6
<1>8. low <= p => (p <= low + d + Epsilon <=> p = low)
    <2>1. p <= low \/ low + Unit <= p
        BY <1>1, <1>4, <1>6
    <2> QED BY <2>1
<1>9. p < high + e - Epsilon <=> p < high
    <2>1. p + Unit <= high \/ high <= p
        BY <1>2, <1>4, <1>6
    <2> QED BY <2>1
<1> QED BY <1>3, <1>6, <1>7, <1>8, <1>9

\* What a window of a raster touches, whatever the size of the pixels, the bounds
\* and the length of the axis.
THEOREM WindowsAreTouched ==
    ASSUME Unit \in Nat \ {0}, Epsilon \in Nat, 2 * Epsilon < Unit,
           NEW low \in Int, NEW high \in Int, low <= high, NEW count \in Nat
    PROVE  Scan!WindowIsTouched(low, high, count)
<1> DEFINE tiff == Scan!Indices(Scan!TiffRange(low, high, count))
           zarr == Scan!Indices(Scan!ZarrRange(low, high, count))
           overlap(i) == Scan!Min({high, (i + 1) * Unit}) - Scan!Max({low, i * Unit})
<1>1. ASSUME NEW i \in 0..count - 1
      PROVE  /\ overlap(i) > Epsilon => i \in tiff
             /\ overlap(i) > 0 => i \in zarr
             /\ i \in tiff => overlap(i) >= -Epsilon
             /\ i \in zarr => overlap(i) >= 0
    <2>1. i * Unit \in Int /\ (i + 1) * Unit = i * Unit + Unit
        BY ProductGrows
    <2>2. PICK p \in Int : p = i * Unit
        BY <2>1
    <2>3. overlap(i) = (IF high <= p + Unit THEN high ELSE p + Unit) - (IF low >= p THEN low ELSE p)
        <3>1. high \in Int /\ low \in Int /\ p + Unit \in Int /\ (i + 1) * Unit = p + Unit
            BY <2>1, <2>2
        <3>2. Scan!Min({high, p + Unit}) = IF high <= p + Unit THEN high ELSE p + Unit
            BY <3>1, OfTwo
        <3>3. Scan!Max({low, p}) = IF low >= p THEN low ELSE p
            BY <3>1, OfTwo
        <3> QED BY <2>2, <3>1, <3>2, <3>3
    <2>4. i \in tiff <=> low + Epsilon < p + Unit /\ (p <= low + Epsilon \/ p < high - Epsilon)
        BY <2>2, TiffPixels
    <2>5. i \in zarr <=> low < p + Unit /\ p < high
        BY <2>2, ZarrPixels
    <2> HIDE DEF tiff, zarr, overlap
    <2> QED BY <2>3, <2>4, <2>5
<1>2. ASSUME low % Unit = 0, high % Unit = 0, low < high,
             NEW d \in -Epsilon..Epsilon, NEW e \in -Epsilon..Epsilon
      PROVE  Scan!Indices(Scan!TiffRange(low + d, high + e, count)) = tiff
    <2>1. 0 \in -Epsilon..Epsilon /\ low + 0 = low /\ high + 0 = high
        OBVIOUS
    <2>2. \A i \in Int :
            /\ i \in tiff <=> i \in 0..count - 1 /\ low <= i * Unit /\ i * Unit < high
            /\ i \in Scan!Indices(Scan!TiffRange(low + d, high + e, count)) <=>
                    i \in 0..count - 1 /\ low <= i * Unit /\ i * Unit < high
        BY <1>2, <2>1, NoiseIsHarmless
    <2> HIDE DEF tiff
    <2>3. tiff \subseteq Int /\ Scan!Indices(Scan!TiffRange(low + d, high + e, count)) \subseteq Int
        BY IndicesAreIntegers DEF tiff
    <2> QED BY <2>2, <2>3
<1>3. ASSUME low = high, low % Unit # 0
      PROVE  zarr = {Scan!Floor(low)} \cap 0..count - 1
    <2>1. ASSUME NEW i \in Int PROVE i \in zarr <=> i = Scan!Floor(low) /\ i \in 0..count - 1
        <3>1. i \in zarr <=> 0 <= i /\ i < count /\ low < i * Unit + Unit /\ i * Unit < low
            BY <1>3, ZarrPixels
        <3>2. Scan!Floor(low) \in Int /\ (i <= Scan!Floor(low) <=> i * Unit <= low)
            BY FloorIs
        <3>3. i + 1 <= Scan!Floor(low) <=> i * Unit + Unit <= low
            <4>1. i + 1 <= Scan!Floor(low) <=> (i + 1) * Unit <= low
                BY FloorIs
            <4> QED BY <4>1, ProductGrows
        <3>4. i * Unit # low
            <4> SUFFICES ASSUME i * Unit = low PROVE FALSE
                OBVIOUS
            <4>1. low = Unit * (low \div Unit) + (low % Unit) /\ low \div Unit \in Int /\ low % Unit \in 0..Unit - 1
                OBVIOUS
            <4>2. PICK q \in Int : q = low \div Unit
                BY <4>1
            <4>3. q * Unit < i * Unit /\ i * Unit < q * Unit + Unit
                BY <1>3, <4>1, <4>2
            <4>4. /\ i <= q <=> i * Unit <= q * Unit
                  /\ q + 1 <= i <=> (q + 1) * Unit <= i * Unit
                  /\ (q + 1) * Unit = q * Unit + Unit
                BY ProductGrows
            <4>5. q * Unit \in Int /\ i * Unit \in Int
                OBVIOUS
            <4> QED BY <4>3, <4>4, <4>5
        <3>5. i * Unit \in Int
            OBVIOUS
        <3> QED BY <3>1, <3>2, <3>3, <3>4, <3>5
    <2>2. zarr \subseteq Int /\ Scan!Floor(low) \in Int
        BY IndicesAreIntegers, FloorIs
    <2> HIDE DEF zarr
    <2> QED BY <2>1, <2>2
<1> QED BY <1>1, <1>2, <1>3 DEF Scan!WindowIsTouched

\* A quotient, and what is rounded down and up to a multiple.
LEMMA QuotientIs ==
    ASSUME NEW u \in Nat \ {0}, NEW x \in Int
    PROVE  /\ x \div u \in Int
           /\ (x \div u) * u <= x /\ x < (x \div u) * u + u
<1>1. x \div u \in Int /\ x % u \in 0..u - 1 /\ x = u * (x \div u) + (x % u)
    OBVIOUS
<1>2. PICK q \in Int : q = x \div u
    BY <1>1
<1>3. PICK r \in 0..u - 1 : r = x % u
    BY <1>1
<1>4. x = q * u + r
    BY <1>1, <1>2, <1>3
<1>5. q * u \in Int
    BY <1>2
<1>6. q * u <= x /\ x < q * u + u
    BY <1>4, <1>5
<1> QED BY <1>1, <1>2, <1>6

LEMMA QuotientAtLeast ==
    ASSUME NEW u \in Nat \ {0}, NEW x \in Int, NEW k \in Int
    PROVE  k <= x \div u <=> k * u <= x
<1>1. PICK q \in Int : q = x \div u
    BY QuotientIs
<1>2. q * u <= x /\ x < q * u + u
    BY <1>1, QuotientIs
<1>3. /\ k <= q <=> k * u <= q * u
      /\ q + 1 <= k <=> (q + 1) * u <= k * u
      /\ (q + 1) * u = q * u + u
    BY ProductGrows
<1>4. k * u \in Int /\ q * u \in Int
    OBVIOUS
<1> QED BY <1>1, <1>2, <1>3, <1>4

\* The least and the greatest of two numbers.
LEMMA BlocksOfTwo ==
    ASSUME NEW a \in Int, NEW b \in Int
    PROVE  /\ Blk!Max({a, b}) = IF a >= b THEN a ELSE b
           /\ Blk!Min({a, b}) = IF a <= b THEN a ELSE b
<1>1. \E x \in {a, b} : \A y \in {a, b} : x >= y
    OBVIOUS
<1>2. \E x \in {a, b} : \A y \in {a, b} : x <= y
    OBVIOUS
<1>3. Blk!Max({a, b}) \in {a, b} /\ \A y \in {a, b} : Blk!Max({a, b}) >= y
    BY <1>1 DEF Blk!Max
<1>4. Blk!Min({a, b}) \in {a, b} /\ \A y \in {a, b} : Blk!Min({a, b}) <= y
    BY <1>2 DEF Blk!Min
<1> QED BY <1>3, <1>4

\* The rows of a strip are at least a block, and within the budget unless a single
\* block of rows exceeds it.
LEMMA StripFits ==
    ASSUME NEW budget \in Nat, NEW width \in Nat \ {0}, NEW height \in Nat \ {0}, NEW leading \in Nat \ {0}
    PROVE  LET rows == Blk!StripRows(budget, width, height, leading) IN
           /\ rows \in Nat \ {0}
           /\ rows * width * leading <= Blk!Max({budget, height * width * leading})
<1>1. PICK a \in Nat \ {0} : a = width * leading
    OBVIOUS
<1> DEFINE share == budget \div a
           fit == IF height >= share THEN height ELSE share
           whole == (fit \div height) * height
           rows == IF height >= whole THEN height ELSE whole
<1>2. share \in Int /\ share * a <= budget
    BY QuotientIs
<1>3. Blk!StripRows(budget, width, height, leading) = rows
    <2>1. Blk!Max({1, width * leading}) = a
        BY <1>1, BlocksOfTwo
    <2>2. Blk!Max({height, share}) = fit
        BY <1>2, BlocksOfTwo
    <2>3. fit \in Int /\ whole \in Int
        <3>1. fit \in Int
            BY <1>2
        <3>2. fit \div height \in Int
            BY <3>1
        <3> QED BY <3>1, <3>2
    <2>4. Blk!Max({height, whole}) = rows
        BY <2>3, BlocksOfTwo
    <2> QED BY <2>1, <2>2, <2>4 DEF Blk!StripRows
<1> HIDE DEF share
<1>4. fit \in Nat \ {0} /\ height <= fit
    BY <1>2
<1> HIDE DEF fit
<1>5. whole \in Int /\ whole <= fit
    BY <1>4, QuotientIs
<1> HIDE DEF whole
<1>6. rows \in Nat \ {0} /\ rows <= fit
    BY <1>4, <1>5
<1> HIDE DEF rows
<1>7. rows * a <= fit * a
    BY <1>4, <1>6, ProductGrows
<1>8. fit * a <= budget \/ fit * a = height * a
    BY <1>2 DEF fit
<1>9. rows * a = rows * width * leading /\ height * a = height * width * leading
    BY <1>1, <1>6
<1>10. /\ rows * a \in Int /\ fit * a \in Int /\ height * a \in Int /\ budget \in Int
    BY <1>4, <1>6
<1>11. rows * a <= Blk!Max({budget, height * a})
    <2>1. Blk!Max({budget, height * a}) = IF budget >= height * a THEN budget ELSE height * a
        BY <1>10, BlocksOfTwo
    <2> QED BY <1>7, <1>8, <1>10, <2>1
<1> QED BY <1>3, <1>6, <1>9, <1>11

LEMMA BlocksOneIsOne == ASSUME NEW k PROVE Blk!Cardinality({k}) = 1
<1>1. Blk!Cardinality({k}) = Cardinality({k})
    BY DEF Blk!Cardinality, Cardinality
<1> QED BY <1>1, FS_Singleton

\* The strips of a window are within the budget, unless a single block of rows
\* exceeds it, and each row of the window is in one of them: of any size.
THEOREM StripsTileWindows ==
    ASSUME NEW budget \in Nat, NEW width \in Nat \ {0}, NEW height \in Nat \ {0}, NEW leading \in Nat \ {0},
           NEW start \in Int, NEW stop \in Int, start <= stop
    PROVE  Blk!StripsTileTheWindow(budget, width, height, leading, start, stop)
<1> DEFINE rows == Blk!StripRows(budget, width, height, leading)
           strips == Blk!Strips(start, stop, rows)
           n == (stop - start + rows - 1) \div rows
<1>1. /\ rows \in Nat \ {0}
      /\ rows * width * leading <= Blk!Max({budget, height * width * leading})
    BY StripFits
<1> HIDE DEF rows
<1>2. n \in Nat
    <2>1. stop - start + rows - 1 \in Int /\ 0 * rows <= stop - start + rows - 1
        BY <1>1
    <2> QED BY <1>1, <2>1, QuotientIs, QuotientAtLeast
<1>3. strips = [k \in 1..n |-> <<start + (k - 1) * rows, Blk!Min({start + k * rows, stop})>>]
    BY DEF Blk!Strips, Blk!Ceiling
<1> HIDE DEF n, strips
<1>4. Len(strips) = n /\ \A k \in 1..n :
        /\ strips[k][1] = start + (k - 1) * rows
        /\ strips[k][2] = Blk!Min({start + k * rows, stop})
    BY <1>2, <1>3
<1>5. \A k \in 1..n : strips[k][2] = IF start + k * rows <= stop THEN start + k * rows ELSE stop
    <2> SUFFICES ASSUME NEW k \in 1..n
                 PROVE  strips[k][2] = IF start + k * rows <= stop THEN start + k * rows ELSE stop
        OBVIOUS
    <2>1. start + k * rows \in Int
        BY <1>1, <1>2
    <2> QED BY <1>4, <2>1, BlocksOfTwo
<1>6. ASSUME NEW r \in start..stop - 1
      PROVE  Blk!Cardinality({k \in 1..Len(strips) : r >= strips[k][1] /\ r < strips[k][2]}) = 1
    <2>1. PICK q \in Int : q = (r - start) \div rows
        BY <1>1, QuotientIs
    <2>2. q * rows <= r - start /\ r - start < q * rows + rows
        BY <1>1, <2>1, QuotientIs
    <2>3. q + 1 \in 1..n
        <3>1. 0 <= q
            <4>1. 0 * rows <= r - start
                BY <1>1
            <4> QED BY <1>1, <2>1, <4>1, QuotientAtLeast
        <3>2. (q + 1) * rows <= stop - start + rows - 1
            <4>1. (q + 1) * rows = q * rows + rows /\ q * rows \in Int
                BY <1>1, ProductGrows
            <4> QED BY <1>1, <2>2, <4>1
        <3>3. q + 1 <= n
            BY <1>1, <3>2, QuotientAtLeast DEF n
        <3> QED BY <1>2, <3>1, <3>3
    <2>4. ASSUME NEW k \in 1..n
          PROVE  r >= strips[k][1] /\ r < strips[k][2] <=> k = q + 1
        <3>1. /\ strips[k][1] = start + (k - 1) * rows
              /\ strips[k][2] = IF start + k * rows <= stop THEN start + k * rows ELSE stop
            BY <1>4, <1>5
        <3>2. /\ k - 1 <= q <=> (k - 1) * rows <= q * rows
              /\ k <= q <=> k * rows <= q * rows
              /\ q + 1 <= k - 1 <=> (q + 1) * rows <= (k - 1) * rows
              /\ q + 1 <= k <=> (q + 1) * rows <= k * rows
              /\ (q + 1) * rows = q * rows + rows
            BY <1>1, <1>2, ProductGrows
        <3>3. (k - 1) * rows \in Int /\ k * rows \in Int /\ q * rows \in Int /\ k \in Int
            BY <1>1, <1>2
        <3>4. PICK a \in Int, b \in Int, c \in Int :
                a = (k - 1) * rows /\ b = k * rows /\ c = q * rows
            BY <3>3
        <3>5. r >= strips[k][1] /\ r < strips[k][2] <=> a <= r - start /\ r - start < b
            BY <3>1, <3>4
        <3>6. a <= r - start <=> k - 1 <= q
            BY <1>1, <2>2, <3>2, <3>3, <3>4
        <3>7. r - start < b <=> q + 1 <= k
            BY <1>1, <2>2, <3>2, <3>3, <3>4
        <3> QED BY <3>3, <3>5, <3>6, <3>7
    <2>5. {k \in 1..Len(strips) : r >= strips[k][1] /\ r < strips[k][2]} = {q + 1}
        BY <1>4, <2>3, <2>4
    <2> QED BY <2>5, BlocksOneIsOne, Zenon
<1>7. \A k \in 1..Len(strips) : strips[k][2] <= stop
    <2> SUFFICES ASSUME NEW k \in 1..n PROVE strips[k][2] <= stop
        BY <1>4
    <2>1. start + k * rows \in Int
        BY <1>1, <1>2
    <2> QED BY <1>5, <2>1
<1> QED BY <1>1, <1>6, <1>7 DEF Blk!StripsTileTheWindow, rows, strips

\* A product rounded up holds what is divided.
LEMMA CeilDivHolds ==
    ASSUME NEW x \in Nat, NEW u \in Nat \ {0}
    PROVE  Scan!CeilDiv(x, u) \in Int /\ Scan!CeilDiv(x, u) * u >= x
<1>1. PICK q \in Int : q = (-x) \div u
    BY QuotientIs
<1>2. q * u <= -x /\ q * u \in Int
    BY <1>1, QuotientIs
<1>3. (-q) * u = -(q * u)
    BY <1>1
<1> QED BY <1>1, <1>2, <1>3 DEF Scan!CeilDiv

LEMMA AxisPointsAreIntegers ==
    ASSUME NEW size \in Nat, NEW spacing \in Nat \ {0}, NEW cap \in Nat
    PROVE  Scan!AxisPoints(size, spacing, cap) \in Int
<1> DEFINE wanted == Scan!CeilDiv(size, spacing)
           allowed == Scan!Max({1, cap})
           taken == Scan!Min({wanted, allowed})
<1>1. wanted \in Int
    BY CeilDivHolds
<1>2. allowed \in Int
    BY OfTwo
<1> HIDE DEF wanted, allowed
<1>3. taken \in Int
    BY <1>1, <1>2, OfTwo
<1> HIDE DEF taken
<1>4. Scan!Max({1, taken}) \in Int
    BY <1>3, OfTwo
<1> QED BY <1>4 DEF Scan!AxisPoints, taken, allowed, wanted

\* The samples on an axis of a pixel are no further apart than the spacing, if as
\* many as are allowed are.
LEMMA SamplesSpanThePixel ==
    ASSUME NEW size \in Nat, NEW spacing \in Nat \ {0}, NEW cap \in Nat, size <= spacing * cap
    PROVE  Scan!AxisPoints(size, spacing, cap) * spacing >= size
<1> DEFINE wanted == Scan!CeilDiv(size, spacing)
           allowed == IF 1 >= cap THEN 1 ELSE cap
           taken == IF wanted <= allowed THEN wanted ELSE allowed
           points == IF 1 >= taken THEN 1 ELSE taken
<1>1. wanted \in Int /\ wanted * spacing >= size
    BY CeilDivHolds
<1>2. Scan!AxisPoints(size, spacing, cap) = points
    <2>1. Scan!Max({1, cap}) = allowed
        BY OfTwo
    <2>2. Scan!Min({wanted, allowed}) = taken /\ taken \in Int
        <3>1. allowed \in Int
            OBVIOUS
        <3> HIDE DEF wanted, allowed
        <3>2. taken \in Int
            BY <1>1, <3>1
        <3>3. Scan!Min({wanted, allowed}) = taken
            BY <1>1, <3>1, OfTwo
        <3> QED BY <3>2, <3>3
    <2>3. Scan!Max({1, taken}) = points
        BY <2>2, OfTwo
    <2> QED BY <2>1, <2>2, <2>3 DEF Scan!AxisPoints
<1> HIDE DEF wanted
<1>3. CASE wanted <= allowed
    <2>1. points \in Int /\ wanted <= points
        BY <1>1, <1>3
    <2> HIDE DEF points
    <2>2. wanted * spacing <= points * spacing
        BY <1>1, <2>1, ProductGrows
    <2>3. wanted * spacing \in Int /\ points * spacing \in Int
        BY <1>1, <2>1
    <2> QED BY <1>1, <1>2, <2>2, <2>3
<1>4. CASE ~(wanted <= allowed)
    <2>1. points \in Int /\ cap <= points
        BY <1>1, <1>4
    <2> HIDE DEF points
    <2>2. cap * spacing <= points * spacing
        BY <2>1, ProductGrows
    <2>3. cap * spacing \in Int /\ points * spacing \in Int /\ cap * spacing = spacing * cap
        BY <2>1
    <2> QED BY <1>2, <2>2, <2>3
<1> QED BY <1>3, <1>4

\* The reference latitude of a GeoTIFF is the nearest of its rows to the equator.
LEMMA ReferenceIsEquatorward ==
    ASSUME NEW bottom \in -90..90, NEW top \in -90..90, NEW latitude \in bottom..top
    PROVE  /\ Scan!TiffReference(bottom, top) \in -90..90
           /\ Scan!Abs(Scan!TiffReference(bottom, top)) <= Scan!Abs(latitude)
           /\ Scan!Abs(latitude) \in 0..90 /\ Scan!Abs(Scan!TiffReference(bottom, top)) \in 0..90
BY DEF Scan!TiffReference, Scan!Abs

\* A resolution that is chosen for a size covers it.
LEMMA ResolutionCovers ==
    ASSUME NEW size \in Int, NEW cap \in Nat, NEW spacing \in Seq(Nat \ {0}),
           Scan!Covered(size, cap, spacing) # {}
    PROVE  /\ Scan!Resolution(size, cap, spacing) \in DOMAIN spacing
           /\ spacing[Scan!Resolution(size, cap, spacing)] * cap >= size
<1> DEFINE covered == Scan!Covered(size, cap, spacing)
<1>1. covered \subseteq 1..Len(spacing) /\ Len(spacing) \in Nat /\ covered # {}
    BY DEF Scan!Covered
<1>2. covered \in SUBSET Int /\ IsFiniteSet(covered)
    <2>1. IsFiniteSet(1..Len(spacing))
        BY <1>1, FS_Interval
    <2> QED BY <1>1, <2>1, FS_Subset
<1> HIDE DEF covered
<1>3. \E x \in covered : \A y \in covered : y <= x
    BY <1>1, <1>2, FiniteBounds
<1>4. \E x \in covered : \A y \in covered : x >= y
    BY <1>2, <1>3
<1>5. Scan!Max(covered) \in covered
    BY <1>4 DEF Scan!Max
<1>6. Scan!Resolution(size, cap, spacing) \in covered
    BY <1>1, <1>5 DEF Scan!Resolution, covered
<1> QED BY <1>6 DEF Scan!Covered, covered

\* With the resolution and the samples that a GeoTIFF takes for its pixels, no cell
\* of any of its rows lies between the samples.
THEOREM TiffSamplesReachCells ==
    ASSUME NEW bottom \in -90..90, NEW top \in -90..90, NEW step \in Nat, NEW cap \in Nat,
           NEW spacing \in Seq(Nat \ {0})
    PROVE  Scan!SamplesReachCells(Scan!TiffReference(bottom, top), bottom, top, step, cap, spacing)
<1> DEFINE reference == Scan!TiffReference(bottom, top)
           used == Scan!SizeAt(reference, step)
           largest == Scan!Max({used[1], used[2]})
           r == Scan!Resolution(largest, cap, spacing)
<1> SUFFICES ASSUME Scan!Covered(largest, cap, spacing) # {}, NEW latitude \in bottom..top
             PROVE  /\ Scan!SizeAt(latitude, step)[1] <= Scan!AxisPoints(used[1], spacing[r], cap) * spacing[r]
                    /\ Scan!SizeAt(latitude, step)[2] <= Scan!AxisPoints(used[2], spacing[r], cap) * spacing[r]
    BY DEF Scan!SamplesReachCells
<1> DEFINE near == Scan!Abs(reference)
           far == Scan!Abs(latitude)
<1>1. near \in 0..90 /\ far \in 0..90 /\ near <= far
    BY ReferenceIsEquatorward
<1>2. /\ used[1] = step * (90 - near) /\ used[2] = step * 90
      /\ Scan!SizeAt(latitude, step)[1] = step * (90 - far)
      /\ Scan!SizeAt(latitude, step)[2] = step * 90
    BY DEF Scan!SizeAt
<1> HIDE DEF near, far, used
<1>3. step * (90 - near) \in Nat /\ step * 90 \in Nat /\ step * (90 - far) \in Nat
    <2>1. 90 - near \in Nat /\ 90 - far \in Nat
        BY <1>1
    <2> QED BY <2>1
<1>4. step * (90 - far) <= step * (90 - near)
    <2>1. PICK d \in Nat : 90 - near = (90 - far) + d
        <3>1. far - near \in Nat /\ 90 - near = (90 - far) + (far - near)
            BY <1>1
        <3> QED BY <3>1
    <2>2. step * ((90 - far) + d) = step * (90 - far) + step * d /\ step * d \in Nat
        BY <1>1, <2>1
    <2> QED BY <1>3, <2>1, <2>2
<1>5. largest \in Int /\ used[1] <= largest /\ used[2] <= largest
    <2>1. used[1] \in Int /\ used[2] \in Int
        BY <1>2, <1>3
    <2>2. largest = IF used[1] >= used[2] THEN used[1] ELSE used[2]
        BY <2>1, OfTwo
    <2> QED BY <2>1, <2>2
<1> HIDE DEF largest
<1>6. r \in DOMAIN spacing /\ spacing[r] * cap >= largest
    BY <1>5, ResolutionCovers
<1> HIDE DEF r
<1>7. PICK s \in Nat \ {0} : s = spacing[r]
    BY <1>6
<1>8. used[1] \in Nat /\ used[2] \in Nat /\ used[1] <= s * cap /\ used[2] <= s * cap
    <2>1. s * cap \in Int
        OBVIOUS
    <2> QED BY <1>2, <1>3, <1>5, <1>6, <1>7, <2>1
<1>9. /\ Scan!AxisPoints(used[1], s, cap) * s >= used[1]
      /\ Scan!AxisPoints(used[2], s, cap) * s >= used[2]
    BY <1>8, SamplesSpanThePixel
<1>10. Scan!SizeAt(latitude, step)[1] <= Scan!AxisPoints(used[1], s, cap) * s
    <2>1. PICK points \in Int : points = Scan!AxisPoints(used[1], s, cap)
        BY <1>8, AxisPointsAreIntegers
    <2>2. points * s \in Int
        OBVIOUS
    <2>3. points * s >= used[1]
        BY <1>9, <2>1
    <2>4. Scan!SizeAt(latitude, step)[1] <= used[1]
        BY <1>2, <1>4
    <2>5. Scan!SizeAt(latitude, step)[1] \in Int /\ used[1] \in Int
        BY <1>2, <1>3
    <2>6. Scan!SizeAt(latitude, step)[1] <= points * s
        BY <2>2, <2>3, <2>4, <2>5
    <2> QED BY <2>1, <2>6
<1>11. Scan!SizeAt(latitude, step)[2] <= Scan!AxisPoints(used[2], s, cap) * s
    BY <1>2, <1>9
<1> QED BY <1>7, <1>10, <1>11

(***************************************************************************)
(* Curves censored at a bound.                                             *)
(***************************************************************************)

\* Censoring at a bound keeps every quantile above it and lifts the others to it:
\* of any quantile function that is not decreasing.
THEOREM BoundsKeepQuantiles ==
    ASSUME One \in Nat, NEW base, DOMAIN base = 0..One, \A p \in 0..One : base[p] \in Int,
           \A p, q \in 0..One : p <= q => base[p] <= base[q],
           NEW bound \in Int, Missing \notin Int
    PROVE  Fit!BoundKeepsQuantiles(base, bound)
<1> DEFINE below == {0} \cup {p \in DOMAIN base : base[p] <= bound}
           mass == Fit!Max(below)
<1>1. below \subseteq 0..One /\ below # {} /\ below \in SUBSET Int /\ IsFiniteSet(below)
    <2>1. below \subseteq 0..One /\ below # {}
        <3>1. 0 \in 0..One
            OBVIOUS
        <3> QED BY <3>1
    <2> HIDE DEF below
    <2>2. 0..One \subseteq Int /\ IsFiniteSet(0..One)
        <3>1. One \in Int /\ 0 \in Int
            OBVIOUS
        <3> QED BY <3>1, FS_Interval
    <2> QED BY <2>1, <2>2, FS_Subset
<1>2. mass \in below /\ \A p \in below : p <= mass
    <2> HIDE DEF below
    <2>1. \E x \in below : \A y \in below : x >= y
        <3>1. \E x \in below : \A y \in below : y <= x
            BY <1>1, FiniteBounds
        <3> QED BY <1>1, <3>1
    <2>2. mass \in below /\ \A p \in below : mass >= p
        BY <2>1 DEF Fit!Max
    <2> QED BY <1>1, <2>2
<1>3. Fit!CensorAtBound(base, bound) = [base |-> base, mass |-> mass, at |-> bound]
    BY DEF Fit!CensorAtBound, Fit!Mass
<1> HIDE DEF mass
<1>4. ASSUME NEW p \in DOMAIN base, p > 0
      PROVE  (IF p > mass THEN base[p] ELSE bound) = Fit!AtLeast(base[p], bound)
    <2>1. mass \in 0..One /\ p \in 0..One /\ base[p] \in Int
        BY <1>1, <1>2
    <2>2. CASE p > mass
        <3>1. ~(base[p] <= bound)
            BY <1>2, <2>1, <2>2
        <3> QED BY <2>1, <2>2, <3>1 DEF Fit!AtLeast
    <2>3. CASE p <= mass
        <3>1. base[mass] <= bound /\ base[p] <= base[mass] /\ base[mass] \in Int
            BY <1>2, <1>4, <2>1, <2>3
        <3>2. base[p] <= bound
            BY <2>1, <3>1
        <3> QED BY <2>1, <2>3, <3>2 DEF Fit!AtLeast
    <2> QED BY <2>1, <2>2, <2>3
<1> QED BY <1>3, <1>4 DEF Fit!BoundKeepsQuantiles, Fit!HurdleQuantile

(***************************************************************************)
(* The evaluation of rows of curves at return periods.                     *)
(***************************************************************************)

\* The order of the naturals as a relation.
LEMMA LessOnNat == OpToRel(<, Nat) = {ss \in Nat \X Nat : ss[1] < ss[2]}
  BY DEF OpToRel

\* A set of naturals that is not empty has a least one: induction by the least
\* counterexample.
LEMMA LeastOf ==
    ASSUME NEW S \in SUBSET Nat, S # {}
    PROVE  \E x \in S : \A y \in S : x <= y
<1>1. PICK x \in S : \A y \in S : ~(<<y, x>> \in OpToRel(<, Nat))
    BY NatLessThanWellFounded, WFMin
<1>2. ASSUME NEW y \in S PROVE x <= y
    <2>1. <<y, x>> \notin {ss \in Nat \X Nat : ss[1] < ss[2]}
        BY <1>1, LessOnNat
    <2> QED BY <2>1
<1> QED BY <1>2

\* The values of a row that is evaluated by itself, and of rows.
Own(r, probabilities, impact) ==
    Eva!Outcome(r, Eva!Quantiles(r, probabilities), impact, Len(probabilities))
Owns(rows, probabilities, impact) == [i \in DOMAIN rows |-> Own(rows[i], probabilities, impact)]

\* The recursive function exists: there is one for each number of rows, since
\* otherwise there were a least number without one.
LEMMA EvaluatedIs ==
    ASSUME NEW rows, Len(rows) \in Nat, NEW probabilities, NEW impact
    PROVE  LET done == Eva!Evaluated(rows, probabilities, impact) IN
           /\ done[0] = [memoize |-> TRUE, seen |-> <<>>, results |-> <<>>]
           /\ \A n \in 1..Len(rows) : done[n] = Eva!Step(done[n - 1], rows[n], probabilities, impact)
<1> DEFINE zero == [memoize |-> TRUE, seen |-> <<>>, results |-> <<>>]
           More(x, k) == Eva!Step(x, rows[k], probabilities, impact)
           Is(f, n) == f = [k \in 0..n |-> IF k = 0 THEN zero ELSE More(f[k - 1], k)]
           bad == {n \in Nat : ~\E f : Is(f, n)}
           done == Eva!Evaluated(rows, probabilities, impact)
<1>1. done = CHOOSE f : Is(f, Len(rows))
    BY DEF Eva!Evaluated
<1> HIDE DEF zero, More, done
<1>2. ASSUME bad # {} PROVE FALSE
    <2>1. bad \in SUBSET Nat
        OBVIOUS
    <2>2. PICK n \in bad : \A m \in bad : n <= m
        <3> HIDE DEF bad
        <3> QED BY <1>2, <2>1, LeastOf
    <2>3. n \in Nat /\ ~\E f : Is(f, n)
        OBVIOUS
    <2>4. CASE n = 0
        <3> DEFINE f == [k \in 0..0 |-> zero]
        <3>1. Is(f, 0)
            <4>1. \A k \in 0..0 : k = 0
                OBVIOUS
            <4> QED BY <4>1
        <3> QED BY <2>3, <2>4, <3>1
    <2>5. CASE n # 0
        <3>1. n - 1 \in Nat /\ ~(n <= n - 1)
            BY <2>3, <2>5
        <3>2. n - 1 \notin bad
            <4> HIDE DEF bad
            <4> QED BY <2>2, <3>1
        <3>3. PICK f : Is(f, n - 1)
            BY <3>1, <3>2
        <3> DEFINE g == [k \in 0..n |-> IF k = n THEN More(f[n - 1], n) ELSE f[k]]
        <3>4. Is(g, n)
            <4>1. \A k \in 0..n : g[k] = IF k = 0 THEN zero ELSE More(g[k - 1], k)
                <5> TAKE k \in 0..n
                <5>1. CASE k = n
                    <6>1. k - 1 \in 0..n /\ k - 1 # n /\ k # 0
                        BY <2>3, <2>5, <5>1
                    <6> QED BY <5>1, <6>1
                <5>2. CASE k # n
                    <6>1. k \in 0..n - 1 /\ (k # 0 => k - 1 \in 0..n /\ k - 1 # n)
                        BY <2>3, <5>2
                    <6>2. g[k] = f[k] /\ f[k] = IF k = 0 THEN zero ELSE More(f[k - 1], k)
                        BY <3>3, <5>2, <6>1
                    <6>3. k # 0 => g[k - 1] = f[k - 1]
                        BY <6>1
                    <6> QED BY <6>2, <6>3
                <5> QED BY <5>1, <5>2
            <4> HIDE DEF Is
            <4>2. g = [k \in 0..n |-> g[k]]
                OBVIOUS
            <4> HIDE DEF g
            <4> QED BY <4>1, <4>2 DEF Is
        <3> QED BY <2>3, <3>4
    <2> QED BY <2>4, <2>5
<1>3. \E f : Is(f, Len(rows))
    BY <1>2
<1>4. Is(done, Len(rows))
    <2> HIDE DEF Is
    <2> QED BY <1>1, <1>3
<1>5. \A k \in 0..Len(rows) : done[k] = IF k = 0 THEN zero ELSE More(done[k - 1], k)
    BY <1>4, Zenon
<1>6. 0 \in 0..Len(rows) /\ \A k \in 1..Len(rows) : k \in 0..Len(rows) /\ k # 0
    OBVIOUS
<1> QED BY <1>5, <1>6, Zenon DEF zero, More, done

\* What is remembered are the quantiles of rows that have the key, and what is known
\* of the first rows are their own values.
Sound(done, rows, n, probabilities, impact) ==
    /\ DOMAIN done = {"memoize", "seen", "results"}
    /\ \A key \in DOMAIN done.seen : \E r : Eva!Key(r) = key /\ done.seen[key] = Eva!Quantiles(r, probabilities)
    /\ done.results = [i \in 1..n |-> Own(rows[i], probabilities, impact)]

\* Rows with one key have the same quantiles.
LEMMA KeysTellCurves ==
    ASSUME NEW r, NEW s, NEW probabilities, Eva!Key(r) = Eva!Key(s)
    PROVE  Eva!Quantiles(r, probabilities) = Eva!Quantiles(s, probabilities)
<1>1. r.kind = s.kind /\ r.curve = s.curve /\ r.sign = s.sign
    BY DEF Eva!Key
<1> QED BY <1>1 DEF Eva!Quantiles

\* One row more.
LEMMA StepIsSound ==
    ASSUME NEW done, NEW rows, Len(rows) \in Nat, NEW n \in 1..Len(rows), NEW probabilities, NEW impact,
           Sound(done, rows, n - 1, probabilities, impact)
    PROVE  Sound(Eva!Step(done, rows[n], probabilities, impact), rows, n, probabilities, impact)
<1> DEFINE row == rows[n]
           count == Len(done.results)
           memoize == done.memoize /\ ~(count = 2 /\ 10 * Eva!Cardinality(DOMAIN done.seen) > 9 * count)
           keyed == memoize /\ row.kind # "list"
           key == Eva!Key(row)
           values == IF keyed /\ key \in DOMAIN done.seen THEN done.seen[key]
                     ELSE Eva!Quantiles(row, probabilities)
           seen == IF keyed THEN [k \in DOMAIN done.seen \cup {key} |->
                                    IF k = key THEN values ELSE done.seen[k]]
                   ELSE done.seen
           results == Append(done.results, Eva!Outcome(row, values, impact, Len(probabilities)))
<1>1. Eva!Step(done, row, probabilities, impact) = [memoize |-> memoize, seen |-> seen, results |-> results]
    BY DEF Eva!Step
<1> HIDE DEF memoize
<1>2. values = Eva!Quantiles(row, probabilities)
    <2>1. CASE keyed /\ key \in DOMAIN done.seen
        <3>1. PICK r : Eva!Key(r) = key /\ done.seen[key] = Eva!Quantiles(r, probabilities)
            BY <2>1 DEF Sound
        <3>2. Eva!Quantiles(r, probabilities) = Eva!Quantiles(row, probabilities)
            BY <3>1, KeysTellCurves
        <3> QED BY <2>1, <3>1, <3>2
    <2>2. CASE ~(keyed /\ key \in DOMAIN done.seen)
        BY <2>2
    <2> QED BY <2>1, <2>2
<1> HIDE DEF values
<1>3. \A k \in DOMAIN seen : \E r : Eva!Key(r) = k /\ seen[k] = Eva!Quantiles(r, probabilities)
    <2> SUFFICES ASSUME NEW k \in DOMAIN seen
                 PROVE  \E r : Eva!Key(r) = k /\ seen[k] = Eva!Quantiles(r, probabilities)
        OBVIOUS
    <2>1. CASE keyed /\ k = key
        <3>1. seen[k] = values
            BY <2>1
        <3> QED BY <1>2, <2>1, <3>1
    <2>2. CASE ~(keyed /\ k = key)
        <3>1. k \in DOMAIN done.seen /\ seen[k] = done.seen[k]
            BY <2>2
        <3> QED BY <3>1 DEF Sound
    <2> QED BY <2>1, <2>2
<1>4. results = [i \in 1..n |-> Own(rows[i], probabilities, impact)]
    <2>1. done.results = [i \in 1..n - 1 |-> Own(rows[i], probabilities, impact)]
        BY DEF Sound
    <2>2. Len(done.results) = n - 1
        BY <2>1
    <2>3. Eva!Outcome(row, values, impact, Len(probabilities)) = Own(row, probabilities, impact)
        BY <1>2 DEF Own
    <2>4. results = Append(done.results, Own(row, probabilities, impact))
        BY <2>3
    <2> HIDE DEF results, row
    <2>5. Append(done.results, Own(row, probabilities, impact))
            = [i \in 1..n |-> IF i = n THEN Own(row, probabilities, impact) ELSE done.results[i]]
        <3>1. n - 1 + 1 = n
            OBVIOUS
        <3> QED BY <2>1, <2>2, <3>1
    <2>6. \A i \in 1..n : (IF i = n THEN Own(row, probabilities, impact) ELSE done.results[i])
                            = Own(rows[i], probabilities, impact)
        <3> TAKE i \in 1..n
        <3>1. CASE i = n
            BY <3>1 DEF row
        <3>2. CASE i # n
            <4>1. i \in 1..n - 1
                BY <3>2
            <4> QED BY <2>1, <3>2, <4>1
        <3> QED BY <3>1, <3>2
    <2> QED BY <2>4, <2>5, <2>6
<1> HIDE DEF seen, results
<1> QED BY <1>1, <1>3, <1>4 DEF Sound

\* Whatever is remembered, rows get their own values.
LEMMA QuantilesAreOwn ==
    ASSUME NEW R, NEW rows \in Seq(R), NEW probabilities, NEW impact
    PROVE  Eva!CurveQuantiles(rows, probabilities, impact) = Owns(rows, probabilities, impact)
<1> DEFINE done == Eva!Evaluated(rows, probabilities, impact)
           bad == {n \in 0..Len(rows) : ~Sound(done[n], rows, n, probabilities, impact)}
<1>1. Len(rows) \in Nat /\ DOMAIN rows = 1..Len(rows)
    OBVIOUS
<1>2. /\ done[0] = [memoize |-> TRUE, seen |-> <<>>, results |-> <<>>]
      /\ \A n \in 1..Len(rows) : done[n] = Eva!Step(done[n - 1], rows[n], probabilities, impact)
    BY <1>1, EvaluatedIs
<1>3. Eva!CurveQuantiles(rows, probabilities, impact) = done[Len(rows)].results
    BY DEF Eva!CurveQuantiles
<1> HIDE DEF done
<1>4. Sound(done[0], rows, 0, probabilities, impact)
    <2>1. <<>> = [i \in 1..0 |-> Own(rows[i], probabilities, impact)] /\ DOMAIN <<>> = {}
        OBVIOUS
    <2> QED BY <1>2, <2>1 DEF Sound
<1>5. ASSUME bad # {} PROVE FALSE
    <2>1. bad \in SUBSET Nat
        OBVIOUS
    <2>2. PICK n \in bad : \A m \in bad : n <= m
        <3> HIDE DEF bad
        <3> QED BY <1>5, <2>1, LeastOf
    <2>3. n \in 0..Len(rows) /\ ~Sound(done[n], rows, n, probabilities, impact)
        OBVIOUS
    <2>4. n # 0
        BY <1>4, <2>3
    <2>5. n \in 1..Len(rows) /\ n - 1 \in 0..Len(rows) /\ ~(n <= n - 1)
        BY <1>1, <2>3, <2>4
    <2>6. n - 1 \notin bad
        <3> HIDE DEF bad
        <3> QED BY <2>2, <2>5
    <2>7. Sound(done[n - 1], rows, n - 1, probabilities, impact)
        BY <2>5, <2>6
    <2> HIDE DEF bad
    <2> QED BY <1>1, <1>2, <2>3, <2>5, <2>7, StepIsSound
<1>6. Sound(done[Len(rows)], rows, Len(rows), probabilities, impact)
    BY <1>1, <1>5
<1> QED BY <1>1, <1>3, <1>6 DEF Sound, Owns

\* The sequences that follow one another in s, after each of its members.
Joins(f, s) == f[0] = <<>> /\ \A k \in 1..Len(s) : f[k] = f[k - 1] \o s[k]

\* Joining is a function of the number of members, as EvaluatedIs.
LEMMA FlattenIs ==
    ASSUME NEW R, NEW s \in Seq(Seq(R))
    PROVE  \E f : /\ Joins(f, s) /\ Eva!FlattenSeq(s) = f[Len(s)]
                  /\ \A k \in 0..Len(s) : f[k] \in Seq(R)
<1> DEFINE Is(f, n) == f = [k \in 1..n |-> IF k = 1 THEN s[k] ELSE f[k - 1] \o s[k]]
           bad == {n \in Nat : ~\E f : Is(f, n)}
           done == CHOOSE f : Is(f, Len(s))
           joined == [k \in 0..Len(s) |-> IF k = 0 THEN <<>> ELSE done[k]]
           wrong == {n \in 0..Len(s) : joined[n] \notin Seq(R)}
<1>1. Len(s) \in Nat /\ \A k \in 1..Len(s) : s[k] \in Seq(R)
    OBVIOUS
<1>2. Eva!FlattenSeq(s) = IF Len(s) = 0 THEN s ELSE done[Len(s)]
    BY DEF Eva!FlattenSeq
<1> HIDE DEF done
<1>3. ASSUME bad # {} PROVE FALSE
    <2>1. bad \in SUBSET Nat
        OBVIOUS
    <2>2. PICK n \in bad : \A m \in bad : n <= m
        <3> HIDE DEF bad
        <3> QED BY <1>3, <2>1, LeastOf
    <2>3. n \in Nat /\ ~\E f : Is(f, n)
        OBVIOUS
    <2>4. CASE n = 0
        <3> DEFINE f == [k \in 1..0 |-> <<>>]
        <3>1. Is(f, 0)
            <4>1. 1..0 = {}
                OBVIOUS
            <4> QED BY <4>1
        <3> QED BY <2>3, <2>4, <3>1
    <2>5. CASE n # 0
        <3>1. n - 1 \in Nat /\ ~(n <= n - 1)
            BY <2>3, <2>5
        <3>2. n - 1 \notin bad
            <4> HIDE DEF bad
            <4> QED BY <2>2, <3>1
        <3>3. PICK f : Is(f, n - 1)
            BY <3>1, <3>2
        <3> DEFINE g == [k \in 1..n |-> IF k = n THEN (IF n = 1 THEN s[n] ELSE f[n - 1] \o s[n]) ELSE f[k]]
        <3>4. Is(g, n)
            <4>1. \A k \in 1..n : g[k] = IF k = 1 THEN s[k] ELSE g[k - 1] \o s[k]
                <5> TAKE k \in 1..n
                <5>1. CASE k = n
                    <6>1. k # 1 => k - 1 \in 1..n /\ k - 1 # n
                        BY <2>3, <2>5, <5>1
                    <6>2. k # 1 => g[k - 1] = f[n - 1]
                        BY <5>1, <6>1
                    <6>3. g[k] = IF n = 1 THEN s[n] ELSE f[n - 1] \o s[n]
                        BY <5>1
                    <6> HIDE DEF g
                    <6> QED BY <5>1, <6>2, <6>3
                <5>2. CASE k # n
                    <6>1. k \in 1..n - 1 /\ (k # 1 => k - 1 \in 1..n /\ k - 1 # n)
                        BY <2>3, <5>2
                    <6>2. f[k] = IF k = 1 THEN s[k] ELSE f[k - 1] \o s[k]
                        BY <3>3, <6>1, Zenon
                    <6>3. g[k] = f[k] /\ (k # 1 => g[k - 1] = f[k - 1])
                        BY <5>2, <6>1
                    <6> HIDE DEF g
                    <6> QED BY <6>2, <6>3
                <5> QED BY <5>1, <5>2
            <4> HIDE DEF Is
            <4>2. g = [k \in 1..n |-> g[k]]
                OBVIOUS
            <4> HIDE DEF g
            <4> QED BY <4>1, <4>2 DEF Is
        <3> QED BY <2>3, <3>4
    <2> QED BY <2>4, <2>5
<1>4. Is(done, Len(s))
    <2>1. \E f : Is(f, Len(s))
        BY <1>1, <1>3
    <2> HIDE DEF Is
    <2> QED BY <2>1 DEF done
<1>5. \A k \in 1..Len(s) : done[k] = IF k = 1 THEN s[k] ELSE done[k - 1] \o s[k]
    BY <1>4, Zenon
<1>6. Joins(joined, s)
    <2>1. joined[0] = <<>>
        OBVIOUS
    <2>2. ASSUME NEW k \in 1..Len(s) PROVE joined[k] = joined[k - 1] \o s[k]
        <3>1. k \in 0..Len(s) /\ k - 1 \in 0..Len(s) /\ k # 0 /\ (k = 1 <=> k - 1 = 0)
            OBVIOUS
        <3>2. joined[k] = done[k] /\ joined[k - 1] = IF k = 1 THEN <<>> ELSE done[k - 1]
            BY <3>1
        <3> HIDE DEF joined
        <3>3. <<>> \o s[k] = s[k]
            <4>1. s[k] \in Seq(R)
                OBVIOUS
            <4> QED BY <4>1
        <3>4. done[k] = IF k = 1 THEN s[k] ELSE done[k - 1] \o s[k]
            BY <1>5
        <3> QED BY <3>2, <3>3, <3>4
    <2> HIDE DEF joined
    <2> QED BY <2>1, <2>2 DEF Joins
<1>7. Eva!FlattenSeq(s) = joined[Len(s)]
    <2>1. CASE Len(s) = 0
        <3>1. s = <<>> /\ joined[Len(s)] = <<>>
            BY <2>1
        <3> QED BY <1>2, <2>1, <3>1
    <2>2. CASE Len(s) # 0
        BY <1>1, <1>2, <2>2
    <2> QED BY <2>1, <2>2
<1> HIDE DEF joined, Is
<1>8. ASSUME wrong # {} PROVE FALSE
    <2>1. wrong \in SUBSET Nat
        OBVIOUS
    <2>2. PICK n \in wrong : \A m \in wrong : n <= m
        <3> HIDE DEF wrong
        <3> QED BY <1>8, <2>1, LeastOf
    <2>3. n \in 0..Len(s) /\ joined[n] \notin Seq(R)
        OBVIOUS
    <2>4. n # 0
        <3>1. <<>> \in Seq(R)
            OBVIOUS
        <3> QED BY <1>6, <2>3, <3>1 DEF Joins
    <2>5. n \in 1..Len(s) /\ n - 1 \in 0..Len(s) /\ ~(n <= n - 1)
        BY <1>1, <2>3, <2>4
    <2>6. joined[n - 1] \in Seq(R)
        <3>1. n - 1 \notin wrong
            <4> HIDE DEF wrong
            <4> QED BY <2>2, <2>5
        <3> QED BY <2>5, <3>1
    <2>7. joined[n] = joined[n - 1] \o s[n] /\ s[n] \in Seq(R)
        BY <1>1, <1>6, <2>5 DEF Joins
    <2>8. joined[n - 1] \o s[n] \in Seq(R)
        BY <2>6, <2>7
    <2> QED BY <2>3, <2>7, <2>8
<1>9. \A k \in 0..Len(s) : joined[k] \in Seq(R)
    BY <1>8
<1> QED BY <1>6, <1>7, <1>9

\* What follows what is joined, place by place.
LEMMA BothAre ==
    ASSUME NEW V, NEW a \in Seq(V), NEW b \in Seq(V)
    PROVE  a \o b = [i \in 1..Len(a) + Len(b) |-> IF i <= Len(a) THEN a[i] ELSE b[i - Len(a)]]
<1>1. PICK c \in Seq(V) : c = a \o b
    BY ConcatProperties
<1>2. /\ Len(c) = Len(a) + Len(b)
      /\ \A i \in 1..Len(a) + Len(b) : c[i] = IF i <= Len(a) THEN a[i] ELSE b[i - Len(a)]
    BY <1>1, ConcatProperties
<1>3. c = [i \in 1..Len(c) |-> c[i]]
    OBVIOUS
<1> QED BY <1>1, <1>2, <1>3

\* A function on the first numbers is a sequence.
LEMMA FunctionIsSeq ==
    ASSUME NEW S, NEW n \in Nat, NEW s, s = [k \in 1..n |-> s[k]], \A k \in 1..n : s[k] \in S
    PROVE  s \in Seq(S) /\ Len(s) = n
<1>1. PICK f \in [1..n -> S] : f = s
    OBVIOUS
<1>2. f \in Seq(S) /\ Len(f) = n
    OBVIOUS
<1> QED BY <1>1, <1>2

\* Rows that follow rows keep their values.
LEMMA OwnsOfBoth ==
    ASSUME NEW R, NEW a \in Seq(R), NEW b \in Seq(R), NEW probabilities, NEW impact
    PROVE  Owns(a \o b, probabilities, impact)
                = Owns(a, probabilities, impact) \o Owns(b, probabilities, impact)
<1> DEFINE oa == Owns(a, probabilities, impact)
           ob == Owns(b, probabilities, impact)
           V == {Own(a[i], probabilities, impact) : i \in 1..Len(a)}
                \cup {Own(b[i], probabilities, impact) : i \in 1..Len(b)}
<1>1. a \o b \in Seq(R) /\ Len(a \o b) = Len(a) + Len(b) /\ Len(a) \in Nat /\ Len(b) \in Nat
    OBVIOUS
<1>2. oa \in Seq(V) /\ Len(oa) = Len(a) /\ \A i \in 1..Len(a) : oa[i] = Own(a[i], probabilities, impact)
    <2>1. oa = [i \in 1..Len(a) |-> Own(a[i], probabilities, impact)]
        BY DEF Owns
    <2> QED BY <1>1, <2>1
<1>3. ob \in Seq(V) /\ Len(ob) = Len(b) /\ \A i \in 1..Len(b) : ob[i] = Own(b[i], probabilities, impact)
    <2>1. ob = [i \in 1..Len(b) |-> Own(b[i], probabilities, impact)]
        BY DEF Owns
    <2> QED BY <1>1, <2>1
<1>4. Owns(a \o b, probabilities, impact)
        = [i \in 1..Len(a) + Len(b) |-> Own((a \o b)[i], probabilities, impact)]
    BY <1>1 DEF Owns
<1> HIDE DEF oa, ob, V
<1>5. oa \o ob = [i \in 1..Len(a) + Len(b) |-> IF i <= Len(a) THEN oa[i] ELSE ob[i - Len(a)]]
    <2>1. oa \o ob = [i \in 1..Len(oa) + Len(ob) |-> IF i <= Len(oa) THEN oa[i] ELSE ob[i - Len(oa)]]
        BY <1>2, <1>3, BothAre
    <2> QED BY <1>2, <1>3, <2>1
<1>6. ASSUME NEW i \in 1..Len(a) + Len(b)
      PROVE  Own((a \o b)[i], probabilities, impact) = IF i <= Len(a) THEN oa[i] ELSE ob[i - Len(a)]
    <2>1. CASE i <= Len(a)
        <3>1. (a \o b)[i] = a[i] /\ i \in 1..Len(a)
            BY <1>1, <2>1
        <3> QED BY <1>2, <2>1, <3>1
    <2>2. CASE ~(i <= Len(a))
        <3>1. (a \o b)[i] = b[i - Len(a)] /\ i - Len(a) \in 1..Len(b)
            BY <1>1, <2>2
        <3> QED BY <1>3, <2>2, <3>1
    <2> QED BY <2>1, <2>2
<1>7. Owns(a \o b, probabilities, impact) = oa \o ob
    BY <1>4, <1>5, <1>6
<1> QED BY <1>7 DEF oa, ob

\* Rows evaluated part by part have the values of the rows evaluated together.
LEMMA PartsAreOwn ==
    ASSUME NEW R, NEW s \in Seq(Seq(R)), NEW probabilities, NEW impact
    PROVE  Eva!FlattenSeq([k \in 1..Len(s) |-> Owns(s[k], probabilities, impact)])
                = Owns(Eva!FlattenSeq(s), probabilities, impact)
<1> DEFINE parts == [k \in 1..Len(s) |-> Owns(s[k], probabilities, impact)]
           V == UNION {{Own(s[k][i], probabilities, impact) : i \in 1..Len(s[k])} : k \in 1..Len(s)}
<1>1. Len(s) \in Nat /\ \A k \in 1..Len(s) : s[k] \in Seq(R)
    OBVIOUS
<1>2. parts \in Seq(Seq(V)) /\ Len(parts) = Len(s)
    <2>1. ASSUME NEW k \in 1..Len(s) PROVE parts[k] \in Seq(V)
        <3>1. parts[k] = [i \in 1..Len(s[k]) |-> Own(s[k][i], probabilities, impact)]
            BY <1>1 DEF Owns
        <3>2. \A i \in 1..Len(s[k]) : Own(s[k][i], probabilities, impact) \in V
            OBVIOUS
        <3>3. Len(s[k]) \in Nat
            BY <1>1
        <3> HIDE DEF V, parts
        <3> QED BY <3>1, <3>2, <3>3
    <2> HIDE DEF V
    <2>2. parts = [k \in 1..Len(s) |-> parts[k]]
        OBVIOUS
    <2> HIDE DEF parts
    <2> QED BY <1>1, <2>1, <2>2
<1>3. PICK f : /\ Joins(f, s) /\ Eva!FlattenSeq(s) = f[Len(s)]
               /\ \A k \in 0..Len(s) : f[k] \in Seq(R)
    BY FlattenIs
<1>4. \A k \in 1..Len(s) : parts[k] = Owns(s[k], probabilities, impact)
    OBVIOUS
<1> HIDE DEF parts, V
<1>5. PICK g : Joins(g, parts) /\ Eva!FlattenSeq(parts) = g[Len(parts)]
    BY <1>2, FlattenIs
<1> DEFINE bad == {n \in 0..Len(s) : g[n] # Owns(f[n], probabilities, impact)}
<1>6. ASSUME bad # {} PROVE FALSE
    <2>1. bad \in SUBSET Nat
        OBVIOUS
    <2>2. PICK n \in bad : \A m \in bad : n <= m
        <3> HIDE DEF bad
        <3> QED BY <1>6, <2>1, LeastOf
    <2>3. n \in 0..Len(s) /\ g[n] # Owns(f[n], probabilities, impact)
        OBVIOUS
    <2>4. n # 0
        <3>1. Owns(<<>>, probabilities, impact) = <<>>
            BY DEF Owns
        <3> QED BY <1>3, <1>5, <2>3, <3>1 DEF Joins
    <2>5. n \in 1..Len(s) /\ n - 1 \in 0..Len(s) /\ ~(n <= n - 1)
        BY <1>1, <2>3, <2>4
    <2>6. g[n - 1] = Owns(f[n - 1], probabilities, impact)
        <3>1. n - 1 \notin bad
            <4> HIDE DEF bad
            <4> QED BY <2>2, <2>5
        <3> QED BY <2>5, <3>1
    <2>7. f[n] = f[n - 1] \o s[n] /\ g[n] = g[n - 1] \o parts[n]
        BY <1>2, <1>3, <1>5, <2>5 DEF Joins
    <2>8. f[n - 1] \in Seq(R) /\ s[n] \in Seq(R)
        BY <1>1, <1>3, <2>5
    <2>9. Owns(f[n], probabilities, impact)
            = Owns(f[n - 1], probabilities, impact) \o Owns(s[n], probabilities, impact)
        <3>1. \A a, b \in Seq(R) : Owns(a \o b, probabilities, impact)
                    = Owns(a, probabilities, impact) \o Owns(b, probabilities, impact)
            BY OwnsOfBoth
        <3> QED BY <2>7, <2>8, <3>1
    <2> QED BY <1>4, <2>3, <2>5, <2>6, <2>7, <2>9
<1>7. g[Len(s)] = Owns(f[Len(s)], probabilities, impact)
    BY <1>1, <1>6
<1>8. Eva!FlattenSeq(parts) = Owns(Eva!FlattenSeq(s), probabilities, impact)
    BY <1>2, <1>3, <1>5, <1>7
<1> QED BY <1>8 DEF parts

\* Chunks joined are the rows: after k chunks the first k * size of them.
LEMMA ChunksJoin ==
    ASSUME NEW R, NEW rows \in Seq(R), NEW size \in Nat \ {0}
    PROVE  /\ Eva!Chunks(rows, size) \in Seq(Seq(R))
           /\ Eva!FlattenSeq(Eva!Chunks(rows, size)) = rows
<1> DEFINE count == (Len(rows) + size - 1) \div size
           Upto(k) == IF k * size < Len(rows) THEN k * size ELSE Len(rows)
           chunks == Eva!Chunks(rows, size)
<1>1. Len(rows) \in Nat /\ \A i \in 1..Len(rows) : rows[i] \in R
    OBVIOUS
<1>2. /\ count \in Nat
      /\ \A k \in Nat : k <= count <=> k * size <= Len(rows) + size - 1
    <2>1. PICK x \in Int : x = Len(rows) + size - 1 /\ x >= 0
        BY <1>1
    <2>2. x \div size \in Int /\ \A k \in Int : k <= x \div size <=> k * size <= x
        BY <2>1, QuotientIs, QuotientAtLeast
    <2>3. 0 <= x \div size
        <3>1. 0 * size = 0
            OBVIOUS
        <3>2. 0 * size <= x
            BY <2>1, <3>1
        <3> QED BY <2>2, <3>2
    <2> QED BY <2>1, <2>2, <2>3
<1>3. chunks = [k \in 1..count |-> SubSeq(rows, (k - 1) * size + 1, Upto(k))]
    BY DEF Eva!Chunks
<1> HIDE DEF count, chunks
<1>4. ASSUME NEW k \in 1..count
      PROVE  (k - 1) * size \in 0..Len(rows) /\ k * size = (k - 1) * size + size
             /\ Upto(k) \in (k - 1) * size..Len(rows) /\ Upto(k - 1) = (k - 1) * size
    <2>1. k - 1 \in Nat /\ k \in Nat /\ k <= count /\ (k - 1) + 1 = k
        BY <1>2
    <2>2. k * size = (k - 1) * size + size /\ (k - 1) * size \in Int
        <3>1. ((k - 1) + 1) * size = (k - 1) * size + size /\ (k - 1) * size \in Int
            BY <2>1, ProductGrows
        <3> QED BY <2>1, <3>1
    <2>3. k * size <= Len(rows) + size - 1
        BY <1>2, <2>1
    <2>4. (k - 1) * size >= 0
        <3>1. 0 <= k - 1 <=> 0 * size <= (k - 1) * size
            BY <2>1, ProductGrows
        <3>2. 0 * size = 0
            OBVIOUS
        <3> QED BY <2>1, <3>1, <3>2
    <2>5. PICK low \in Int : low = (k - 1) * size
        BY <2>2
    <2>6. PICK high \in Int : high = k * size
        BY <2>2
    <2>7. high = low + size /\ high <= Len(rows) + size - 1 /\ low >= 0
        BY <2>2, <2>3, <2>4, <2>5, <2>6
    <2>8. low \in 0..Len(rows)
        BY <1>1, <2>7
    <2>9. Upto(k) = IF high < Len(rows) THEN high ELSE Len(rows)
        BY <2>6
    <2>10. Upto(k - 1) = low
        BY <1>1, <2>5, <2>7
    <2>11. Upto(k) \in low..Len(rows)
        BY <1>1, <2>7, <2>8, <2>9
    <2> QED BY <2>2, <2>5, <2>8, <2>10, <2>11
<1>5. ASSUME NEW k \in 1..count
      PROVE  chunks[k] = SubSeq(rows, (k - 1) * size + 1, Upto(k)) /\ chunks[k] \in Seq(R)
    <2>1. chunks[k] = SubSeq(rows, (k - 1) * size + 1, Upto(k))
        BY <1>3
    <2> DEFINE low == (k - 1) * size + 1
               high == Upto(k)
    <2>2. low \in Int /\ high \in Int /\ low >= 1 /\ high <= Len(rows)
        BY <1>1, <1>4
    <2> HIDE DEF low, high
    <2>3. \A i \in low..high : rows[i] \in R
        BY <1>1, <2>2
    <2>4. SubSeq(rows, low, high) \in Seq(R)
        BY <2>2, <2>3, SubSeqProperties
    <2> QED BY <2>1, <2>4 DEF low, high
<1>6. chunks \in Seq(Seq(R)) /\ Len(chunks) = count
    <2>1. chunks = [k \in 1..count |-> chunks[k]]
        BY <1>3
    <2> QED BY <1>2, <1>5, <2>1, FunctionIsSeq
<1>7. PICK f : Joins(f, chunks) /\ Eva!FlattenSeq(chunks) = f[count]
    BY <1>6, FlattenIs
<1> HIDE DEF Upto
<1> DEFINE bad == {n \in 0..count : f[n] # SubSeq(rows, 1, Upto(n))}
<1>8. ASSUME bad # {} PROVE FALSE
    <2>1. bad \in SUBSET Nat
        OBVIOUS
    <2>2. PICK n \in bad : \A m \in bad : n <= m
        <3> HIDE DEF bad
        <3> QED BY <1>8, <2>1, LeastOf
    <2>3. n \in 0..count /\ f[n] # SubSeq(rows, 1, Upto(n))
        OBVIOUS
    <2>4. n # 0
        <3>1. Upto(0) = 0
            <4>1. 0 * size = 0
                OBVIOUS
            <4> QED BY <1>1, <4>1 DEF Upto
        <3>2. SubSeq(rows, 1, 0) = <<>>
            BY SubSeqEmpty
        <3> QED BY <1>7, <2>3, <3>1, <3>2 DEF Joins
    <2>5. n \in 1..count /\ n - 1 \in 0..count /\ ~(n <= n - 1)
        BY <1>2, <2>3, <2>4
    <2>6. f[n - 1] = SubSeq(rows, 1, Upto(n - 1))
        <3>1. n - 1 \notin bad
            <4> HIDE DEF bad
            <4> QED BY <2>2, <2>5
        <3> QED BY <2>5, <3>1
    <2>7. f[n] = f[n - 1] \o chunks[n]
        BY <1>6, <1>7, <2>5 DEF Joins
    <2>8. PICK low \in 0..Len(rows) : low = (n - 1) * size
        BY <1>4, <2>5
    <2>9. PICK high \in low..Len(rows) : high = Upto(n)
        BY <1>4, <2>5, <2>8
    <2>10. chunks[n] = SubSeq(rows, low + 1, high) /\ Upto(n - 1) = low
        BY <1>4, <1>5, <2>5, <2>8, <2>9
    <2>11. SubSeq(rows, 1, low) \o SubSeq(rows, low + 1, high) = SubSeq(rows, 1, high)
        <3>1. 1 \in 1..Len(rows) + 1 /\ low \in 1 - 1..Len(rows)
            BY <1>1, <2>8
        <3> QED BY <3>1, ConcatAdjacentSubSeq
    <2> QED BY <2>3, <2>6, <2>7, <2>9, <2>10, <2>11
<1>9. Upto(count) = Len(rows)
    <2>1. count + 1 \in Nat /\ ~(count + 1 <= count)
        BY <1>2
    <2>2. ~((count + 1) * size <= Len(rows) + size - 1)
        BY <1>2, <2>1
    <2>3. (count + 1) * size = count * size + size /\ count * size \in Int
        BY <1>2, ProductGrows
    <2>4. PICK c \in Int : c = count * size
        BY <2>3
    <2>5. ~(c + size <= Len(rows) + size - 1)
        BY <2>2, <2>3, <2>4
    <2>6. ~(c < Len(rows))
        BY <1>1, <2>4, <2>5
    <2> QED BY <2>4, <2>6 DEF Upto
<1>10. f[count] = rows
    <2>1. f[count] = SubSeq(rows, 1, Upto(count))
        BY <1>2, <1>8
    <2> QED BY <1>9, <2>1, SubSeqFull
<1> QED BY <1>6, <1>7, <1>10 DEF chunks

\* Two decimals and whole years tell a period.
LEMMA LabelsTellPeriods ==
    ASSUME NEW p \in Nat, NEW q \in Nat, Eva!Label(p) = Eva!Label(q)
    PROVE  p = q
<1>1. /\ p = 100 * (p \div 100) + (p % 100) /\ q = 100 * (q \div 100) + (q % 100)
      /\ p % 100 = 10 * ((p % 100) \div 10) + (p % 10) /\ q % 100 = 10 * ((q % 100) \div 10) + (q % 10)
    OBVIOUS
<1>2. /\ p \div 100 \in Int /\ p % 10 \in Int /\ (p % 100) \div 10 \in Int
      /\ q \div 100 \in Int /\ q % 10 \in Int /\ (q % 100) \div 10 \in Int
      /\ p % 100 = 0 => p % 10 = 0 /\ (p % 100) \div 10 = 0
      /\ q % 100 = 0 => q % 10 = 0 /\ (q % 100) \div 10 = 0
    OBVIOUS
<1>3. ASSUME NEW k \in Nat
      PROVE  Len(Eva!Label(k)) = IF k % 100 = 0 THEN 1 ELSE IF k % 10 = 0 THEN 2 ELSE 3
    BY DEF Eva!Label
<1>4. /\ p % 100 = 0 <=> q % 100 = 0
      /\ p % 100 # 0 => (p % 10 = 0 <=> q % 10 = 0)
    BY <1>3
<1>5. /\ Eva!Label(p)[1] = p \div 100 /\ Eva!Label(q)[1] = q \div 100
      /\ p % 100 # 0 => Eva!Label(p)[2] = (p % 100) \div 10
      /\ q % 100 # 0 => Eva!Label(q)[2] = (q % 100) \div 10
      /\ p % 100 # 0 /\ p % 10 # 0 => Eva!Label(p)[3] = p % 10
      /\ q % 100 # 0 /\ q % 10 # 0 => Eva!Label(q)[3] = q % 10
    BY DEF Eva!Label
<1>6. p \div 100 = q \div 100 /\ (p % 100) \div 10 = (q % 100) \div 10 /\ p % 10 = q % 10
    <2>1. CASE p % 100 = 0
        BY <1>2, <1>4, <1>5, <2>1
    <2>2. CASE p % 100 # 0 /\ p % 10 = 0
        BY <1>4, <1>5, <2>2
    <2>3. CASE p % 100 # 0 /\ p % 10 # 0
        BY <1>4, <1>5, <2>3
    <2> QED BY <2>1, <2>2, <2>3
<1> HIDE DEF Eva!Label
<1> QED BY <1>1, <1>6

\* Of any periods: what is accepted has names and probabilities of its own, the
\* tails are complements, and a longer period is further out (_period_label,
\* return_periods_to_probabilities).
THEOREM PeriodsKeepTheirOrder ==
    ASSUME NEW periods \in Seq(Nat), Eva!PeriodsAreApart(periods)
    PROVE  Eva!PeriodsAreMapped(periods)
<1> DEFINE upper == Eva!ToProbabilities(periods, "upper", "one_minus_inverse")
           lower == Eva!ToProbabilities(periods, "lower", "one_minus_inverse")
           columns == [i \in DOMAIN periods |-> Eva!Label(periods[i])]
<1>1. /\ Error # [i \in DOMAIN periods |-> Eva!Probability(periods[i], "upper", "one_minus_inverse")]
      /\ Error # [i \in DOMAIN periods |-> Eva!Probability(periods[i], "lower", "one_minus_inverse")]
      /\ Error # columns
    BY DEF Eva!PeriodsAreApart
<1>2. \A i \in DOMAIN periods :
        /\ Eva!Probability(periods[i], "upper", "one_minus_inverse") = <<periods[i] - 100, periods[i]>>
        /\ Eva!Probability(periods[i], "lower", "one_minus_inverse") = <<100, periods[i]>>
    BY DEF Eva!Probability
<1>3. (upper = Error <=> ~Eva!ValidPeriods(periods)) /\ (lower = Error <=> ~Eva!ValidPeriods(periods))
    BY <1>1 DEF Eva!ToProbabilities
<1>4. ASSUME Eva!ValidPeriods(periods)
      PROVE  /\ Eva!ValueColumns(periods) # Error
             /\ upper = [i \in DOMAIN periods |-> Eva!Probability(periods[i], "upper", "one_minus_inverse")]
             /\ lower = [i \in DOMAIN periods |-> Eva!Probability(periods[i], "lower", "one_minus_inverse")]
    <2>1. \A i, j \in DOMAIN periods : periods[i] = periods[j] => i = j
        BY <1>4 DEF Eva!ValidPeriods, Eva!IsInjective
    <2>2. \A i, j \in DOMAIN periods : columns[i] = columns[j] => i = j
        <3> SUFFICES ASSUME NEW i \in DOMAIN periods, NEW j \in DOMAIN periods, columns[i] = columns[j]
                     PROVE  i = j
            OBVIOUS
        <3>1. periods[i] \in Nat /\ periods[j] \in Nat /\ Eva!Label(periods[i]) = Eva!Label(periods[j])
            OBVIOUS
        <3> QED BY <2>1, <3>1, LabelsTellPeriods
    <2>3. Eva!IsInjective(columns)
        BY <2>2 DEF Eva!IsInjective
    <2> QED BY <1>1, <1>4, <2>3 DEF Eva!ValueColumns, Eva!ToProbabilities
<1>5. ~Eva!ValidPeriods(periods) => Eva!ValueColumns(periods) = Error
    BY DEF Eva!ValueColumns
<1>6. ASSUME upper # Error, NEW i \in DOMAIN periods, NEW j \in DOMAIN periods
      PROVE  /\ upper[i][1] * lower[i][2] + lower[i][1] * upper[i][2] = upper[i][2] * lower[i][2]
             /\ periods[i] > periods[j] =>
                 /\ upper[i][1] * upper[j][2] > upper[j][1] * upper[i][2]
                 /\ lower[i][1] * lower[j][2] < lower[j][1] * lower[i][2]
    <2>1. /\ upper[i] = <<periods[i] - 100, periods[i]>> /\ lower[i] = <<100, periods[i]>>
          /\ upper[j] = <<periods[j] - 100, periods[j]>> /\ lower[j] = <<100, periods[j]>>
        BY <1>2, <1>3, <1>4, <1>6
    <2>2. PICK p \in Nat, q \in Nat : p = periods[i] /\ q = periods[j]
        OBVIOUS
    <2>3. /\ upper[i][1] = p - 100 /\ upper[i][2] = p /\ lower[i][1] = 100 /\ lower[i][2] = p
          /\ upper[j][1] = q - 100 /\ upper[j][2] = q /\ lower[j][1] = 100 /\ lower[j][2] = q
        BY <2>1, <2>2
    <2> HIDE DEF upper, lower
    <2>4. (p - 100) * p + 100 * p = p * p
        OBVIOUS
    <2>5. p > q => (p - 100) * q > (q - 100) * p /\ 100 * q < 100 * p
        OBVIOUS
    <2> QED BY <2>2, <2>3, <2>4, <2>5
<1> QED BY <1>3, <1>4, <1>5, <1>6 DEF Eva!PeriodsAreMapped

\* Of any rows in any batches, cut into chunks of any size and evaluated by one
\* process or many: a row's values are those of its own curve and context, at its
\* place, and nothing is published when one of them is not valid.
THEOREM RowsKeepTheirValues ==
    ASSUME NEW R, NEW batches \in Seq(Seq(R)), NEW P, NEW probabilities \in Seq(P),
           NEW columns, NEW passthrough, NEW options, options.chunk \in Nat \ {0},
           Eva!ResultsAreApart(Eva!FlattenSeq(batches), probabilities, options.impact),
           options.impact # Missing =>
               \A field \in DOMAIN options.impact.base : options.impact.base[field] # Missing
    PROVE  Eva!EvaluationIsPerRow(batches, probabilities, columns, passthrough, options)
<1> DEFINE rows == Eva!FlattenSeq(batches)
           impact == options.impact
           result == Eva!Stream(batches, probabilities, columns, passthrough, options)
           pool(batch) == Len(batch) > options.chunk /\ Eva!Workers(options.workers, impact) > 1
           invalid == ~Eva!ValidOutput(probabilities, columns, passthrough)
                      \/ \E i \in DOMAIN rows : rows[i].kind = "invalid"
<1>1. rows \in Seq(R)
    <2>1. Len(batches) \in Nat /\ Len(batches) \in 0..Len(batches)
        OBVIOUS
    <2> QED BY <2>1, FlattenIs
<1>2. ASSUME NEW b \in 1..Len(batches)
      PROVE  Eva!InChunks(batches[b], probabilities, options.chunk, pool(batches[b]), impact)
                = Owns(batches[b], probabilities, impact)
    <2> DEFINE batch == batches[b]
               chunks == Eva!Chunks(batch, options.chunk)
    <2>1. batch \in Seq(R)
        OBVIOUS
    <2>2. Eva!CurveQuantiles(batch, probabilities, impact) = Owns(batch, probabilities, impact)
        BY <2>1, QuantilesAreOwn
    <2>3. chunks \in Seq(Seq(R)) /\ Eva!FlattenSeq(chunks) = batch
        BY <2>1, ChunksJoin
    <2> HIDE DEF batch, chunks
    <2>4. DOMAIN chunks = 1..Len(chunks) /\ \A k \in 1..Len(chunks) : chunks[k] \in Seq(R)
        BY <2>3
    <2>5. \A k \in 1..Len(chunks) :
            Eva!CurveQuantiles(chunks[k], probabilities, impact) = Owns(chunks[k], probabilities, impact)
        BY <2>4, QuantilesAreOwn
    <2>6. [k \in DOMAIN chunks |-> Eva!CurveQuantiles(chunks[k], probabilities, impact)]
            = [k \in 1..Len(chunks) |-> Owns(chunks[k], probabilities, impact)]
        BY <2>4, <2>5
    <2>7. Eva!FlattenSeq([k \in DOMAIN chunks |-> Eva!CurveQuantiles(chunks[k], probabilities, impact)])
            = Owns(batch, probabilities, impact)
        BY <2>3, <2>6, PartsAreOwn
    <2> QED BY <2>2, <2>7 DEF Eva!InChunks, batch, chunks
<1>3. Eva!FlattenSeq([b \in DOMAIN batches |->
            Eva!InChunks(batches[b], probabilities, options.chunk, pool(batches[b]), impact)])
        = Owns(rows, probabilities, impact)
    <2>1. DOMAIN batches = 1..Len(batches)
        OBVIOUS
    <2>2. [b \in DOMAIN batches |->
            Eva!InChunks(batches[b], probabilities, options.chunk, pool(batches[b]), impact)]
            = [b \in 1..Len(batches) |-> Owns(batches[b], probabilities, impact)]
        BY <1>2, <2>1
    <2> QED BY <2>2, PartsAreOwn
<1>4. result = IF invalid THEN Error ELSE Owns(rows, probabilities, impact)
    BY <1>3 DEF Eva!Stream
<1>5. Error # Owns(rows, probabilities, impact)
    BY DEF Eva!ResultsAreApart, Owns, Own
<1>6. CASE invalid
    BY <1>4, <1>6 DEF Eva!EvaluationIsPerRow
<1>7. CASE ~invalid
    <2>1. result = [i \in 1..Len(rows) |-> Own(rows[i], probabilities, impact)] /\ result # Error
        <3>1. DOMAIN rows = 1..Len(rows)
            BY <1>1
        <3> QED BY <1>4, <1>5, <1>7, <3>1 DEF Owns
    <2>2. Len(result) = Len(rows) /\ DOMAIN rows = 1..Len(rows)
        <3>1. Len(rows) \in Nat /\ DOMAIN rows = 1..Len(rows)
            BY <1>1
        <3> HIDE DEF rows, result
        <3> QED BY <2>1, <3>1
    <2>3. 1 \in 1..Len(probabilities)
        <3>1. probabilities # <<>>
            BY <1>7 DEF Eva!ValidOutput
        <3> QED BY <3>1, EmptySeq
    <2>4. ASSUME NEW i \in DOMAIN rows, impact # Missing, rows[i].kind # "no_data",
                 NEW field \in DOMAIN impact.base
          PROVE  result[i][1][2][field] # Missing
        <3> DEFINE values == Eva!Quantiles(rows[i], probabilities)
        <3>1. values # Missing
            BY <2>4 DEF Eva!ResultsAreApart
        <3>2. result[i] = Eva!Outcome(rows[i], values, impact, Len(probabilities))
            BY <2>1, <2>2 DEF Own
        <3> HIDE DEF values
        <3>3. result[i] = [w \in 1..Len(probabilities) |-> <<values, Eva!Context(rows[i], impact), w>>]
            BY <2>4, <3>1, <3>2 DEF Eva!Outcome
        <3>4. result[i][1] = <<values, Eva!Context(rows[i], impact), 1>>
            BY <2>3, <3>3
        <3>5. result[i][1][2] = Eva!Context(rows[i], impact)
            BY <3>4
        <3>6. Eva!Context(rows[i], impact)[field] # Missing
            BY <2>4 DEF Eva!Context
        <3> QED BY <3>5, <3>6
    <2>5. \A i \in DOMAIN rows : result[i] = Own(rows[i], probabilities, impact)
        BY <2>1, <2>2
    <2> HIDE DEF result
    <2> QED BY <2>1, <2>2, <2>4, <2>5 DEF Eva!EvaluationIsPerRow, Own, result
<1> QED BY <1>6, <1>7

\* The input of the topic are rows, and then what is asked of them.
EvaluationIInv ==
    topic = "evaluation" =>
        \/ input.step = 0 /\ input.data \in EvaluationStart
        \/ input.step = 1 /\ \E rows \in EvaluationStart : input.data \in EvaluationInputs(rows)

\* What the run checks of evaluation: names and probabilities of periods, and the
\* values of rows whichever way they are cut and whoever evaluates them.
THEOREM CurvesStayEvaluated == Asked => []CurvesAreEvaluated
<1>1. ChooseTopic => EvaluationIInv
    <2> SUFFICES ASSUME ChooseTopic, topic = "evaluation"
                 PROVE  input.step = 0 /\ input.data \in EvaluationStart
        BY DEF EvaluationIInv
    <2>1. PICK start :
            /\ \E kind \in {"selection", "blocks", "curves", "policies", "rasters", "evaluation",
                            "portfolios", "limits"} : \E s : start = <<kind, s>>
            /\ start[1] = "evaluation" => \E s \in EvaluationStart : start = <<"evaluation", s>>
            /\ topic = start[1] /\ input = [step |-> 0, data |-> start[2]]
        BY DEF ChooseTopic
    <2> QED BY <2>1
<1>2. EvaluationIInv /\ [Choose]_question => EvaluationIInv'
    <2> SUFFICES ASSUME EvaluationIInv, [Choose]_question PROVE EvaluationIInv'
        OBVIOUS
    <2>1. CASE ChooseEvaluation
        BY <2>1 DEF ChooseEvaluation, EvaluationIInv
    <2>2. CASE topic # "evaluation" /\ UNCHANGED topic
        BY <2>2 DEF EvaluationIInv
    <2>3. CASE UNCHANGED question
        BY <2>3 DEF EvaluationIInv, question
    <2> QED BY <2>1, <2>2, <2>3
            DEF Choose, ChooseBlocks, ChooseCurve, ChooseSelection, ChoosePolicy, ChooseRaster,
                ChoosePortfolio, ChooseLimits
<1>3. EvaluationIInv => CurvesAreEvaluated
    <2> SUFFICES ASSUME NEW rows \in EvaluationStart, NEW i \in EvaluationInputs(rows)
                 PROVE  /\ i.what \in {"periods", "stream"}
                        /\ i.what = "periods" => Eva!PeriodsAreMapped(i.periods)
                        /\ i.what = "stream" =>
                            Eva!EvaluationIsPerRow(i.batches, <<<<9, 10>>>>, i.columns, {"cell"},
                                [chunk |-> i.chunk, workers |-> i.workers, impact |-> i.impact])
        <3> HIDE DEF EvaluationInputs
        <3> SUFFICES ASSUME EvaluationIInv, topic = "evaluation", input.step = 1
                     PROVE  CASE input.data.what = "periods" -> Eva!PeriodsAreMapped(input.data.periods)
                              [] input.data.what = "stream" ->
                                    Eva!EvaluationIsPerRow(input.data.batches, <<<<9, 10>>>>, input.data.columns,
                                        {"cell"}, [chunk |-> input.data.chunk, workers |-> input.data.workers,
                                                   impact |-> input.data.impact])
            BY DEF CurvesAreEvaluated
        <3>1. PICK rows \in EvaluationStart : input.data \in EvaluationInputs(rows)
            BY DEF EvaluationIInv
        <3> QED BY <3>1
    <2> DEFINE R == EvaluationRows \cup {Invalid}
    <2>1. rows \in Seq(R)
        <3>1. CASE rows = <<Invalid>>
            BY <3>1
        <3>2. CASE rows \in SeqOf(EvaluationRows, 3)
            <4>1. PICK m \in 0..3 : rows \in [1..m -> EvaluationRows]
                BY <3>2 DEF SeqOf
            <4>2. rows = [k \in 1..m |-> rows[k]] /\ \A k \in 1..m : rows[k] \in R
                BY <4>1
            <4> HIDE DEF R
            <4> QED BY <4>2, FunctionIsSeq
        <3> QED BY <3>1, <3>2 DEF EvaluationStart
    <2> HIDE DEF R
    <2>2. i.what \in {"periods", "stream"}
        BY DEF EvaluationInputs
    <2>3. ASSUME i.what = "periods" PROVE Eva!PeriodsAreMapped(i.periods)
        <3>1. i.periods \in SeqOf(EvaluatedPeriods, 3)
            BY <2>3 DEF EvaluationInputs
        <3>2. PICK m \in 0..3 : i.periods \in [1..m -> EvaluatedPeriods]
            BY <3>1 DEF SeqOf
        <3>3. i.periods \in Seq(Nat)
            <4>1. PICK s : s = i.periods
                OBVIOUS
            <4>2. s = [k \in 1..m |-> s[k]] /\ \A k \in 1..m : s[k] \in Nat
                BY <3>2, <4>1 DEF EvaluatedPeriods
            <4> QED BY <4>1, <4>2, FunctionIsSeq
        <3>4. Eva!PeriodsAreApart(i.periods)
            BY <2>3, EvaluationAssumption
        <3> QED BY <3>3, <3>4, PeriodsKeepTheirOrder
    <2>4. ASSUME i.what = "stream"
          PROVE  Eva!EvaluationIsPerRow(i.batches, <<<<9, 10>>>>, i.columns, {"cell"},
                    [chunk |-> i.chunk, workers |-> i.workers, impact |-> i.impact])
        <3> DEFINE options == [chunk |-> i.chunk, workers |-> i.workers, impact |-> i.impact]
        <3>1. /\ i.batches \in {<<rows>>, <<rows, <<>>, rows>>} /\ i.chunk \in 1..2
              /\ i.impact \in {Missing, [base |-> [cell |-> 9, country |-> "XX"], columns |-> {"country"}]}
            BY <2>4 DEF EvaluationInputs
        <3>2. i.batches \in Seq(Seq(R))
            <4>1. <<>> \in Seq(R)
                OBVIOUS
            <4>2. <<rows>> \in Seq(Seq(R)) /\ <<rows, <<>>, rows>> \in Seq(Seq(R))
                BY <2>1, <4>1
            <4> QED BY <3>1, <4>2
        <3>3. <<<<9, 10>>>> \in Seq(Int \X Int)
            OBVIOUS
        <3>4. options.chunk \in Nat \ {0} /\ options.impact = i.impact
            BY <3>1
        <3>5. Eva!ResultsAreApart(Eva!FlattenSeq(i.batches), <<<<9, 10>>>>, options.impact)
            <4>1. Eva!ResultsAreApart(FlattenSeq(i.batches), <<<<9, 10>>>>, i.impact)
                BY <2>4, EvaluationAssumption
            <4>2. FlattenSeq(i.batches) = Eva!FlattenSeq(i.batches)
                BY DEF FlattenSeq, Eva!FlattenSeq
            <4> QED BY <3>4, <4>1, <4>2
        <3>6. options.impact # Missing =>
                \A field \in DOMAIN options.impact.base : options.impact.base[field] # Missing
            <4>1. Missing \notin {9, "XX"}
                BY EvaluationAssumption
            <4> QED BY <3>1, <3>4, <4>1
        <3> HIDE DEF options
        <3>7. Eva!EvaluationIsPerRow(i.batches, <<<<9, 10>>>>, i.columns, {"cell"}, options)
            BY <3>2, <3>3, <3>4, <3>5, <3>6, RowsKeepTheirValues
        <3> QED BY <3>7 DEF options
    <2> QED BY <2>2, <2>3, <2>4
<1> QED BY <1>1, <1>2, <1>3, PTL DEF Asked
=============================================================================
