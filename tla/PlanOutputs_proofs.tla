------------------------- MODULE PlanOutputs_proofs -------------------------
(***************************************************************************)
(* What plans write, for any processes, requests, plans and bounds: the    *)
(* coverage of cells by polygons, the stream of fits, the shards of a      *)
(* tiled ingest, the crops of the JRC plans, the outputs over the user's   *)
(* own data and the PMTiles archives.  The machines are proved about here, *)
(* where they are instantiated; a behaviour of the sum is one of each.     *)
(***************************************************************************)
EXTENDS MCPlanOutputs, Sequences, TLAPS, FiniteSetTheorems,
        WellFoundedInduction

-----------------------------------------------------------------------------
(***************************************************************************)
(* Numbers: sets of naturals have a least one, and finite sets bounds.     *)
(***************************************************************************)

\* The order of the naturals as a relation.
LEMMA LessOnNat == OpToRel(<, Nat) = {ss \in Nat \X Nat : ss[1] < ss[2]}
  BY DEF OpToRel

\* A set of naturals that is not empty has a least one.
LEMMA LeastOf ==
    ASSUME NEW S \in SUBSET Nat, S # {}
    PROVE  \E x \in S : \A y \in S : x <= y
<1>1. PICK x \in S : \A y \in S : ~(<<y, x>> \in OpToRel(<, Nat))
    BY NatLessThanWellFounded, WFMin
<1>2. ASSUME NEW y \in S PROVE x <= y
    <2>1. <<y, x>> \notin {ss \in Nat \X Nat : ss[1] < ss[2]}
        BY <1>1, LessOnNat
    <2> QED BY <2>1
<1> QED BY <1>2

\* A finite set of integers that is not empty has a least and a greatest element.
LEMMA FiniteBounds ==
    ASSUME NEW S \in SUBSET Int, IsFiniteSet(S), S # {}
    PROVE  /\ \E x \in S : \A y \in S : x <= y
           /\ \E x \in S : \A y \in S : y <= x
<1> DEFINE Low(Part) == \E x \in Part : \A y \in Part : x <= y
           High(Part) == \E x \in Part : \A y \in Part : y <= x
           bad == {Part \in FiniteSubsetsOf(S) : Part # {} /\ ~(Low(Part) /\ High(Part))}
<1>1. SUFFICES ASSUME bad # {} PROVE FALSE
    <2>1. S \in FiniteSubsetsOf(S)
        BY DEF FiniteSubsetsOf
    <2> QED BY <2>1, <1>1
<1>2. PICK Part \in bad : \A U \in bad : ~(<<U, Part>> \in StrictSubsetOrdering(S))
    <2>1. bad \subseteq FiniteSubsetsOf(S)
        OBVIOUS
    <2> HIDE DEF bad
    <2> QED BY <1>1, <2>1, FS_StrictSubsetOrderingWellFounded, WFMin, Zenon
<1>3. Part \subseteq S /\ IsFiniteSet(Part) /\ Part # {}
    BY DEF FiniteSubsetsOf
<1>4. PICK x \in Part : TRUE
    BY <1>3
<1> DEFINE U == Part \ {x}
<1>5. U \in FiniteSubsetsOf(S) /\ <<U, Part>> \in StrictSubsetOrdering(S)
    BY <1>3, <1>4, FS_Subset DEF FiniteSubsetsOf, StrictSubsetOrdering
<1>6. U = {} \/ (Low(U) /\ High(U))
    BY <1>2, <1>5
<1>7. Low(Part) /\ High(Part)
    <2>1. CASE U = {}
        <3>1. \A y \in Part : y = x
            BY <2>1, <1>4
        <3> QED BY <3>1, <1>3, <1>4
    <2>2. CASE Low(U) /\ High(U)
        <3>1. PICK l \in U : \A y \in U : l <= y
            BY <2>2
        <3>2. PICK h \in U : \A y \in U : y <= h
            BY <2>2
        <3>3. Low(Part)
            <4>1. (IF l <= x THEN l ELSE x) \in Part /\ \A y \in Part : (IF l <= x THEN l ELSE x) <= y
                BY <3>1, <1>3, <1>4
            <4> QED BY <4>1
        <3>4. High(Part)
            <4>1. (IF h <= x THEN x ELSE h) \in Part /\ \A y \in Part : y <= (IF h <= x THEN x ELSE h)
                BY <3>2, <1>3, <1>4
            <4> QED BY <4>1
        <3> QED BY <3>3, <3>4
    <2> QED BY <1>6, <2>1, <2>2
<1> QED BY <1>2, <1>7

-----------------------------------------------------------------------------
(***************************************************************************)
(* The user's own data: a canonical file is of what its name says, and a   *)
(* name is not older than the call that computed it.                       *)
(***************************************************************************)

\* The periods of a raster can be sorted, and keep the paths they were given with.
LEMMA PathsKeepPeriods ==
    ASSUME NEW given \in B!Given, NEW i \in DOMAIN given
    PROVE  <<given[i], i>> \in B!Range(B!Ordered(given))
<1> DEFINE places == DOMAIN given
           Sorts(f) == \A k, l \in places : k < l =>
                          \/ given[f[k]] < given[f[l]]
                          \/ given[f[k]] = given[f[l]] /\ f[k] < f[l]
           Reaches(f) == \A l \in places : \E k \in places : f[k] = l
           order == CHOOSE f \in [places -> places] : Sorts(f)
<1>1. given \in {<<>>, <<10, 100, 20, 50>>, <<10, 20, 50, 20>>, <<10, 20, 50>>}
    BY DEF B!Given
<1>2. /\ \E f \in [places -> places] : Sorts(f)
      /\ \A f \in [places -> places] : Sorts(f) => Reaches(f)
    <2>1. CASE given = <<>>
        BY <2>1
    <2>2. CASE given = <<10, 100, 20, 50>>
        <3>1. places = {1, 2, 3, 4}
            BY <2>2
        <3>2. <<1, 3, 4, 2>> \in [places -> places] /\ Sorts(<<1, 3, 4, 2>>)
            BY <2>2, <3>1
        <3>3. ASSUME NEW f \in [places -> places], Sorts(f) PROVE Reaches(f)
            BY <2>2, <3>1, <3>3
        <3> QED BY <3>2, <3>3
    <2>3. CASE given = <<10, 20, 50, 20>>
        <3>1. places = {1, 2, 3, 4}
            BY <2>3
        <3>2. <<1, 2, 4, 3>> \in [places -> places] /\ Sorts(<<1, 2, 4, 3>>)
            BY <2>3, <3>1
        <3>3. ASSUME NEW f \in [places -> places], Sorts(f) PROVE Reaches(f)
            BY <2>3, <3>1, <3>3
        <3> QED BY <3>2, <3>3
    <2>4. CASE given = <<10, 20, 50>>
        <3>1. places = {1, 2, 3}
            BY <2>4
        <3>2. <<1, 2, 3>> \in [places -> places] /\ Sorts(<<1, 2, 3>>)
            BY <2>4, <3>1
        <3>3. ASSUME NEW f \in [places -> places], Sorts(f) PROVE Reaches(f)
            BY <2>4, <3>1, <3>3
        <3> QED BY <3>2, <3>3
    <2> QED BY <1>1, <2>1, <2>2, <2>3, <2>4
<1>3. order \in [places -> places] /\ Reaches(order)
    <2> HIDE DEF Sorts, Reaches
    <2> QED BY <1>2
<1>4. B!Ordered(given) = [k \in places |-> <<given[order[k]], order[k]>>]
    BY DEF B!Ordered
<1> HIDE DEF order, places
<1>5. PICK k \in places : order[k] = i
    BY <1>3 DEF places
<1>6. B!Ordered(given)[k] = <<given[i], i>> /\ k \in DOMAIN B!Ordered(given)
    BY <1>4, <1>5
<1> QED BY <1>6 DEF B!Range

\* An idle call has no name, no half and no result.
LEMMA NoOwnCall == B!BYOCacheAssumption => B!NoCall \in B!Call
<1> SUFFICES ASSUME B!BYOCacheAssumption PROVE B!NoCall \in B!Call
    OBVIOUS
<1>1. 0 \in 0..MaxVersion
    BY DEF B!BYOCacheAssumption
<1> QED BY <1>1 DEF B!NoCall, B!Call, B!Mode, B!PathLists, B!PolicyOrNone

LEMMA OwnInit == B!BYOCacheAssumption /\ B!Init => B!IInv
<1> SUFFICES ASSUME B!BYOCacheAssumption, B!Init PROVE B!IInv
    OBVIOUS
<1>1. B!TypeOK
    BY NoOwnCall DEF B!Init, B!TypeOK, B!BYOCacheAssumption
<1>2. ASSUME NEW p \in Proc PROVE B!CallIsSound(p)
    BY DEF B!Init, B!CallIsSound, B!CallStarted, B!CallIsNamed, B!CallReads, B!CallReturns
<1> QED BY <1>1, <1>2 DEF B!Init, B!IInv

\* What a kind of source decides stays with it.
LEMMA KindStays ==
    ASSUME bKind' = bKind
    PROVE  /\ B!InMemory' <=> B!InMemory
           /\ B!Given' = B!Given /\ B!PathLists' = B!PathLists
           /\ B!Named' = B!Named /\ B!Contents' = B!Contents /\ B!Call' = B!Call
<1>1. /\ B!InMemory' <=> B!InMemory
      /\ B!Given' = B!Given /\ B!PathLists' = B!PathLists
    BY DEF B!InMemory, B!Given, B!PathLists
<1>2. B!Named' = B!Named /\ B!Contents' = B!Contents
    BY <1>1 DEF B!Named, B!Contents, B!Areas, B!PolicyOrNone
<1>3. B!Call' = B!Call
    BY <1>1, <1>2 DEF B!Call, B!Areas, B!PolicyOrNone, B!Policies
<1> QED BY <1>1, <1>2, <1>3

\* A step of a call leaves every other call sound: the source stays as it is.
LEMMA OtherOwnStaySound ==
    ASSUME B!IInv, NEW q \in Proc, UNCHANGED <<bKind, bData>>, bPc'[q] = bPc[q], bCall'[q] = bCall[q]
    PROVE  B!CallIsSound(q)'
<1>1. B!CallIsSound(q)
    BY DEF B!IInv
<1>2. B!Given' = B!Given /\ B!PathLists' = B!PathLists
    BY DEF B!Given, B!PathLists
<1>3. B!Named' = B!Named /\ B!Contents' = B!Contents
    BY <1>2 DEF B!Named, B!Contents, B!Areas, B!PolicyOrNone
<1>4. B!CallStarted(q)'
    BY <1>1, <1>2 DEF B!CallIsSound, B!CallStarted
<1>5. B!CallIsNamed(q)'
    BY KindStays, <1>1, <1>3 DEF B!CallIsSound, B!CallIsNamed
<1>6. B!CallReads(q)'
    BY KindStays, <1>1 DEF B!CallIsSound, B!CallReads
<1>7. B!CallReturns(q)'
    BY KindStays, <1>1, <1>3 DEF B!CallIsSound, B!CallReturns, B!ResultIsFresh
<1> QED BY <1>4, <1>5, <1>6, <1>7 DEF B!CallIsSound

\* Such a step preserves the invariant if its own call stays sound.
LEMMA OneOwnStep ==
    ASSUME B!IInv, NEW p \in Proc, UNCHANGED <<bKind, bData>>, NEW l, NEW c \in B!Call,
           bPc' = [bPc EXCEPT ![p] = l], bCall' = [bCall EXCEPT ![p] = c],
           l \in {"idle", "identify", "look", "open", "read", "done", "failed"},
           bOutputs' \subseteq [name : B!Named, content : B!Contents],
           \A o \in bOutputs' : B!OutputIsOfItsName(o),
           B!CallIsSound(p)'
    PROVE  B!IInv'
<1>1. B!TypeOK'
    BY DEF B!IInv, B!TypeOK, B!Call, B!Named, B!Contents, B!PathLists, B!PolicyOrNone, B!Policies, B!Given, B!Areas
<1>2. ASSUME NEW q \in Proc PROVE B!CallIsSound(q)'
    <2>1. CASE q = p
        BY <2>1
    <2>2. CASE q # p
        <3>1. bPc'[q] = bPc[q] /\ bCall'[q] = bCall[q]
            BY <2>2 DEF B!IInv, B!TypeOK
        <3> QED BY <3>1, OtherOwnStaySound
    <2> QED BY <2>1, <2>2
<1>3. \A o \in bOutputs' : B!OutputIsOfItsName(o)'
    BY KindStays DEF B!OutputIsOfItsName, B!NameIsNotOlder
<1> QED BY <1>1, <1>2, <1>3 DEF B!IInv

\* A call that is over, or refused, is idle in all but its label.
LEMMA OwnEndStep ==
    ASSUME B!BYOCacheAssumption, B!IInv, NEW p \in Proc, NEW l \in {"idle", "failed"},
           bPc' = [bPc EXCEPT ![p] = l], bCall' = [bCall EXCEPT ![p] = B!NoCall],
           UNCHANGED <<bKind, bData, bOutputs>>
    PROVE  B!IInv'
<1>1. bPc'[p] = l
    BY DEF B!IInv, B!TypeOK
<1>2. B!CallIsSound(p)'
    BY <1>1 DEF B!CallIsSound, B!CallStarted, B!CallIsNamed, B!CallReads, B!CallReturns
<1> QED BY <1>2, NoOwnCall, OneOwnStep DEF B!IInv, B!TypeOK

\* The user's change makes no call's version newer.
LEMMA OwnChangeStep ==
    ASSUME B!BYOCacheAssumption, B!IInv, B!Change
    PROVE  B!IInv'
<1>1. /\ bKind' = bKind /\ bOutputs' = bOutputs /\ bPc' = bPc
      /\ bData \in Nat /\ bData' = bData + 1 /\ bData' \in 1..MaxVersion
      /\ bCall' = [p \in Proc |-> [bCall[p] EXCEPT !.quiet = FALSE]]
    BY DEF B!Change, B!IInv, B!TypeOK, B!BYOCacheAssumption
<1>2. B!Given' = B!Given /\ B!PathLists' = B!PathLists
    BY <1>1 DEF B!Given, B!PathLists
<1>3. B!Named' = B!Named /\ B!Contents' = B!Contents /\ B!Call' = B!Call
    BY <1>1, <1>2 DEF B!Named, B!Contents, B!Call, B!Areas, B!PolicyOrNone, B!Policies
<1>4. ASSUME NEW p \in Proc PROVE bCall[p] \in B!Call /\ bCall'[p] = [bCall[p] EXCEPT !.quiet = FALSE]
    BY <1>1, <1>4 DEF B!IInv, B!TypeOK
<1>5. bCall' \in [Proc -> B!Call]
    <2>1. ASSUME NEW p \in Proc PROVE bCall'[p] \in B!Call
        BY <1>4, <2>1 DEF B!Call
    <2> QED BY <1>1, <2>1
<1>6. B!TypeOK'
    BY <1>1, <1>3, <1>5 DEF B!IInv, B!TypeOK
<1>7. ASSUME NEW o \in bOutputs PROVE B!OutputIsOfItsName(o)'
    <2>1. o \in [name : B!Named, content : B!Contents] /\ B!OutputIsOfItsName(o)
        BY <1>7 DEF B!IInv, B!TypeOK
    <2>2. o.content.second \in Nat
        BY <2>1 DEF B!Contents, B!BYOCacheAssumption
    <2>3. o.content.second <= bData /\ o.content.second <= bData'
        BY <1>1, <2>1, <2>2 DEF B!OutputIsOfItsName
    <2> QED BY KindStays, <1>1, <2>1, <2>3 DEF B!OutputIsOfItsName, B!NameIsNotOlder
<1>8. ASSUME NEW p \in Proc PROVE B!CallIsSound(p)'
    <2> DEFINE c == bCall[p]  d == bCall'[p]
    <2>1. /\ d.mode = c.mode /\ d.keeps = c.keeps /\ d.area = c.area /\ d.policy = c.policy
          /\ d.given = c.given /\ d.paths = c.paths /\ d.name = c.name /\ d.seen = c.seen
          /\ d.first = c.first /\ d.result = c.result /\ d.quiet = FALSE
        BY <1>4 DEF B!Call
    <2>2. B!CallIsSound(p) /\ bPc'[p] = bPc[p]
        BY <1>1 DEF B!IInv
    <2> HIDE DEF c, d
    <2>0. \A n \in Nat : n <= bData => n <= bData'
        BY <1>1
    <2>3. B!CallStarted(p)'
        BY <1>1, <1>2, <2>1, <2>2 DEF B!CallIsSound, B!CallStarted, c, d
    <2>7. ASSUME bPc[p] \in {"look", "open", "read", "done"} PROVE c.seen \in Nat
        BY <1>1, <2>2, <2>7 DEF B!CallIsSound, B!CallStarted, c
    <2>8. ASSUME NEW m, NEW n, m \in Nat, n \in m..bData PROVE n \in m..bData' /\ n \in Nat
        BY <1>1, <2>8
    <2>4. B!CallIsNamed(p)'
        <3> SUFFICES ASSUME bPc[p] \in {"look", "open", "read", "done"}, c.keeps
                     PROVE  /\ c.name \in B!Named
                            /\ c.name.area = c.area /\ c.name.policy = c.policy
                            /\ c.name.paths = c.paths
                            /\ bKind \in B!Stamped => c.name.of \in c.seen..bData'
                            /\ B!InMemory => c.name.of = c.seen
            <4>1. bPc'[p] = bPc[p] /\ B!Named' = B!Named /\ bKind' = bKind
                BY <1>1, <1>3, <2>2
            <4>2. /\ bCall'[p].keeps = bCall[p].keeps /\ bCall'[p].name = bCall[p].name
                  /\ bCall'[p].area = bCall[p].area /\ bCall'[p].policy = bCall[p].policy
                  /\ bCall'[p].paths = bCall[p].paths /\ bCall'[p].seen = bCall[p].seen
                BY <2>1 DEF c, d
            <4> QED BY KindStays, <4>1, <4>2 DEF B!CallIsNamed, c
        <3> QED BY <2>2, <2>7, <2>8 DEF B!CallIsSound, B!CallIsNamed, c
    <2>5. B!CallReads(p)'
        <3> SUFFICES ASSUME bPc[p] = "read"
                     PROVE  /\ c.first \in c.seen..bData'
                            /\ B!InMemory => c.first = c.seen
                            /\ c.keeps /\ bKind \in B!Stamped => c.name.of <= c.first
            BY KindStays, <1>1, <2>1, <2>2 DEF B!CallReads, c, d
        <3> QED BY <2>2, <2>7, <2>8 DEF B!CallIsSound, B!CallReads, c
    <2>6. B!CallReturns(p)'
        <3>1. ASSUME bPc[p] = "done" PROVE c.result.second \in Nat
            BY <2>2, <3>1 DEF B!CallIsSound, B!CallReturns, B!Contents, c, B!BYOCacheAssumption
        <3>2. ASSUME bPc[p] = "done" PROVE c.result.second <= bData'
            BY <1>1, <2>2, <3>1, <3>2 DEF B!CallIsSound, B!CallReturns, c
        <3>3. bPc[p] = "done" => B!ResultIsFresh(p)'
            BY KindStays, <1>1, <2>1, <2>2 DEF B!CallIsSound, B!CallReturns, B!ResultIsFresh, c, d
        <3> QED BY <1>1, <1>3, <2>1, <2>2, <3>2, <3>3 DEF B!CallIsSound, B!CallReturns, c, d
    <2> QED BY <2>3, <2>4, <2>5, <2>6 DEF B!CallIsSound
<1> QED BY <1>1, <1>6, <1>7, <1>8 DEF B!IInv

LEMMA OwnStartStep ==
    ASSUME B!BYOCacheAssumption, B!IInv, NEW p \in Proc, B!Start(p)
    PROVE  B!IInv'
<1>1. PICK mode \in B!Mode, keeps \in BOOLEAN, directory \in BOOLEAN, area \in B!Areas,
           policy \in B!Policies \cup {None}, given \in B!Given :
        /\ p \in Keepers => mode = "reuse" /\ keeps /\ directory /\ policy # None
        /\ IF \/ ~B!ValidPaths(given)
              \/ policy # None /\ ~B!Accepts(policy)
              \/ keeps /\ ~directory
           THEN B!Raise(p)
           ELSE /\ bCall' = [bCall EXCEPT ![p] = [B!NoCall EXCEPT
                       !.mode = mode, !.keeps = keeps, !.area = area, !.policy = policy,
                       !.given = given, !.paths = B!Ordered(given), !.seen = bData]]
                /\ B!Goto(p, IF keeps THEN "identify" ELSE "open")
    BY Zenon DEF B!Start
<1>2. UNCHANGED <<bKind, bData, bOutputs>>
    BY DEF B!Start
<1>3. CASE B!Raise(p)
    BY <1>2, <1>3, OwnEndStep DEF B!Raise, B!Goto
<1>4. CASE ~B!Raise(p)
    <2> DEFINE l == IF keeps THEN "identify" ELSE "open"
               c == [B!NoCall EXCEPT !.mode = mode, !.keeps = keeps, !.area = area,
                        !.policy = policy, !.given = given, !.paths = B!Ordered(given), !.seen = bData]
    <2>1. bCall' = [bCall EXCEPT ![p] = c] /\ bPc' = [bPc EXCEPT ![p] = l]
        BY <1>1, <1>4 DEF B!Goto
    <2>2. /\ c.given = given /\ c.paths = B!Ordered(given) /\ c.seen = bData /\ c.keeps = keeps
          /\ c.quiet = TRUE
        BY DEF B!NoCall
    <2>3. c \in B!Call
        <3>1. /\ B!Ordered(given) \in B!PathLists /\ bData \in 0..MaxVersion
              /\ policy \in B!PolicyOrNone
            BY DEF B!PathLists, B!IInv, B!TypeOK, B!PolicyOrNone
        <3> QED BY <3>1, NoOwnCall DEF B!Call
    <2>4. bData \in Nat /\ bData >= 1
        BY DEF B!IInv, B!TypeOK, B!BYOCacheAssumption
    <2> HIDE DEF c
    <2>5. bPc'[p] = l /\ bCall'[p] = c
        BY <2>1 DEF B!IInv, B!TypeOK
    <2>6. B!CallStarted(p)'
        BY <1>2, <2>2, <2>4, <2>5 DEF B!CallStarted, B!Given
    <2>7. B!CallIsSound(p)'
        BY <2>2, <2>5, <2>6 DEF B!CallIsSound, B!CallIsNamed, B!CallReads, B!CallReturns
    <2> QED BY <1>2, <2>1, <2>3, <2>7, OneOwnStep DEF B!IInv, B!TypeOK
<1> QED BY <1>3, <1>4

LEMMA OwnIdentifyStep ==
    ASSUME B!BYOCacheAssumption, B!IInv, NEW p \in Proc, B!Identify(p)
    PROVE  B!IInv'
<1> DEFINE c == [bCall[p] EXCEPT !.name = B!Name(p)]
<1>1. /\ bPc[p] = "identify" /\ bPc' = [bPc EXCEPT ![p] = "look"]
      /\ bCall' = [bCall EXCEPT ![p].name = B!Name(p)] /\ UNCHANGED <<bKind, bData, bOutputs>>
    BY DEF B!Identify, B!Goto
<1>2. bCall[p] \in B!Call /\ bCall' = [bCall EXCEPT ![p] = c] /\ bPc'[p] = "look" /\ bCall'[p] = c
    BY <1>1 DEF B!IInv, B!TypeOK
<1>3. B!CallIsSound(p) /\ B!CallStarted(p) /\ bData \in 1..MaxVersion /\ MaxVersion \in Nat
    BY DEF B!IInv, B!TypeOK, B!CallIsSound, B!BYOCacheAssumption
<1>4. /\ bCall[p].seen \in 1..bData /\ bCall[p].keeps /\ bCall[p].area \in B!Areas \cup {None}
      /\ bCall[p].policy \in B!PolicyOrNone /\ bCall[p].paths \in B!PathLists
    BY <1>1, <1>2, <1>3 DEF B!CallStarted, B!Call
<1>5. /\ B!Name(p) \in B!Named /\ B!Name(p).area = bCall[p].area /\ B!Name(p).policy = bCall[p].policy
      /\ B!Name(p).paths = bCall[p].paths /\ B!Name(p).of = B!Fingerprint(p)
    <2>1. B!Fingerprint(p) \in (1..MaxVersion) \cup {None}
        <3>1. bCall[p].seen \in 1..MaxVersion /\ bData \in 1..MaxVersion
            BY <1>3, <1>4
        <3> QED BY <3>1 DEF B!Fingerprint
    <2> QED BY <1>4, <2>1 DEF B!Name, B!Named
<1>6. /\ c \in B!Call /\ c.name = B!Name(p) /\ c.given = bCall[p].given /\ c.paths = bCall[p].paths
      /\ c.seen = bCall[p].seen /\ c.quiet = bCall[p].quiet /\ c.keeps = bCall[p].keeps
      /\ c.area = bCall[p].area /\ c.policy = bCall[p].policy
    BY <1>2, <1>5 DEF B!Call
<1> HIDE DEF c
<1>7. B!CallStarted(p)'
    BY <1>1, <1>2, <1>3, <1>6 DEF B!CallStarted, B!Given
<1>8. B!CallIsNamed(p)'
    <2>1. B!Named' = B!Named
        BY <1>1 DEF B!Named, B!PathLists, B!Given, B!Areas, B!PolicyOrNone
    <2>2. /\ bKind \in B!Stamped => B!Fingerprint(p) = bData
          /\ B!InMemory => B!Fingerprint(p) = bCall[p].seen
        BY DEF B!Fingerprint, B!Stamped, B!InMemory
    <2>3. bData \in bCall[p].seen..bData
        BY <1>3, <1>4
    <2> DEFINE n == B!Name(p)
    <2>4. /\ n \in B!Named /\ n.area = c.area /\ n.policy = c.policy /\ n.paths = c.paths
          /\ bKind \in B!Stamped => n.of \in c.seen..bData
          /\ B!InMemory => n.of = c.seen
        BY <1>5, <1>6, <2>2, <2>3
    <2> HIDE DEF n
    <2>5. c.name = n
        BY <1>6 DEF n
    <2> QED BY KindStays, <1>1, <1>2, <2>1, <2>4, <2>5 DEF B!CallIsNamed
<1>9. B!CallIsSound(p)'
    BY <1>2, <1>7, <1>8 DEF B!CallIsSound, B!CallReads, B!CallReturns
<1> QED BY <1>1, <1>2, <1>6, <1>9, OneOwnStep DEF B!IInv, B!TypeOK

\* What is served of the name a call computed is of its plan, and fresh.
LEMMA OwnLookStep ==
    ASSUME B!BYOCacheAssumption, B!IInv, NEW p \in Proc, B!Look(p)
    PROVE  B!IInv'
<1>1. bPc[p] = "look" /\ UNCHANGED <<bKind, bData, bOutputs>>
    BY DEF B!Look
<1>2. /\ bCall[p] \in B!Call /\ B!CallStarted(p) /\ B!CallIsNamed(p)
      /\ bData \in 1..MaxVersion /\ MaxVersion \in Nat
    BY DEF B!IInv, B!TypeOK, B!CallIsSound, B!BYOCacheAssumption
<1>3. bCall[p].keeps /\ bCall[p].seen \in 1..bData /\ (bCall[p].quiet => bCall[p].seen = bData)
    BY <1>1, <1>2 DEF B!CallStarted
<1>4. CASE B!Served(p) = {}
    <2>1. bPc' = [bPc EXCEPT ![p] = "open"] /\ bCall' = bCall
        BY <1>4 DEF B!Look, B!Goto
    <2>2. bPc'[p] = "open" /\ bCall' = [bCall EXCEPT ![p] = bCall[p]]
        BY <2>1 DEF B!IInv, B!TypeOK
    <2>3. B!Named' = B!Named /\ B!Given' = B!Given
        BY <1>1 DEF B!Named, B!PathLists, B!Given, B!Areas, B!PolicyOrNone
    <2>4. B!CallStarted(p)'
        BY <1>1, <1>2, <2>1, <2>2, <2>3 DEF B!CallStarted
    <2>5. B!CallIsNamed(p)'
        BY KindStays, <1>1, <1>2, <2>1, <2>2, <2>3 DEF B!CallIsNamed
    <2>6. B!CallIsSound(p)'
        BY <2>2, <2>4, <2>5 DEF B!CallIsSound, B!CallReads, B!CallReturns
    <2> QED BY <1>1, <1>2, <2>1, <2>2, <2>6, OneOwnStep DEF B!IInv, B!TypeOK
<1>5. CASE B!Served(p) # {}
    <2>1. PICK o \in B!Served(p) :
            bCall' = [bCall EXCEPT ![p].result = o.content] /\ bPc' = [bPc EXCEPT ![p] = "done"]
        BY <1>5 DEF B!Look, B!Goto
    <2> DEFINE c == [bCall[p] EXCEPT !.result = o.content]
    <2>2. /\ o \in [name : B!Named, content : B!Contents] /\ B!OutputIsOfItsName(o)
          /\ o.name = bCall[p].name /\ bCall[p].mode # "refresh"
        BY DEF B!Served, B!IInv, B!TypeOK
    <2>3. o.content \in B!Contents
        BY <2>2
    <2>4. bPc'[p] = "done" /\ bCall' = [bCall EXCEPT ![p] = c] /\ bCall'[p] = c
        BY <2>1 DEF B!IInv, B!TypeOK
    <2>5. /\ c \in B!Call /\ c.result = o.content /\ c.given = bCall[p].given
          /\ c.paths = bCall[p].paths /\ c.seen = bCall[p].seen /\ c.quiet = bCall[p].quiet
          /\ c.keeps = bCall[p].keeps /\ c.area = bCall[p].area /\ c.policy = bCall[p].policy
          /\ c.name = bCall[p].name /\ c.mode = bCall[p].mode
        BY <1>2, <2>3 DEF B!Call
    <2> HIDE DEF c
    <2>6. B!Named' = B!Named /\ B!Given' = B!Given /\ B!Contents' = B!Contents
        BY <1>1 DEF B!Named, B!Contents, B!PathLists, B!Given, B!Areas, B!PolicyOrNone
    <2>7. B!CallStarted(p)'
        BY <1>1, <1>2, <2>4, <2>5, <2>6 DEF B!CallStarted
    <2>8. B!CallIsNamed(p)'
        BY KindStays, <1>1, <1>2, <1>3, <2>4, <2>5, <2>6 DEF B!CallIsNamed
    <2> DEFINE r == o.content
    <2>9. /\ r.area = bCall[p].area /\ r.policy = bCall[p].policy /\ r.paths = bCall[p].paths
          /\ r.second <= bData /\ r.first <= r.second
          /\ bKind \in B!Stamped => bCall[p].name.of \in Nat /\ bCall[p].name.of <= r.first
          /\ B!InMemory => r.first = bCall[p].name.of /\ r.second = bCall[p].name.of
        BY <1>1, <1>2, <1>3, <2>2 DEF B!CallIsNamed, B!OutputIsOfItsName, B!NameIsNotOlder
    <2>10. /\ bKind \in B!Stamped => bCall[p].seen <= bCall[p].name.of
           /\ B!InMemory => bCall[p].name.of = bCall[p].seen
        BY <1>1, <1>2, <1>3 DEF B!CallIsNamed
    <2>11. r.first \in Nat /\ r.second \in Nat /\ bCall[p].seen \in Nat /\ bData \in Nat
        BY <1>2, <1>3, <2>3 DEF B!Contents
    <2> HIDE DEF r
    <2>12. (bKind \in B!Stamped \/ B!InMemory) =>
                /\ r.first >= bCall[p].seen /\ r.second >= r.first
                /\ bCall[p].quiet \/ B!InMemory => r.first = bCall[p].seen /\ r.second = bCall[p].seen
        BY <1>3, <2>9, <2>10, <2>11
    <2>13. B!ResultIsFresh(p)'
        <3>1. bCall'[p].mode # "refresh" /\ bCall'[p].keeps
            BY <1>3, <2>2, <2>4, <2>5
        <3>2. /\ bCall'[p].result = r /\ bCall'[p].seen = bCall[p].seen
              /\ bCall'[p].quiet = bCall[p].quiet
            BY <2>4, <2>5 DEF r
        <3> QED BY KindStays, <1>1, <2>12, <3>1, <3>2 DEF B!ResultIsFresh
    <2>14. B!CallReturns(p)'
        BY <1>1, <2>3, <2>4, <2>5, <2>6, <2>9, <2>13 DEF B!CallReturns, r
    <2>15. B!CallIsSound(p)'
        BY <2>4, <2>7, <2>8, <2>14 DEF B!CallIsSound, B!CallReads
    <2> QED BY <1>1, <2>1, <2>4, <2>5, <2>15, OneOwnStep DEF B!IInv, B!TypeOK
<1> QED BY <1>4, <1>5

LEMMA OwnOpenStep ==
    ASSUME B!BYOCacheAssumption, B!IInv, NEW p \in Proc, B!Open(p)
    PROVE  B!IInv'
<1>1. bPc[p] = "open" /\ UNCHANGED <<bKind, bData, bOutputs>>
    BY DEF B!Open
<1>2. CASE B!Raise(p)
    BY <1>1, <1>2, OwnEndStep DEF B!Raise, B!Goto
<1>3. CASE ~B!Raise(p)
    <2> DEFINE c == [bCall[p] EXCEPT !.first = B!Held(p)]
    <2>1. bCall' = [bCall EXCEPT ![p].first = B!Held(p)] /\ bPc' = [bPc EXCEPT ![p] = "read"]
        BY <1>3 DEF B!Open, B!Goto
    <2>2. /\ bCall[p] \in B!Call /\ B!CallStarted(p) /\ B!CallIsNamed(p)
          /\ bData \in 1..MaxVersion /\ MaxVersion \in Nat
        BY DEF B!IInv, B!TypeOK, B!CallIsSound, B!BYOCacheAssumption
    <2>3. bCall[p].seen \in 1..bData
        BY <1>1, <2>2 DEF B!CallStarted
    <2>4. /\ B!Held(p) \in 0..MaxVersion /\ B!Held(p) \in bCall[p].seen..bData
          /\ B!InMemory => B!Held(p) = bCall[p].seen
          /\ bKind \in B!Stamped => B!Held(p) = bData
        <3>1. B!Held(p) = bCall[p].seen \/ B!Held(p) = bData
            BY DEF B!Held
        <3>2. B!Held(p) \in 0..MaxVersion /\ B!Held(p) \in bCall[p].seen..bData
            BY <2>2, <2>3, <3>1
        <3>3. /\ B!InMemory => B!Held(p) = bCall[p].seen
              /\ bKind \in B!Stamped => B!Held(p) = bData
            BY DEF B!Held, B!InMemory, B!Stamped
        <3> QED BY <3>2, <3>3
    <2>5. bCall' = [bCall EXCEPT ![p] = c] /\ bPc'[p] = "read" /\ bCall'[p] = c
        BY <2>1 DEF B!IInv, B!TypeOK
    <2>6. /\ c \in B!Call /\ c.first = B!Held(p) /\ c.given = bCall[p].given
          /\ c.paths = bCall[p].paths /\ c.seen = bCall[p].seen /\ c.quiet = bCall[p].quiet
          /\ c.keeps = bCall[p].keeps /\ c.area = bCall[p].area /\ c.policy = bCall[p].policy
          /\ c.name = bCall[p].name
        BY <2>2, <2>4 DEF B!Call
    <2> HIDE DEF c
    <2>7. B!Named' = B!Named /\ B!Given' = B!Given
        BY <1>1 DEF B!Named, B!PathLists, B!Given, B!Areas, B!PolicyOrNone
    <2>8. B!CallStarted(p)'
        BY <1>1, <2>2, <2>5, <2>6, <2>7 DEF B!CallStarted
    <2>9. B!CallIsNamed(p)'
        BY KindStays, <1>1, <2>2, <2>5, <2>6, <2>7 DEF B!CallIsNamed
    <2>10. B!CallReads(p)'
        <3>1. c.keeps /\ bKind \in B!Stamped => c.name.of <= c.first
            BY <1>1, <2>2, <2>3, <2>4, <2>6 DEF B!CallIsNamed
        <3> QED BY KindStays, <1>1, <2>4, <2>5, <2>6, <3>1 DEF B!CallReads
    <2>11. B!CallIsSound(p)'
        BY <2>5, <2>8, <2>9, <2>10 DEF B!CallIsSound, B!CallReturns
    <2> QED BY <1>1, <2>1, <2>5, <2>6, <2>11, OneOwnStep DEF B!IInv, B!TypeOK
<1> QED BY <1>2, <1>3

\* What is read is of the plan and fresh, and so is what is kept under the name.
LEMMA OwnPublishStep ==
    ASSUME B!BYOCacheAssumption, B!IInv, NEW p \in Proc, B!Publish(p)
    PROVE  B!IInv'
<1>1. bPc[p] = "read" /\ UNCHANGED <<bKind, bData>>
    BY DEF B!Publish
<1>2. CASE B!Raise(p) /\ UNCHANGED bOutputs
    BY <1>1, <1>2, OwnEndStep DEF B!Raise, B!Goto
<1>3. CASE ~(B!Raise(p) /\ UNCHANGED bOutputs)
    <2> DEFINE c == [bCall[p] EXCEPT !.result = B!Content(p)]
               r == B!Content(p)
               o == [name |-> bCall[p].name, content |-> r]
    <2>1. /\ bCall' = [bCall EXCEPT ![p].result = B!Content(p)] /\ bPc' = [bPc EXCEPT ![p] = "done"]
          /\ bOutputs' = IF ~bCall[p].keeps THEN bOutputs
                        ELSE {x \in bOutputs : x.name # bCall[p].name} \cup {o}
        BY <1>3 DEF B!Publish, B!Goto
    <2>2. /\ bCall[p] \in B!Call /\ B!CallStarted(p) /\ B!CallIsNamed(p) /\ B!CallReads(p)
          /\ bData \in 1..MaxVersion /\ MaxVersion \in Nat
        BY DEF B!IInv, B!TypeOK, B!CallIsSound, B!BYOCacheAssumption
    <2>3. /\ bCall[p].seen \in 1..bData /\ (bCall[p].quiet => bCall[p].seen = bData)
          /\ bCall[p].first \in bCall[p].seen..bData
          /\ B!InMemory => bCall[p].first = bCall[p].seen
        BY <1>1, <2>2 DEF B!CallStarted, B!CallReads
    <2>4. /\ B!Held(p) \in bCall[p].first..bData
          /\ B!InMemory => B!Held(p) = bCall[p].seen
          /\ ~B!InMemory => B!Held(p) = bData
        BY <2>2, <2>3 DEF B!Held
    <2>5. /\ r.first = bCall[p].first /\ r.second = B!Held(p) /\ r.area = bCall[p].area
          /\ r.policy = bCall[p].policy /\ r.paths = bCall[p].paths
        BY DEF B!Content
    <2>6. r \in B!Contents
        <3>1. bCall[p].first \in 1..MaxVersion /\ B!Held(p) \in 1..MaxVersion
            BY <2>2, <2>3, <2>4
        <3>2. /\ bCall[p].area \in B!Areas \cup {None} /\ bCall[p].policy \in B!PolicyOrNone
              /\ bCall[p].paths \in B!PathLists
            BY <2>2 DEF B!Call
        <3> QED BY <3>1, <3>2 DEF B!Content, B!Contents
    <2>7. bCall' = [bCall EXCEPT ![p] = c] /\ bPc'[p] = "done" /\ bCall'[p] = c
        BY <2>1 DEF B!IInv, B!TypeOK
    <2> HIDE DEF r
    <2>8. /\ c \in B!Call /\ c.result = r /\ c.given = bCall[p].given
          /\ c.paths = bCall[p].paths /\ c.seen = bCall[p].seen /\ c.quiet = bCall[p].quiet
          /\ c.keeps = bCall[p].keeps /\ c.area = bCall[p].area /\ c.policy = bCall[p].policy
          /\ c.name = bCall[p].name
        BY <2>2, <2>6 DEF B!Call, r
    <2> HIDE DEF c
    <2>9. B!Named' = B!Named /\ B!Given' = B!Given /\ B!Contents' = B!Contents
        BY <1>1 DEF B!Named, B!Contents, B!PathLists, B!Given, B!Areas, B!PolicyOrNone
    <2>10. B!CallStarted(p)'
        BY <1>1, <2>2, <2>7, <2>8, <2>9 DEF B!CallStarted
    <2>11. B!CallIsNamed(p)'
        BY KindStays, <1>1, <2>2, <2>7, <2>8, <2>9 DEF B!CallIsNamed
    <2>12. /\ r.first >= bCall[p].seen /\ r.second >= r.first /\ r.second <= bData
           /\ bCall[p].quiet \/ B!InMemory => r.first = bCall[p].seen /\ r.second = bCall[p].seen
        BY <2>2, <2>3, <2>4, <2>5
    <2>13. B!CallReturns(p)'
        <3>1. B!ResultIsFresh(p)'
            BY KindStays, <1>1, <2>7, <2>8, <2>12 DEF B!ResultIsFresh
        <3> QED BY <1>1, <2>5, <2>6, <2>7, <2>8, <2>9, <2>12, <3>1 DEF B!CallReturns
    <2>14. B!CallIsSound(p)'
        BY <2>7, <2>10, <2>11, <2>13 DEF B!CallIsSound, B!CallReads
    <2>15. ASSUME bCall[p].keeps
           PROVE  o \in [name : B!Named, content : B!Contents] /\ B!OutputIsOfItsName(o)
        <3>1. /\ bCall[p].name \in B!Named /\ bCall[p].name.area = bCall[p].area
              /\ bCall[p].name.policy = bCall[p].policy /\ bCall[p].name.paths = bCall[p].paths
              /\ bKind \in B!Stamped => bCall[p].name.of \in bCall[p].seen..bData
              /\ B!InMemory => bCall[p].name.of = bCall[p].seen
            BY <1>1, <2>2, <2>15 DEF B!CallIsNamed
        <3>2. bKind \in B!Stamped => bCall[p].name.of \in Nat /\ bCall[p].name.of <= r.first
            BY <1>1, <2>2, <2>3, <2>5, <2>15, <3>1 DEF B!CallReads
        <3>3. B!InMemory => r.first = bCall[p].name.of /\ r.second = bCall[p].name.of
            BY <2>12, <3>1
        <3>4. B!NameIsNotOlder(bCall[p].name, r.first, r.second)
            BY <3>2, <3>3 DEF B!NameIsNotOlder
        <3>5. o.name = bCall[p].name /\ o.content = r
            OBVIOUS
        <3>6. r.first <= r.second /\ r.second <= bData
            BY <2>2, <2>3, <2>4, <2>5
        <3>7. B!OutputIsOfItsName(o)
            BY <2>5, <3>1, <3>4, <3>5, <3>6 DEF B!OutputIsOfItsName
        <3> QED BY <2>6, <3>1, <3>7
    <2> HIDE DEF o
    <2>16. /\ bOutputs' \subseteq [name : B!Named, content : B!Contents]
           /\ \A x \in bOutputs' : B!OutputIsOfItsName(x)
        BY <2>1, <2>15 DEF B!IInv, B!TypeOK
    <2> QED BY <1>1, <2>1, <2>7, <2>8, <2>14, <2>16, OneOwnStep
<1> QED BY <1>2, <1>3

LEMMA OwnWait == B!IInv /\ UNCHANGED B!vars => B!IInv'
<1> SUFFICES ASSUME B!IInv, UNCHANGED B!vars PROVE B!IInv'
    OBVIOUS
<1>1. UNCHANGED <<bKind, bData, bOutputs, bPc, bCall>>
    BY DEF B!vars
<1>2. ASSUME NEW q \in Proc PROVE B!CallIsSound(q)'
    BY <1>1, OtherOwnStaySound
<1>3. \A o \in bOutputs' : B!OutputIsOfItsName(o)'
    BY KindStays, <1>1 DEF B!IInv, B!OutputIsOfItsName, B!NameIsNotOlder
<1>4. B!TypeOK'
    BY <1>1 DEF B!IInv, B!TypeOK, B!Call, B!Named, B!Contents, B!PathLists, B!PolicyOrNone, B!Policies, B!Given, B!Areas
<1> QED BY <1>2, <1>3, <1>4 DEF B!IInv

\* The invariant holds in every state, whatever the user changes meanwhile.
LEMMA OwnInvariance == B!Spec => []B!IInv
<1>0. B!BYOCacheAssumption
    BY Assumptions
<1>1. B!Init => B!IInv
    BY <1>0, OwnInit
<1>2. B!IInv /\ [B!Next]_(B!vars) => B!IInv'
    <2> SUFFICES ASSUME B!IInv, B!Next PROVE B!IInv'
        BY OwnWait
    <2>1. ASSUME NEW p \in Proc, B!Return(p) PROVE B!IInv'
        BY <1>0, <2>1, OwnEndStep DEF B!Return, B!Goto
    <2> QED BY <1>0, <2>1, OwnChangeStep, OwnStartStep, OwnIdentifyStep, OwnLookStep, OwnOpenStep,
            OwnPublishStep DEF B!Next
<1> QED BY <1>1, <1>2, PTL DEF B!Spec

LEMMA SoundIsOfItsPlan == B!IInv => B!OutputsAreOfTheirPlan
<1> SUFFICES ASSUME B!IInv, NEW p \in Proc, bPc[p] = "done"
             PROVE  B!ResultIsOfItsPlan(p) /\ B!ResultIsFresh(p)
    BY DEF B!OutputsAreOfTheirPlan
<1>1. B!CallStarted(p) /\ B!CallReturns(p)
    BY DEF B!IInv, B!CallIsSound
<1> QED BY <1>1, PathsKeepPeriods DEF B!CallStarted, B!CallReturns, B!ResultIsOfItsPlan

-----------------------------------------------------------------------------
(***************************************************************************)
(* Crops: a damaged file needs two calls at one raster, checksums are of   *)
(* files of the plan, and what a call alone is done with stays.            *)
(***************************************************************************)

\* Checksums with one more, or without those of a source.
LEMMA SumsWithOneMore ==
    ASSUME NEW sums, J!IsSums(sums), NEW u \in J!CropUnit, NEW content \in J!Content
    PROVE  LET s == [v \in DOMAIN sums \cup {u} |-> IF v = u THEN content ELSE sums[v]] IN
           /\ J!IsSums(s) /\ DOMAIN s = DOMAIN sums \cup {u} /\ s[u] = content
           /\ \A v \in DOMAIN sums \ {u} : s[v] = sums[v]
BY DEF J!IsSums

LEMMA SumsWithFewer ==
    ASSUME NEW sums, J!IsSums(sums), NEW units, units \subseteq DOMAIN sums
    PROVE  LET s == [v \in units |-> sums[v]] IN
           J!IsSums(s) /\ DOMAIN s = units /\ \A v \in units : s[v] = sums[v]
BY DEF J!IsSums

\* Checksums are never what stands for no record.
LEMMA SumsAreThere == ASSUME J!CropAssumption, NEW sums, J!IsSums(sums) PROVE sums # None
<1>1. DOMAIN sums \in SUBSET J!CropUnit /\ sums \in [DOMAIN sums -> J!Content]
    BY DEF J!IsSums
<1> QED BY <1>1 DEF J!CropAssumption

LEMMA NothingIsSums == J!IsSums(J!Nothing) /\ DOMAIN J!Nothing = {}
BY DEF J!IsSums, J!Nothing

LEMMA NoCropCall ==
    ASSUME J!CropAssumption
    PROVE  /\ J!NoCall \in J!Call(J!NoCall.sums) /\ J!NoCall.sums = J!Nothing /\ J!IsSums(J!NoCall.sums)
           /\ J!NoCall.todo = {} /\ J!NoCall.made = FALSE
<1>1. (CHOOSE plan \in J!Plan : TRUE) \in J!Plan
    BY DEF J!CropAssumption
<1> QED BY <1>1, NothingIsSums DEF J!NoCall, J!Call, J!Mode

LEMMA CropsInit == J!CropAssumption /\ J!Init => J!IInv
<1> SUFFICES ASSUME J!CropAssumption, J!Init PROVE J!IInv
    OBVIOUS
<1>1. jCall = [p \in Proc |-> jCall[p]] /\ \A p \in Proc : jCall[p] = J!NoCall /\ jPc[p] = "idle"
    BY DEF J!Init
<1>2. J!TypeOK
    <2>1. jRecord = [plan \in J!Plan |-> jRecord[plan]] /\ jOutput = [plan \in J!Plan |-> jOutput[plan]]
        BY DEF J!Init
    <2>2. \A plan \in J!Plan : jRecord[plan] = None
        BY DEF J!Init
    <2>3. jFile \in [J!CropUnit -> J!Content] /\ jStaging \in [J!CropUnit -> J!Content]
        BY DEF J!Init, J!Content
    <2>4. jPc \in [Proc -> {"idle", "output", "look", "files", "writing", "written", "installed",
                           "prepared", "done"}]
        BY DEF J!Init
    <2>5. jRequests \in Sharing /\ jRevision \in Nat /\ jRaced \in BOOLEAN
        BY DEF J!Init
    <2> QED BY <1>1, <2>1, <2>2, <2>3, <2>4, <2>5, NoCropCall DEF J!TypeOK
<1>3. J!CropsAreApart
    BY <1>1 DEF J!CropsAreApart, J!Cropping
<1>4. \A plan \in J!Plan : J!RecordIsSound(plan)
    BY DEF J!Init, J!RecordIsSound
<1>5. ASSUME NEW p \in Proc
      PROVE  /\ J!CropIsWhole(p) /\ J!CallIsSound(p) /\ J!AloneIsUndisturbed(p)
             /\ J!LooksFirst(p) /\ J!MadeAtTheEnd(p)
    BY <1>1, NoCropCall
       DEF J!CropIsWhole, J!CallIsSound, J!Prepares, J!AloneIsUndisturbed, J!LooksFirst, J!MadeAtTheEnd
<1> QED BY <1>2, <1>3, <1>4, <1>5 DEF J!IInv

-----------------------------------------------------------------------------
\* A step of one call that is under way, or that touches nothing shared and ends,
\* leaves what is said of another one alone.
LEMMA OtherCropsStaySound ==
    ASSUME J!IInv, NEW p \in Proc, NEW q \in Proc, q # p, jPc'[q] = jPc[q],
           jCall'[q].plan = jCall[q].plan, jCall'[q].op = jCall[q].op, jCall'[q].todo = jCall[q].todo,
           jCall'[q].sums = jCall[q].sums, jCall'[q].made = jCall[q].made,
           jCall'[q].alone => jCall[q].alone, jCall'[q].mode = jCall[q].mode,
           jCall'[q].told = jCall[q].told,
           jRaced => jRaced',
           \A r \in Proc \ {p} : jPc'[r] = jPc[r],
           \/ J!Running(p)
           \/ UNCHANGED <<jFile, jRecord, jOutput>> /\ ~J!Running(p)'
           \/ ~jCall'[q].alone
    PROVE  J!CallIsSound(q)' /\ J!AloneIsUndisturbed(q)' /\ J!LooksFirst(q)' /\ J!MadeAtTheEnd(q)'
<1>1. J!CallIsSound(q) /\ J!AloneIsUndisturbed(q) /\ J!LooksFirst(q) /\ J!MadeAtTheEnd(q)
    BY DEF J!IInv
<1>2. J!CallIsSound(q)'
    BY <1>1 DEF J!CallIsSound, J!Prepares, J!AreSound, J!Covers, J!PlanOf
<1>3. J!AloneIsUndisturbed(q)'
    <2>1. CASE J!Running(p)
        BY <1>1, <2>1 DEF J!AloneIsUndisturbed
    <2>2. CASE UNCHANGED <<jFile, jRecord, jOutput>> /\ ~J!Running(p)'
        BY <1>1, <2>2 DEF J!AloneIsUndisturbed, J!Prepares, J!Running
    <2>3. CASE ~jCall'[q].alone
        BY <2>3 DEF J!AloneIsUndisturbed
    <2> QED BY <2>1, <2>2, <2>3
<1>4. J!LooksFirst(q)' /\ J!MadeAtTheEnd(q)'
    BY <1>1 DEF J!LooksFirst, J!MadeAtTheEnd
<1> QED BY <1>2, <1>3, <1>4

Labels == {"idle", "output", "look", "files", "writing", "written", "installed", "prepared", "done"}

\* A step that changes one call and no crop.
LEMMA QuietCropStep ==
    ASSUME J!IInv, NEW p \in Proc, NEW l \in Labels, NEW c,
           c \in J!Call(c.sums), J!IsSums(c.sums),
           jPc' = [jPc EXCEPT ![p] = l], jCall' = [jCall EXCEPT ![p] = c],
           l \notin {"writing", "written", "installed"},
           UNCHANGED <<jRequests, jRevision, jFile, jStaging, jRaced>>,
           \/ J!Running(p)
           \/ UNCHANGED <<jRecord, jOutput>> /\ l = "idle",
           jRecord' = [plan \in J!Plan |-> jRecord'[plan]],
           jOutput' = [plan \in J!Plan |-> jOutput'[plan]],
           \A plan \in J!Plan : /\ jRecord'[plan] # None => J!IsSums(jRecord'[plan])
                             /\ J!RecordIsSound(plan)',
           J!CallIsSound(p)', J!AloneIsUndisturbed(p)', J!LooksFirst(p)', J!MadeAtTheEnd(p)'
    PROVE  J!IInv'
<1>1. /\ jCall = [q \in Proc |-> jCall[q]] /\ jPc \in [Proc -> Labels]
      /\ \A q \in Proc : jCall[q] \in J!Call(jCall[q].sums) /\ J!IsSums(jCall[q].sums)
    BY DEF J!IInv, J!TypeOK, Labels
<1>2. /\ jPc'[p] = l /\ jCall'[p] = c
      /\ \A q \in Proc : q # p => jPc'[q] = jPc[q] /\ jCall'[q] = jCall[q]
      /\ jPc' \in [Proc -> Labels] /\ jCall' = [q \in Proc |-> jCall'[q]]
    BY <1>1
<1>3. J!TypeOK'
    BY <1>1, <1>2 DEF J!IInv, J!TypeOK, Labels
<1>4. J!CropsAreApart'
    BY <1>2 DEF J!IInv, J!CropsAreApart, J!Cropping
<1>5. ASSUME NEW q \in Proc PROVE J!CropIsWhole(q)'
    BY <1>2, <1>5 DEF J!IInv, J!CropIsWhole
<1>6. ASSUME NEW q \in Proc
      PROVE  J!CallIsSound(q)' /\ J!AloneIsUndisturbed(q)' /\ J!LooksFirst(q)' /\ J!MadeAtTheEnd(q)'
    <2>1. CASE q = p
        BY <2>1
    <2>2. CASE q # p
        <3>1. jPc'[q] = jPc[q] /\ jCall'[q] = jCall[q] /\ \A r \in Proc \ {p} : jPc'[r] = jPc[r]
            BY <1>2, <2>2
        <3>2. J!Running(p) \/ (UNCHANGED <<jFile, jRecord, jOutput>> /\ ~J!Running(p)')
            BY <1>2 DEF J!Running
        <3> QED BY <2>2, <3>1, <3>2, OtherCropsStaySound
    <2> QED BY <2>1, <2>2
<1> QED BY <1>3, <1>4, <1>5, <1>6 DEF J!IInv

\* A call that is over or fails; a staging name may go with it.
LEMMA CropEnds ==
    ASSUME J!CropAssumption, J!IInv, NEW p \in Proc, J!Raise(p),
           UNCHANGED <<jRequests, jRevision, jFile, jRecord, jOutput, jRaced>>,
           jStaging' \in [J!CropUnit -> J!Content],
           \A u \in J!CropUnit : jStaging'[u] \in {jStaging[u], None}
    PROVE  J!IInv'
<1>1. /\ jCall = [q \in Proc |-> jCall[q]] /\ jPc \in [Proc -> Labels]
      /\ \A q \in Proc : jCall[q] \in J!Call(jCall[q].sums) /\ J!IsSums(jCall[q].sums)
    BY DEF J!IInv, J!TypeOK, Labels
<1>2. /\ jPc'[p] = "idle" /\ jCall'[p] = J!NoCall
      /\ \A q \in Proc : q # p => jPc'[q] = jPc[q] /\ jCall'[q] = jCall[q]
      /\ jPc' \in [Proc -> Labels] /\ jCall' = [q \in Proc |-> jCall'[q]]
    BY <1>1 DEF J!Raise, J!Goto, Labels
<1>3. J!TypeOK'
    BY <1>1, <1>2, NoCropCall DEF J!IInv, J!TypeOK, Labels
<1>4. J!CropsAreApart'
    BY <1>2 DEF J!IInv, J!CropsAreApart, J!Cropping
<1>5. ASSUME NEW q \in Proc PROVE J!CropIsWhole(q)'
    <2>1. CASE q = p
        BY <1>2, <2>1 DEF J!CropIsWhole
    <2>2. CASE q # p
        <3>1. jCall[q].unit \in jCall[q].todo => jCall[q].unit \in J!CropUnit
            BY <1>1 DEF J!Call
        <3>2. J!CropIsWhole(q) /\ None # Torn
            BY DEF J!IInv, J!CropAssumption
        <3> QED BY <1>2, <2>2, <3>1, <3>2 DEF J!CropIsWhole
    <2> QED BY <2>1, <2>2
<1>6. ASSUME NEW q \in Proc
      PROVE  J!CallIsSound(q)' /\ J!AloneIsUndisturbed(q)' /\ J!LooksFirst(q)' /\ J!MadeAtTheEnd(q)'
    <2>1. CASE q = p
        BY <1>2, <2>1, NoCropCall
           DEF J!CallIsSound, J!Prepares, J!AloneIsUndisturbed, J!LooksFirst, J!MadeAtTheEnd
    <2>2. CASE q # p
        <3>1. jPc'[q] = jPc[q] /\ jCall'[q] = jCall[q] /\ \A r \in Proc \ {p} : jPc'[r] = jPc[r]
            BY <1>2, <2>2
        <3>2. UNCHANGED <<jFile, jRecord, jOutput>> /\ ~J!Running(p)'
            BY <1>2 DEF J!Running
        <3> QED BY <2>2, <3>1, <3>2, OtherCropsStaySound
    <2> QED BY <2>1, <2>2
<1>7. \A plan \in J!Plan : J!RecordIsSound(plan)'
    BY DEF J!IInv, J!RecordIsSound, J!AreSound
<1> QED BY <1>3, <1>4, <1>5, <1>6, <1>7 DEF J!IInv

\* Nothing but the call ends.
LEMMA CropRaises ==
    ASSUME J!CropAssumption, J!IInv, NEW p \in Proc, J!Raise(p),
           UNCHANGED <<jRequests, jRevision, jFile, jStaging, jRecord, jOutput, jRaced>>
    PROVE  J!IInv'
<1>1. jStaging' \in [J!CropUnit -> J!Content] /\ \A u \in J!CropUnit : jStaging'[u] \in {jStaging[u], None}
    BY DEF J!IInv, J!TypeOK
<1> QED BY <1>1, CropEnds

\* Some step leaves the records as they are.
LEMMA RecordsStay ==
    ASSUME J!IInv, UNCHANGED <<jRecord, jRaced>>
    PROVE  /\ jRecord' = [plan \in J!Plan |-> jRecord'[plan]]
           /\ \A plan \in J!Plan : /\ jRecord'[plan] # None => J!IsSums(jRecord'[plan])
                                /\ J!RecordIsSound(plan)'
BY DEF J!IInv, J!TypeOK, J!RecordIsSound, J!AreSound

LEMMA CropServedStep ==
    ASSUME J!CropAssumption, J!IInv, NEW p \in Proc, J!Served(p)
    PROVE  J!IInv'
<1> DEFINE l == IF jCall[p].op = "ensure" /\ jOutput[J!PlanOf(p)] # None /\ jCall[p].mode # "refresh"
                THEN "done" ELSE "look"
<1>1. /\ jPc[p] = "output" /\ jPc' = [jPc EXCEPT ![p] = l]
      /\ UNCHANGED <<jRequests, jRevision, jFile, jStaging, jRecord, jOutput, jRaced, jCall>>
    BY DEF J!Served, J!Goto, J!disk
<1>2. /\ jCall[p] \in J!Call(jCall[p].sums) /\ J!IsSums(jCall[p].sums)
      /\ jPc \in [Proc -> Labels] /\ jCall' = [jCall EXCEPT ![p] = jCall[p]]
      /\ jOutput' = [plan \in J!Plan |-> jOutput'[plan]]
    BY <1>1 DEF J!IInv, J!TypeOK, Labels
<1>3. jPc'[p] = l /\ l \in {"done", "look"} /\ (l = "done" => jCall[p].op = "ensure")
    BY <1>1, <1>2
<1>4. jCall[p].made = FALSE /\ jCall[p].todo = {}
    BY <1>1, <1>2 DEF J!IInv, J!MadeAtTheEnd, J!LooksFirst, J!Call
<1>5. J!CallIsSound(p)' /\ J!LooksFirst(p)' /\ J!MadeAtTheEnd(p)'
    BY <1>1, <1>3, <1>4 DEF J!CallIsSound, J!Prepares, J!LooksFirst, J!MadeAtTheEnd
<1>6. J!AloneIsUndisturbed(p)'
    <2>1. J!AloneIsUndisturbed(p)
        BY DEF J!IInv
    <2>2. \A q \in Proc \ {p} : jPc'[q] = jPc[q]
        BY <1>1, <1>2
    <2>3. ~J!Prepares(p)'
        BY <1>1, <1>3, <1>4 DEF J!Prepares
    <2> QED BY <1>1, <1>3, <2>1, <2>2, <2>3 DEF J!AloneIsUndisturbed, J!Running
<1>7. J!Running(p) /\ l \in Labels
    BY <1>1, <1>3 DEF J!Running, Labels
<1> HIDE DEF l
<1> QED BY <1>1, <1>2, <1>3, <1>5, <1>6, <1>7, RecordsStay, QuietCropStep

LEMMA CropLookOfflineStep ==
    ASSUME J!CropAssumption, J!IInv, NEW p \in Proc, J!LookOffline(p)
    PROVE  J!IInv'
<1> DEFINE m == jRecord[J!PlanOf(p)]
           c == [jCall[p] EXCEPT !.sums = m]
<1>1. /\ jPc[p] = "look" /\ jCall[p].mode = "offline"
      /\ UNCHANGED <<jRequests, jRevision, jFile, jStaging, jRecord, jOutput, jRaced>>
    BY DEF J!LookOffline, J!disk
<1>2. CASE J!Raise(p)
    BY <1>1, <1>2, CropRaises
<1>3. CASE ~J!Raise(p)
    <2>1. /\ J!Vouched(m) /\ jCall' = [jCall EXCEPT ![p].sums = m]
          /\ jPc' = [jPc EXCEPT ![p] = "prepared"]
        BY <1>3 DEF J!LookOffline, J!Goto
    <2>2. /\ jCall[p] \in J!Call(jCall[p].sums) /\ jPc \in [Proc -> Labels]
          /\ jCall = [q \in Proc |-> jCall[q]] /\ J!PlanOf(p) \in J!Plan
        BY DEF J!IInv, J!TypeOK, Labels, J!Call, J!PlanOf
    <2>3. m # None /\ (\A u \in DOMAIN m : jFile[u] = m[u]) /\ J!IsSums(m) /\ J!RecordIsSound(J!PlanOf(p))
        BY <2>1, <2>2 DEF J!Vouched, J!IInv, J!TypeOK
    <2> HIDE DEF m
    <2>4. /\ c \in J!Call(m) /\ c.sums = m /\ c.todo = jCall[p].todo /\ c.plan = jCall[p].plan
          /\ c.alone = jCall[p].alone /\ c.mode = jCall[p].mode /\ c.told = jCall[p].told
          /\ c.made = jCall[p].made
        BY <2>2 DEF J!Call
    <2>5. /\ jPc'[p] = "prepared" /\ jCall' = [jCall EXCEPT ![p] = c] /\ jCall'[p] = c
          /\ \A q \in Proc \ {p} : jPc'[q] = jPc[q]
        BY <2>1, <2>2
    <2>6. c.todo = {} /\ c.made = FALSE
        BY <1>1, <2>2, <2>4 DEF J!IInv, J!LooksFirst, J!MadeAtTheEnd, J!Call
    <2> HIDE DEF c
    <2>7. J!CallIsSound(p)' /\ J!LooksFirst(p)' /\ J!MadeAtTheEnd(p)'
        <3>1. J!AreSound(m) /\ J!Covers(J!PlanOf(p), DOMAIN m)
            BY <2>3 DEF J!RecordIsSound, m
        <3>2. J!CallIsSound(p)'
            BY <1>1, <2>4, <2>5, <2>6, <3>1 DEF J!CallIsSound, J!Covers, J!AreSound, J!PlanOf
        <3> QED BY <2>5, <2>6, <3>2 DEF J!LooksFirst, J!MadeAtTheEnd
    <2>8. J!AloneIsUndisturbed(p)'
        <3>1. J!AloneIsUndisturbed(p)
            BY DEF J!IInv
        <3> QED BY <1>1, <2>3, <2>4, <2>5, <2>6, <3>1 DEF J!AloneIsUndisturbed, J!Running, J!Prepares, m, J!PlanOf
    <2>9. J!Running(p) /\ jOutput' = [plan \in J!Plan |-> jOutput'[plan]]
        BY <1>1 DEF J!Running, J!IInv, J!TypeOK
    <2> QED BY <1>1, <2>1, <2>3, <2>4, <2>5, <2>7, <2>8, <2>9, RecordsStay, QuietCropStep DEF Labels
<1> QED BY <1>2, <1>3

\* The sources of a plan and its parts make up what it asks for.
LEMMA UnitsCoverThePlan ==
    ASSUME J!CropAssumption, NEW plan \in J!Plan
    PROVE  LET units == J!Sources(plan) \X plan.parts IN
           units \subseteq J!CropUnit /\ J!Covers(plan, units)
<1>1. plan.parts # {} /\ plan.parts \subseteq J!Part /\ plan.sources \subseteq Years
    BY DEF J!CropAssumption, J!Part
<1>2. J!Sources(plan) \subseteq FloodTiles \cup Years /\ (plan.kind = "flood" => J!Sources(plan) = FloodTiles)
    BY <1>1 DEF J!Sources, J!CompleteYears
<1> DEFINE units == J!Sources(plan) \X plan.parts
<1>3. units \subseteq J!CropUnit
    BY <1>1, <1>2 DEF J!CropUnit
<1>4. \A u \in units, part \in plan.parts : <<u[1], part>> \in units
    OBVIOUS
<1>5. ASSUME plan.kind = "flood", NEW s \in FloodTiles \ FloodOutside PROVE \E u \in units : u[1] = s
    <2>1. PICK part \in plan.parts : TRUE
        BY <1>1
    <2>2. <<s, part>> \in units /\ <<s, part>>[1] = s
        BY <1>2, <1>5
    <2> QED BY <2>2
<1> QED BY <1>3, <1>4, <1>5 DEF J!Covers

LEMMA CropLookOnlineStep ==
    ASSUME J!CropAssumption, J!IInv, NEW p \in Proc, J!LookOnline(p)
    PROVE  J!IInv'
<1> DEFINE plan == J!PlanOf(p)
           e == J!Entries(p)
           c == [jCall[p] EXCEPT !.todo = e.units, !.sums = e.sums, !.listed = e.listed]
<1>1. /\ jPc[p] = "look"
      /\ UNCHANGED <<jRequests, jRevision, jFile, jStaging, jRecord, jOutput, jRaced>>
    BY DEF J!LookOnline, J!disk
<1>2. CASE J!Raise(p)
    BY <1>1, <1>2, CropRaises
<1>3. CASE ~J!Raise(p)
    <2>1. /\ jCall' = [jCall EXCEPT ![p].todo = e.units, ![p].sums = e.sums, ![p].listed = e.listed]
          /\ jPc' = [jPc EXCEPT ![p] = "files"]
        BY <1>3 DEF J!LookOnline, J!Goto
    <2>2. /\ jCall[p] \in J!Call(jCall[p].sums) /\ jPc \in [Proc -> Labels]
          /\ jCall = [q \in Proc |-> jCall[q]] /\ plan \in J!Plan /\ jCall[p].made = FALSE
        <3>1. jCall[p] \in J!Call(jCall[p].sums) /\ jCall[p].made \in BOOLEAN
            BY DEF J!IInv, J!TypeOK, J!Call
        <3> QED BY <1>1, <3>1 DEF J!IInv, J!TypeOK, Labels, J!Call, J!PlanOf, J!MadeAtTheEnd
    <2>3. /\ e.units \subseteq J!CropUnit /\ J!IsSums(e.sums) /\ e.listed \in BOOLEAN
          /\ J!AreSound(e.sums) /\ J!Covers(plan, DOMAIN e.sums \cup e.units)
          /\ DOMAIN e.sums \subseteq e.units
          /\ jCall[p].mode # "refresh" /\ jRecord[plan] # None =>
                DOMAIN e.sums = DOMAIN jRecord[plan] /\ e.units = DOMAIN jRecord[plan]
        <3>1. CASE jCall[p].mode # "refresh" /\ jRecord[plan] # None
            <4>1. e.units = DOMAIN jRecord[plan] /\ e.sums = jRecord[plan] /\ e.listed = FALSE
                BY <3>1 DEF J!Entries
            <4>2. J!IsSums(jRecord[plan]) /\ J!AreSound(jRecord[plan]) /\ J!Covers(plan, DOMAIN jRecord[plan])
                BY <2>2, <3>1 DEF J!IInv, J!TypeOK, J!RecordIsSound
            <4>3. DOMAIN e.sums \cup e.units = DOMAIN jRecord[plan]
                BY <4>1
            <4> HIDE DEF e, plan
            <4> QED BY <4>1, <4>2, <4>3 DEF J!IsSums
        <3>2. CASE ~(jCall[p].mode # "refresh" /\ jRecord[plan] # None)
            <4>1. /\ e.units = J!Sources(plan) \X plan.parts /\ e.sums = J!Nothing
                  /\ e.listed \in BOOLEAN
                BY <3>2 DEF J!Entries
            <4> HIDE DEF e, plan
            <4>2. DOMAIN e.sums \cup e.units = e.units /\ DOMAIN e.sums = {}
                BY <4>1, NothingIsSums
            <4> QED BY <2>2, <3>2, <4>1, <4>2, NothingIsSums, UnitsCoverThePlan DEF J!AreSound
        <3> QED BY <3>1, <3>2
    <2> HIDE DEF e
    <2>4. /\ c \in J!Call(e.sums) /\ c.sums = e.sums /\ c.todo = e.units /\ c.plan = jCall[p].plan
          /\ c.alone = jCall[p].alone /\ c.mode = jCall[p].mode /\ c.told = jCall[p].told
          /\ c.made = FALSE
        BY <2>2, <2>3 DEF J!Call
    <2>5. /\ jPc'[p] = "files" /\ jCall' = [jCall EXCEPT ![p] = c] /\ jCall'[p] = c
          /\ \A q \in Proc \ {p} : jPc'[q] = jPc[q]
        BY <2>1, <2>2
    <2> HIDE DEF c
    <2>6. J!CallIsSound(p)' /\ J!LooksFirst(p)' /\ J!MadeAtTheEnd(p)'
        <3>1. jCall'[p].plan = plan
            BY <2>4, <2>5 DEF J!PlanOf
        <3>2. J!CallIsSound(p)'
            BY <1>1, <2>3, <2>4, <2>5, <3>1 DEF J!CallIsSound, J!Covers, J!AreSound, J!PlanOf
        <3> QED BY <2>4, <2>5, <3>2 DEF J!LooksFirst, J!MadeAtTheEnd
    <2>7. J!AloneIsUndisturbed(p)'
        <3>1. J!AloneIsUndisturbed(p)
            BY DEF J!IInv
        <3> QED BY <1>1, <2>3, <2>4, <2>5, <3>1 DEF J!AloneIsUndisturbed, J!Running, J!Prepares, J!PlanOf
    <2>8. J!Running(p) /\ jOutput' = [pl \in J!Plan |-> jOutput'[pl]]
        BY <1>1 DEF J!Running, J!IInv, J!TypeOK
    <2> QED BY <1>1, <2>1, <2>3, <2>4, <2>5, <2>6, <2>7, <2>8, RecordsStay, QuietCropStep DEF Labels
<1> QED BY <1>2, <1>3

\* The checksum of a file that was put in place.
LEMMA CropChecksumStep ==
    ASSUME J!CropAssumption, J!IInv, NEW p \in Proc, J!Checksum(p)
    PROVE  J!IInv'
<1> DEFINE u == jCall[p].unit
           s == J!Sum(p, u, jFile[u])
           c == [jCall[p] EXCEPT !.todo = @ \ {u}, !.sums = s, !.unit = None]
<1>1. /\ jPc[p] = "installed" /\ jPc' = [jPc EXCEPT ![p] = "files"]
      /\ jCall' = [jCall EXCEPT ![p].todo = @ \ {u}, ![p].sums = J!Sum(p, u, jFile[u]), ![p].unit = None]
      /\ UNCHANGED <<jRequests, jRevision, jFile, jStaging, jRecord, jOutput, jRaced>>
    BY DEF J!Checksum, J!Goto, J!disk
<1>2. /\ jCall[p] \in J!Call(jCall[p].sums) /\ J!IsSums(jCall[p].sums) /\ jPc \in [Proc -> Labels]
      /\ jCall = [q \in Proc |-> jCall[q]] /\ jFile \in [J!CropUnit -> J!Content]
    BY DEF J!IInv, J!TypeOK, Labels
<1>3. /\ u \in jCall[p].todo /\ u \in J!CropUnit /\ u[1] \notin FloodOutside
      /\ jFile[u] # None /\ (jFile[u] = Torn => jRaced)
    BY <1>1, <1>2 DEF J!IInv, J!CropIsWhole, J!Call
<1>4. /\ J!IsSums(s) /\ DOMAIN s = DOMAIN jCall[p].sums \cup {u} /\ s[u] = jFile[u]
      /\ \A v \in DOMAIN jCall[p].sums \ {u} : s[v] = jCall[p].sums[v]
    <2>1. jFile[u] \in J!Content
        BY <1>2, <1>3
    <2> HIDE DEF u
    <2> QED BY <1>2, <1>3, <2>1 DEF J!Sum, J!IsSums
<1>5. jCall' = [jCall EXCEPT ![p] = c] /\ jCall'[p] = c /\ jPc'[p] = "files"
      /\ \A q \in Proc \ {p} : jPc'[q] = jPc[q]
    BY <1>1, <1>2
<1> HIDE DEF s
<1>6. /\ c \in J!Call(s) /\ c.sums = s /\ c.todo = jCall[p].todo \ {u} /\ c.plan = jCall[p].plan
      /\ c.alone = jCall[p].alone /\ c.mode = jCall[p].mode /\ c.told = jCall[p].told
      /\ c.made = jCall[p].made
    BY <1>2 DEF J!Call
<1> HIDE DEF c
<1> DEFINE t == jCall[p].sums  todo == jCall[p].todo
<1>7. J!AreSound(t) /\ J!Covers(J!PlanOf(p), DOMAIN t \cup todo)
    BY <1>1 DEF J!IInv, J!CallIsSound, J!Prepares
<1>8. DOMAIN s \cup (todo \ {u}) = DOMAIN t \cup todo
    BY <1>3, <1>4
<1>9. J!CallIsSound(p)'
    <2>1. \A v \in DOMAIN s : v[1] \notin FloodOutside /\ s[v] # None /\ (s[v] = Torn => jRaced')
        BY <1>1, <1>3, <1>4, <1>7 DEF J!AreSound
    <2>2. J!Covers(J!PlanOf(p), DOMAIN s \cup (todo \ {u}))
        BY <1>7, <1>8
    <2> QED BY <1>5, <1>6, <2>1, <2>2 DEF J!CallIsSound, J!AreSound, J!Covers, J!PlanOf
<1>10. J!LooksFirst(p)' /\ J!MadeAtTheEnd(p)'
    <2>1. jCall[p].made = FALSE
        BY <1>1, <1>2 DEF J!IInv, J!MadeAtTheEnd, J!Call
    <2> QED BY <1>5, <1>6, <2>1 DEF J!LooksFirst, J!MadeAtTheEnd
<1>11. J!AloneIsUndisturbed(p)'
    <2>1. J!AloneIsUndisturbed(p) /\ jCall[p].made = FALSE
        BY <1>1, <1>2 DEF J!IInv, J!MadeAtTheEnd, J!Call
    <2>2. ASSUME jCall[p].alone
          PROVE  /\ \A q \in Proc \ {p} : ~J!Running(q)
                 /\ \A v \in DOMAIN s \ (todo \ {u}) : jFile[v] = s[v]
                 /\ jCall[p].mode # "refresh" /\ jCall[p].told # {} =>
                        DOMAIN s = jCall[p].told /\ todo \ {u} \subseteq jCall[p].told
        BY <1>1, <1>3, <1>4, <2>1, <2>2 DEF J!AloneIsUndisturbed, J!Prepares
    <2> QED BY <1>1, <1>5, <1>6, <2>1, <2>2 DEF J!AloneIsUndisturbed, J!Prepares, J!Running
<1>12. J!Running(p) /\ jOutput' = [pl \in J!Plan |-> jOutput'[pl]]
    BY <1>1 DEF J!Running, J!IInv, J!TypeOK
<1> QED BY <1>1, <1>4, <1>5, <1>6, <1>9, <1>10, <1>11, <1>12, RecordsStay, QuietCropStep DEF Labels

\* The record is of what the call has prepared.
LEMMA CropWriteRecordStep ==
    ASSUME J!CropAssumption, J!IInv, NEW p \in Proc, J!WriteRecord(p)
    PROVE  J!IInv'
<1> DEFINE c == jCall[p]
<1>1. /\ jPc[p] = "files" /\ c.todo = {} /\ jPc' = [jPc EXCEPT ![p] = "prepared"]
      /\ jRecord' = [jRecord EXCEPT ![J!PlanOf(p)] = c.sums]
      /\ UNCHANGED <<jRequests, jRevision, jFile, jStaging, jOutput, jRaced, jCall>>
    BY DEF J!WriteRecord, J!Goto
<1>2. /\ c \in J!Call(c.sums) /\ J!IsSums(c.sums) /\ jPc \in [Proc -> Labels]
      /\ jCall' = [jCall EXCEPT ![p] = c] /\ J!PlanOf(p) \in J!Plan
      /\ jRecord = [plan \in J!Plan |-> jRecord[plan]] /\ jOutput' = [plan \in J!Plan |-> jOutput'[plan]]
    BY <1>1 DEF J!IInv, J!TypeOK, Labels, J!PlanOf, J!Call
<1>3. /\ jRecord' = [plan \in J!Plan |-> jRecord'[plan]] /\ jRecord'[J!PlanOf(p)] = c.sums
      /\ \A plan \in J!Plan \ {J!PlanOf(p)} : jRecord'[plan] = jRecord[plan]
      /\ jPc'[p] = "prepared" /\ \A q \in Proc \ {p} : jPc'[q] = jPc[q]
    BY <1>1, <1>2
<1>4. J!AreSound(c.sums) /\ J!Covers(J!PlanOf(p), DOMAIN c.sums) /\ c.made = FALSE
    <2>1. DOMAIN c.sums \cup c.todo = DOMAIN c.sums
        BY <1>1
    <2> QED BY <1>1, <1>2, <2>1 DEF J!IInv, J!CallIsSound, J!Prepares, J!MadeAtTheEnd, J!Call
<1>5. ASSUME NEW plan \in J!Plan
      PROVE  (jRecord'[plan] # None => J!IsSums(jRecord'[plan])) /\ J!RecordIsSound(plan)'
    <2>1. CASE plan = J!PlanOf(p)
        BY <1>1, <1>2, <1>3, <1>4, <2>1 DEF J!RecordIsSound, J!AreSound, J!Covers
    <2>2. CASE plan # J!PlanOf(p)
        BY <1>1, <1>3, <2>2 DEF J!IInv, J!TypeOK, J!RecordIsSound, J!AreSound, J!Covers
    <2> QED BY <2>1, <2>2
<1>6. J!CallIsSound(p)' /\ J!LooksFirst(p)' /\ J!MadeAtTheEnd(p)'
    <2>1. J!CallIsSound(p)
        BY DEF J!IInv
    <2> QED BY <1>1, <1>3, <1>4, <2>1
            DEF J!CallIsSound, J!Prepares, J!AreSound, J!Covers, J!PlanOf, J!LooksFirst, J!MadeAtTheEnd
<1>7. J!AloneIsUndisturbed(p)'
    <2>1. J!AloneIsUndisturbed(p)
        BY DEF J!IInv
    <2> QED BY <1>1, <1>3, <1>4, <2>1 DEF J!AloneIsUndisturbed, J!Prepares, J!Running, J!PlanOf
<1>8. J!Running(p)
    BY <1>1 DEF J!Running
<1> QED BY <1>1, <1>2, <1>3, <1>5, <1>6, <1>7, <1>8, QuietCropStep DEF Labels

LEMMA CropPrefetchedStep ==
    ASSUME J!CropAssumption, J!IInv, NEW p \in Proc, J!Prefetched(p)
    PROVE  J!IInv'
<1> DEFINE c == jCall[p]
<1>1. /\ jPc[p] = "prepared" /\ jPc' = [jPc EXCEPT ![p] = "done"]
      /\ UNCHANGED <<jRequests, jRevision, jFile, jStaging, jRecord, jOutput, jRaced, jCall>>
    BY DEF J!Prefetched, J!Goto, J!disk
<1>2. /\ c \in J!Call(c.sums) /\ J!IsSums(c.sums) /\ jPc \in [Proc -> Labels]
      /\ jCall' = [jCall EXCEPT ![p] = c] /\ jOutput' = [plan \in J!Plan |-> jOutput'[plan]]
    BY <1>1 DEF J!IInv, J!TypeOK, Labels
<1>3. jPc'[p] = "done" /\ (\A q \in Proc \ {p} : jPc'[q] = jPc[q]) /\ c.made = FALSE
    BY <1>1, <1>2 DEF J!IInv, J!MadeAtTheEnd, J!Call
<1>4. J!CallIsSound(p)' /\ J!LooksFirst(p)' /\ J!MadeAtTheEnd(p)'
    <2>1. J!CallIsSound(p)
        BY DEF J!IInv
    <2> QED BY <1>1, <1>3, <2>1
            DEF J!CallIsSound, J!Prepares, J!AreSound, J!Covers, J!PlanOf, J!LooksFirst, J!MadeAtTheEnd
<1>5. J!AloneIsUndisturbed(p)'
    <2>1. J!AloneIsUndisturbed(p)
        BY DEF J!IInv
    <2> QED BY <1>1, <1>3, <2>1 DEF J!AloneIsUndisturbed, J!Prepares, J!Running
<1>6. J!Running(p)
    BY <1>1 DEF J!Running
<1> QED BY <1>1, <1>2, <1>4, <1>5, <1>6, RecordsStay, QuietCropStep DEF Labels

\* An output is made of the files by their names, which a call alone has verified.
LEMMA CropMaterializeStep ==
    ASSUME J!CropAssumption, J!IInv, NEW p \in Proc, J!Materialize(p)
    PROVE  J!IInv'
<1> DEFINE made == [u \in DOMAIN jCall[p].sums |-> jFile[u]]
           c == [jCall[p] EXCEPT !.made = TRUE]
<1>1. /\ jPc[p] = "prepared" /\ jCall[p].op = "ensure"
      /\ UNCHANGED <<jRequests, jRevision, jFile, jStaging, jRecord, jRaced>>
    BY DEF J!Materialize
<1>2. CASE J!Raise(p) /\ UNCHANGED jOutput
    BY <1>1, <1>2, CropRaises
<1>3. CASE ~(J!Raise(p) /\ UNCHANGED jOutput)
    <2>1. /\ jOutput' = [jOutput EXCEPT ![J!PlanOf(p)] = made]
          /\ jCall' = [jCall EXCEPT ![p].made = TRUE] /\ jPc' = [jPc EXCEPT ![p] = "done"]
        BY <1>3 DEF J!Materialize, J!Goto
    <2>2. /\ jCall[p] \in J!Call(jCall[p].sums) /\ J!IsSums(jCall[p].sums) /\ jPc \in [Proc -> Labels]
          /\ jCall = [q \in Proc |-> jCall[q]] /\ J!PlanOf(p) \in J!Plan
          /\ jOutput = [plan \in J!Plan |-> jOutput[plan]]
        BY DEF J!IInv, J!TypeOK, Labels, J!PlanOf, J!Call
    <2>3. /\ c \in J!Call(jCall[p].sums) /\ c.sums = jCall[p].sums /\ c.todo = jCall[p].todo
          /\ c.plan = jCall[p].plan /\ c.alone = jCall[p].alone /\ c.mode = jCall[p].mode
          /\ c.told = jCall[p].told /\ c.made = TRUE
        BY <2>2 DEF J!Call
    <2>4. /\ jPc'[p] = "done" /\ jCall' = [jCall EXCEPT ![p] = c] /\ jCall'[p] = c
          /\ \A q \in Proc \ {p} : jPc'[q] = jPc[q]
          /\ jOutput' = [plan \in J!Plan |-> jOutput'[plan]] /\ jOutput'[J!PlanOf(p)] = made
        BY <2>1, <2>2
    <2> HIDE DEF c
    <2>5. J!CallIsSound(p) /\ J!AloneIsUndisturbed(p) /\ jCall[p].todo = {}
        BY <1>1 DEF J!IInv, J!CallIsSound, J!Prepares
    <2>6. J!CallIsSound(p)' /\ J!LooksFirst(p)' /\ J!MadeAtTheEnd(p)'
        BY <1>1, <2>3, <2>4, <2>5
           DEF J!CallIsSound, J!Prepares, J!AreSound, J!Covers, J!PlanOf, J!LooksFirst, J!MadeAtTheEnd
    <2>7. J!AloneIsUndisturbed(p)'
        <3>1. ASSUME jCall[p].alone PROVE made = jCall[p].sums
            <4>1. \A u \in DOMAIN jCall[p].sums : jFile[u] = jCall[p].sums[u]
                BY <1>1, <2>5, <3>1 DEF J!AloneIsUndisturbed, J!Prepares
            <4> QED BY <2>2, <4>1 DEF J!IsSums
        <3> HIDE DEF made
        <3> QED BY <1>1, <2>3, <2>4, <2>5, <3>1 DEF J!AloneIsUndisturbed, J!Prepares, J!Running, J!PlanOf
    <2>8. J!Running(p)
        BY <1>1 DEF J!Running
    <2> QED BY <1>1, <2>1, <2>2, <2>3, <2>4, <2>6, <2>7, <2>8, RecordsStay, QuietCropStep DEF Labels
<1> QED BY <1>2, <1>3

\* A call that starts makes every other one a call that was not alone.
LEMMA CropStartStep ==
    ASSUME J!CropAssumption, J!IInv, NEW p \in Proc, J!Start(p)
    PROVE  J!IInv'
<1> DEFINE nobody == \A q \in Proc \ {p} : ~J!Running(q)
           first(r, mode) == [J!NoCall EXCEPT !.plan = r[2], !.mode = mode, !.op = r[3],
                                            !.told = J!Explain(r[2]), !.alone = nobody]
           other(q) == [jCall[q] EXCEPT !.alone = FALSE]
<1>1. PICK r \in jRequests, mode \in J!Mode :
        jCall' = [q \in Proc |-> IF q = p THEN first(r, mode) ELSE other(q)]
    BY DEF J!Start
<1>2. /\ jPc[p] = "idle" /\ jPc' = [jPc EXCEPT ![p] = "output"]
      /\ UNCHANGED <<jRequests, jRevision, jFile, jStaging, jRecord, jOutput, jRaced>>
    BY DEF J!Start, J!Goto, J!disk
<1>3. /\ jPc \in [Proc -> Labels] /\ jCall = [q \in Proc |-> jCall[q]]
      /\ \A q \in Proc : jCall[q] \in J!Call(jCall[q].sums) /\ J!IsSums(jCall[q].sums)
    BY DEF J!IInv, J!TypeOK, Labels
<1>4. r[2] \in J!Plan /\ r[3] \in {"ensure", "prefetch"}
    BY DEF J!IInv, J!TypeOK, J!CropAssumption, J!Plan
<1> DEFINE c == first(r, mode)
<1>5. J!Explain(r[2]) \subseteq J!CropUnit
    BY <1>4 DEF J!Explain, J!IInv, J!TypeOK, J!IsSums
<1>6. nobody \in BOOLEAN
    OBVIOUS
<1>7. /\ c \in J!Call(J!Nothing) /\ c.sums = J!Nothing /\ c.todo = {} /\ c.plan = r[2] /\ c.made = FALSE
      /\ c.told = J!Explain(r[2]) /\ (c.alone => nobody)
    <2> HIDE DEF nobody
    <2> QED BY <1>4, <1>5, <1>6, NoCropCall DEF J!Call
<1>8. /\ jCall'[p] = c /\ jPc'[p] = "output"
      /\ \A q \in Proc \ {p} : jCall'[q] = other(q) /\ jPc'[q] = jPc[q]
    BY <1>1, <1>2, <1>3
<1> HIDE DEF c
<1>9. ASSUME NEW q \in Proc
      PROVE  /\ other(q) \in J!Call(jCall[q].sums) /\ other(q).sums = jCall[q].sums /\ ~other(q).alone
             /\ other(q).plan = jCall[q].plan /\ other(q).op = jCall[q].op
             /\ other(q).todo = jCall[q].todo /\ other(q).made = jCall[q].made
             /\ other(q).mode = jCall[q].mode /\ other(q).told = jCall[q].told
             /\ other(q).unit = jCall[q].unit /\ other(q).shared = jCall[q].shared
             /\ other(q).at = jCall[q].at
    BY <1>3, <1>9 DEF J!Call
<1> HIDE DEF other
<1>10. J!TypeOK'
    <2>1. jCall' = [q \in Proc |-> jCall'[q]] /\ jPc' \in [Proc -> Labels]
        BY <1>1, <1>2, <1>3 DEF Labels
    <2>2. ASSUME NEW q \in Proc PROVE jCall'[q] \in J!Call(jCall'[q].sums) /\ J!IsSums(jCall'[q].sums)
        <3>1. CASE q = p
            BY <1>7, <1>8, <3>1, NothingIsSums
        <3>2. CASE q # p
            BY <1>3, <1>8, <1>9, <3>2
        <3> QED BY <3>1, <3>2
    <2> QED BY <1>2, <2>1, <2>2 DEF J!IInv, J!TypeOK, Labels
<1>11. J!CropsAreApart'
    <2>1. ~J!Cropping(p)' /\ \A q \in Proc \ {p} : J!Cropping(q)' => J!Cropping(q) /\ jCall'[q].unit = jCall[q].unit
        BY <1>8, <1>9 DEF J!Cropping
    <2> QED BY <1>2, <2>1 DEF J!IInv, J!CropsAreApart
<1>12. ASSUME NEW q \in Proc PROVE J!CropIsWhole(q)'
    <2>1. CASE q = p
        BY <1>8, <2>1 DEF J!CropIsWhole
    <2>2. CASE q # p
        BY <1>2, <1>8, <1>9, <2>2 DEF J!IInv, J!CropIsWhole
    <2> QED BY <2>1, <2>2
<1>13. ASSUME NEW q \in Proc
       PROVE  J!CallIsSound(q)' /\ J!AloneIsUndisturbed(q)' /\ J!LooksFirst(q)' /\ J!MadeAtTheEnd(q)'
    <2>1. CASE q = p
        <3>1. ~J!Prepares(p)'
            BY <1>7, <1>8 DEF J!Prepares
        <3>2. jCall'[p].alone => \A q2 \in Proc \ {p} : ~J!Running(q2)'
            BY <1>7, <1>8 DEF J!Running
        <3>3. c.told # {} => jRecord[c.plan] # None /\ DOMAIN jRecord[c.plan] = c.told
            BY <1>7 DEF J!Explain
        <3>4. J!AloneIsUndisturbed(p)'
            BY <1>2, <1>8, <3>1, <3>2, <3>3 DEF J!AloneIsUndisturbed
        <3> QED BY <1>7, <1>8, <2>1, <3>1, <3>4 DEF J!CallIsSound, J!LooksFirst, J!MadeAtTheEnd
    <2>2. CASE q # p
        <3>1. \A r2 \in Proc \ {p} : jPc'[r2] = jPc[r2]
            BY <1>8
        <3>2. /\ jPc'[q] = jPc[q] /\ jCall'[q].sums = jCall[q].sums /\ ~jCall'[q].alone
              /\ jCall'[q].plan = jCall[q].plan /\ jCall'[q].op = jCall[q].op
              /\ jCall'[q].todo = jCall[q].todo /\ jCall'[q].made = jCall[q].made
              /\ jCall'[q].mode = jCall[q].mode /\ jCall'[q].told = jCall[q].told
            BY <1>8, <1>9, <2>2
        <3> QED BY <1>2, <2>2, <3>1, <3>2, OtherCropsStaySound
    <2> QED BY <2>1, <2>2
<1> QED BY <1>2, <1>10, <1>11, <1>12, <1>13, RecordsStay DEF J!IInv

\* A file that is a hit is done with.
LEMMA CropIsHit ==
    ASSUME J!CropAssumption, J!IInv, NEW p \in Proc, jPc[p] = "files", NEW u \in jCall[p].todo, J!Hit(p, u),
           jCall' = [jCall EXCEPT ![p].todo = @ \ {u}, ![p].sums = J!Sum(p, u, jFile[u])],
           UNCHANGED <<jRequests, jRevision, jFile, jStaging, jRecord, jOutput, jRaced, jPc>>
    PROVE  J!IInv'
<1> DEFINE s == J!Sum(p, u, jFile[u])
           c == [jCall[p] EXCEPT !.todo = @ \ {u}, !.sums = s]
           t == jCall[p].sums
           todo == jCall[p].todo
<1>1. /\ jCall[p] \in J!Call(t) /\ J!IsSums(t) /\ jPc \in [Proc -> Labels]
      /\ jCall = [q \in Proc |-> jCall[q]] /\ u \in DOMAIN t /\ jFile[u] = t[u]
    BY DEF J!IInv, J!TypeOK, Labels, J!Hit
<1>2. s = t
    BY <1>1 DEF J!Sum, J!IsSums
<1>3. /\ jCall' = [jCall EXCEPT ![p] = c] /\ jCall'[p] = c /\ jPc' = [jPc EXCEPT ![p] = "files"]
    BY <1>1
<1> HIDE DEF s
<1>4. /\ c \in J!Call(t) /\ c.sums = t /\ c.todo = todo \ {u} /\ c.plan = jCall[p].plan
      /\ c.alone = jCall[p].alone /\ c.mode = jCall[p].mode /\ c.told = jCall[p].told
      /\ c.made = jCall[p].made
    BY <1>1, <1>2 DEF J!Call
<1> HIDE DEF c
<1>5. /\ J!CallIsSound(p) /\ J!AloneIsUndisturbed(p) /\ jCall[p].made = FALSE
      /\ DOMAIN t \cup (todo \ {u}) = DOMAIN t \cup todo
    BY <1>1 DEF J!IInv, J!MadeAtTheEnd, J!Call
<1>6. J!CallIsSound(p)'
    BY <1>3, <1>4, <1>5 DEF J!CallIsSound, J!AreSound, J!Covers, J!PlanOf, J!Prepares
<1>7. J!LooksFirst(p)' /\ J!MadeAtTheEnd(p)'
    BY <1>3, <1>4, <1>5 DEF J!LooksFirst, J!MadeAtTheEnd
<1>8. J!AloneIsUndisturbed(p)'
    BY <1>1, <1>3, <1>4, <1>5 DEF J!AloneIsUndisturbed, J!Prepares, J!Running
<1>9. J!Running(p) /\ jOutput' = [pl \in J!Plan |-> jOutput'[pl]]
    BY DEF J!Running, J!IInv, J!TypeOK
<1> QED BY <1>1, <1>3, <1>4, <1>6, <1>7, <1>8, <1>9, RecordsStay, QuietCropStep DEF Labels

\* A source that does not meet the area is dropped with all its files.
LEMMA CropIsOutside ==
    ASSUME J!CropAssumption, J!IInv, NEW p \in Proc, jPc[p] = "files", NEW u \in jCall[p].todo,
           u[1] \in FloodOutside, jCall' = J!Without(p, u),
           UNCHANGED <<jRequests, jRevision, jFile, jStaging, jRecord, jOutput, jRaced, jPc>>
    PROVE  J!IInv'
<1> DEFINE t == jCall[p].sums
           todo == jCall[p].todo
           units == {w \in DOMAIN t : w[1] # u[1]}
           rest == {v \in todo : v[1] # u[1]}
           s == [v \in units |-> t[v]]
           c == [jCall[p] EXCEPT !.todo = rest, !.sums = s]
<1>1. /\ jCall[p] \in J!Call(t) /\ J!IsSums(t) /\ jPc \in [Proc -> Labels]
      /\ jCall = [q \in Proc |-> jCall[q]]
    BY DEF J!IInv, J!TypeOK, Labels
<1>2. /\ jCall' = [jCall EXCEPT ![p] = c] /\ jCall'[p] = c /\ jPc' = [jPc EXCEPT ![p] = "files"]
    BY <1>1 DEF J!Without
<1>3. J!IsSums(s) /\ DOMAIN s = units /\ \A v \in units : s[v] = t[v]
    BY <1>1 DEF J!IsSums
<1>4. rest \subseteq todo /\ units \subseteq DOMAIN t
    OBVIOUS
<1> HIDE DEF s
<1>5. /\ c \in J!Call(s) /\ c.sums = s /\ c.todo = rest /\ c.plan = jCall[p].plan
      /\ c.alone = jCall[p].alone /\ c.mode = jCall[p].mode /\ c.told = jCall[p].told
      /\ c.made = jCall[p].made
    <2> HIDE DEF rest
    <2> QED BY <1>1, <1>4 DEF J!Call
<1> HIDE DEF c
<1>6. /\ J!AreSound(t) /\ J!Covers(J!PlanOf(p), DOMAIN t \cup todo) /\ J!AloneIsUndisturbed(p)
      /\ jCall[p].made = FALSE
    BY <1>1 DEF J!IInv, J!CallIsSound, J!Prepares, J!MadeAtTheEnd, J!Call
<1>7. J!Covers(J!PlanOf(p), units \cup rest)
    <2> DEFINE all == DOMAIN t \cup todo
    <2>1. units \cup rest = {v \in all : v[1] # u[1]}
        OBVIOUS
    <2>2. ASSUME NEW v \in units \cup rest, NEW part \in J!PlanOf(p).parts
          PROVE  <<v[1], part>> \in units \cup rest
        <3>1. v \in all /\ v[1] # u[1] /\ <<v[1], part>> \in all
            BY <1>6, <2>1, <2>2 DEF J!Covers
        <3>2. <<v[1], part>>[1] = v[1]
            OBVIOUS
        <3> HIDE DEF all, units, rest
        <3> QED BY <2>1, <3>1, <3>2
    <2>3. ASSUME J!PlanOf(p).kind = "flood", NEW source \in FloodTiles \ FloodOutside
          PROVE  \E v \in units \cup rest : v[1] = source
        <3>1. PICK v \in all : v[1] = source
            BY <1>6, <2>3 DEF J!Covers
        <3> HIDE DEF all, units, rest
        <3> QED BY <2>1, <2>3, <3>1
    <2> HIDE DEF units, rest
    <2> QED BY <2>2, <2>3 DEF J!Covers
<1>8. J!CallIsSound(p)'
    <2>1. \A v \in DOMAIN s : v[1] \notin FloodOutside /\ s[v] # None /\ (s[v] = Torn => jRaced')
        BY <1>3, <1>6 DEF J!AreSound
    <2> HIDE DEF units, rest
    <2> QED BY <1>2, <1>3, <1>5, <1>7, <2>1 DEF J!CallIsSound, J!AreSound, J!Covers, J!PlanOf, J!Prepares
<1>9. J!LooksFirst(p)' /\ J!MadeAtTheEnd(p)'
    BY <1>2, <1>5, <1>6 DEF J!LooksFirst, J!MadeAtTheEnd
<1>10. J!AloneIsUndisturbed(p)'
    <2>1. ASSUME jCall[p].alone
          PROVE  /\ \A q \in Proc \ {p} : ~J!Running(q)
                 /\ \A v \in DOMAIN s \ rest : jFile[v] = s[v]
                 /\ ~(jCall[p].mode # "refresh" /\ jCall[p].told # {})
        <3>1. \A v \in DOMAIN t \ todo : jFile[v] = t[v]
            BY <1>6, <2>1 DEF J!AloneIsUndisturbed, J!Prepares
        <3>2. \A v \in DOMAIN s \ rest : v \in DOMAIN t \ todo /\ s[v] = t[v]
            BY <1>3
        <3>3. u \in DOMAIN t => FALSE
            BY <1>6 DEF J!AreSound
        <3> HIDE DEF rest, units
        <3> QED BY <1>6, <2>1, <3>1, <3>2, <3>3 DEF J!AloneIsUndisturbed, J!Prepares
    <2> HIDE DEF units, rest
    <2> QED BY <1>2, <1>5, <1>6, <2>1 DEF J!AloneIsUndisturbed, J!Prepares, J!Running
<1>11. J!Running(p) /\ jOutput' = [pl \in J!Plan |-> jOutput'[pl]]
    BY DEF J!Running, J!IInv, J!TypeOK
<1> QED BY <1>1, <1>2, <1>3, <1>5, <1>8, <1>9, <1>10, <1>11, RecordsStay, QuietCropStep DEF Labels

\* A crop starts; a call that is at the same raster is noticed.
LEMMA CropBegins ==
    ASSUME J!CropAssumption, J!IInv, NEW p \in Proc, jPc[p] = "files", NEW u \in jCall[p].todo,
           u[1] \notin FloodOutside, NEW others,
           others = {q \in Proc \ {p} : jPc[q] = "writing" /\ jCall[q].unit = u
                                         /\ jCall[q].at = "staging"},
           jStaging' = [jStaging EXCEPT ![u] = Torn],
           jCall' = [q \in Proc |->
                    IF q = p THEN [jCall[p] EXCEPT !.unit = u, !.at = "staging",
                                                  !.shared = others # {}]
                    ELSE IF q \in others THEN [jCall[q] EXCEPT !.shared = TRUE] ELSE jCall[q]],
           jRaced' = (jRaced \/ \E q \in Proc \ {p} : jPc[q] \in {"writing", "written"}
                                                     /\ jCall[q].unit = u),
           jPc' = [jPc EXCEPT ![p] = "writing"],
           UNCHANGED <<jRequests, jRevision, jFile, jRecord, jOutput>>
    PROVE  J!IInv'
<1> DEFINE two == others # {}
           c == [jCall[p] EXCEPT !.unit = u, !.at = "staging", !.shared = two]
           other(q) == IF q \in others THEN [jCall[q] EXCEPT !.shared = TRUE] ELSE jCall[q]
<1>1. /\ jPc \in [Proc -> Labels] /\ jCall = [q \in Proc |-> jCall[q]]
      /\ \A q \in Proc : jCall[q] \in J!Call(jCall[q].sums) /\ J!IsSums(jCall[q].sums)
    BY DEF J!IInv, J!TypeOK, Labels
<1>2. /\ jCall'[p] = c /\ jPc'[p] = "writing" /\ jPc' \in [Proc -> Labels]
      /\ jCall' = [q \in Proc |-> jCall'[q]]
      /\ \A q \in Proc \ {p} : jCall'[q] = other(q) /\ jPc'[q] = jPc[q]
    BY <1>1 DEF Labels
<1>3. u \in J!CropUnit
    BY <1>1 DEF J!Call
<1>4. /\ c \in J!Call(jCall[p].sums) /\ c.sums = jCall[p].sums /\ c.todo = jCall[p].todo
      /\ c.plan = jCall[p].plan /\ c.alone = jCall[p].alone /\ c.mode = jCall[p].mode
      /\ c.told = jCall[p].told /\ c.made = jCall[p].made /\ c.op = jCall[p].op
      /\ c.unit = u /\ c.at = "staging" /\ (c.shared <=> two)
    <2>1. two \in BOOLEAN
        OBVIOUS
    <2> HIDE DEF two
    <2> QED BY <1>1, <1>3, <2>1 DEF J!Call
<1>5. ASSUME NEW q \in Proc, q # p
      PROVE  /\ jCall'[q] \in J!Call(jCall[q].sums) /\ jCall'[q].sums = jCall[q].sums
             /\ jCall'[q].plan = jCall[q].plan /\ jCall'[q].op = jCall[q].op
             /\ jCall'[q].todo = jCall[q].todo /\ jCall'[q].made = jCall[q].made
             /\ jCall'[q].mode = jCall[q].mode /\ jCall'[q].told = jCall[q].told
             /\ jCall'[q].unit = jCall[q].unit /\ jCall'[q].at = jCall[q].at
             /\ jCall'[q].alone = jCall[q].alone /\ jPc'[q] = jPc[q]
             /\ jCall'[q].shared => q \in others \/ jCall[q].shared
    <2>1. CASE q \in others
        <3>1. jCall'[q] = [jCall[q] EXCEPT !.shared = TRUE] /\ jPc'[q] = jPc[q]
            BY <1>2, <1>5, <2>1
        <3>2. jCall[q] \in J!Call(jCall[q].sums)
            BY <1>1
        <3>3. /\ jCall'[q] \in J!Call(jCall[q].sums) /\ jCall'[q].sums = jCall[q].sums
              /\ jCall'[q].plan = jCall[q].plan /\ jCall'[q].op = jCall[q].op
              /\ jCall'[q].todo = jCall[q].todo /\ jCall'[q].made = jCall[q].made
              /\ jCall'[q].mode = jCall[q].mode /\ jCall'[q].told = jCall[q].told
              /\ jCall'[q].unit = jCall[q].unit /\ jCall'[q].at = jCall[q].at
              /\ jCall'[q].alone = jCall[q].alone
            BY <3>1, <3>2 DEF J!Call
        <3> QED BY <2>1, <3>1, <3>3
    <2>2. CASE q \notin others
        <3>1. jCall'[q] = jCall[q] /\ jPc'[q] = jPc[q]
            BY <1>2, <1>5, <2>2
        <3> QED BY <1>1, <1>5, <2>2, <3>1
    <2> QED BY <2>1, <2>2
<1> HIDE DEF c, other
<1>6. \A q \in Proc \ {p} : J!Cropping(q) /\ jCall[q].unit = u => jRaced'
    BY DEF J!Cropping
<1>7. \A q \in others : q \in Proc \ {p} /\ J!Cropping(q) /\ jCall[q].unit = u
    BY DEF J!Cropping
<1>8. jRaced => jRaced'
    OBVIOUS
<1>9. jRaced' \in BOOLEAN
    BY DEF J!IInv, J!TypeOK
<1>10. J!TypeOK'
    <2>1. jStaging' \in [J!CropUnit -> J!Content]
        BY <1>3 DEF J!IInv, J!TypeOK, J!Content
    <2>2. ASSUME NEW q \in Proc PROVE jCall'[q] \in J!Call(jCall'[q].sums) /\ J!IsSums(jCall'[q].sums)
        <3>1. CASE q = p
            BY <1>1, <1>2, <1>4, <3>1
        <3>2. CASE q # p
            BY <1>1, <1>2, <1>5, <3>2
        <3> QED BY <3>1, <3>2
    <2> QED BY <1>2, <1>9, <2>1, <2>2 DEF J!IInv, J!TypeOK, Labels
<1>11. J!CropsAreApart'
    <2> SUFFICES ASSUME NEW q1 \in Proc, NEW q2 \in Proc, q1 # q2, J!Cropping(q1)', J!Cropping(q2)',
                        jCall'[q1].unit = jCall'[q2].unit
                 PROVE  jRaced'
        BY DEF J!CropsAreApart
    <2>1. \A q \in Proc \ {p} : J!Cropping(q)' => J!Cropping(q) /\ jCall'[q].unit = jCall[q].unit
        BY <1>2, <1>5 DEF J!Cropping
    <2>2. jCall'[p].unit = u
        BY <1>2, <1>4
    <2>3. CASE q1 = p \/ q2 = p
        BY <1>6, <2>1, <2>2, <2>3
    <2>4. CASE q1 # p /\ q2 # p
        BY <1>8, <2>1, <2>4 DEF J!IInv, J!CropsAreApart
    <2> QED BY <2>3, <2>4
<1>12. ASSUME NEW q \in Proc PROVE J!CropIsWhole(q)'
    <2>1. CASE q = p
        <3>1. c.shared => jRaced'
            BY <1>4, <1>6, <1>7
        <3> QED BY <1>2, <1>4, <2>1, <3>1 DEF J!CropIsWhole
    <2>2. CASE q # p
        <3>1. J!CropIsWhole(q) /\ jStaging \in [J!CropUnit -> J!Content]
            BY DEF J!IInv, J!TypeOK
        <3>2. /\ jCall'[q].unit = jCall[q].unit /\ jCall'[q].todo = jCall[q].todo
              /\ jCall'[q].at = jCall[q].at /\ jPc'[q] = jPc[q]
              /\ jCall'[q].shared => q \in others \/ jCall[q].shared
            BY <1>2, <1>5, <2>2
        <3>3. jPc[q] = "written" /\ jStaging'[jCall[q].unit] = Torn => jRaced'
            <4>1. CASE jCall[q].unit = u
                BY <1>6, <2>2, <4>1 DEF J!Cropping
            <4>2. CASE jCall[q].unit # u
                BY <1>1, <1>8, <3>1, <4>2 DEF J!CropIsWhole, J!Call
            <4> QED BY <4>1, <4>2
        <3>4. q \in others => jRaced'
            BY <1>6, <1>7
        <3> QED BY <1>8, <3>1, <3>2, <3>3, <3>4 DEF J!CropIsWhole
    <2> QED BY <2>1, <2>2
<1>13. /\ jRecord' = [plan \in J!Plan |-> jRecord'[plan]]
       /\ \A plan \in J!Plan : J!RecordIsSound(plan)'
    BY <1>8 DEF J!IInv, J!TypeOK, J!RecordIsSound, J!AreSound
<1>14. ASSUME NEW q \in Proc
       PROVE  J!CallIsSound(q)' /\ J!AloneIsUndisturbed(q)' /\ J!LooksFirst(q)' /\ J!MadeAtTheEnd(q)'
    <2>1. CASE q = p
        <3>1. J!CallIsSound(p) /\ J!AloneIsUndisturbed(p) /\ jCall[p].made = FALSE
            BY <1>1 DEF J!IInv, J!MadeAtTheEnd, J!Call
        <3>4. /\ jPc'[p] = "writing" /\ \A r \in Proc \ {p} : jPc'[r] = jPc[r]
              /\ jCall'[p].sums = jCall[p].sums /\ jCall'[p].alone = jCall[p].alone
              /\ jCall'[p].plan = jCall[p].plan /\ jCall'[p].todo = jCall[p].todo
              /\ jCall'[p].made = jCall[p].made /\ jCall'[p].mode = jCall[p].mode
              /\ jCall'[p].told = jCall[p].told
            BY <1>2, <1>4
        <3>2. J!CallIsSound(p)'
            <4>1. J!Prepares(p) /\ jPc'[p] \notin {"prepared", "done"}
                BY <3>4 DEF J!Prepares
            <4>2. \A v \in DOMAIN jCall[p].sums :
                    /\ v[1] \notin FloodOutside /\ jCall[p].sums[v] # None
                    /\ jCall[p].sums[v] = Torn => jRaced'
                BY <1>8, <3>1, <4>1 DEF J!CallIsSound, J!AreSound
            <4>4. J!Covers(jCall'[p].plan, DOMAIN jCall'[p].sums \cup jCall'[p].todo)
                BY <3>1, <3>4, <4>1 DEF J!CallIsSound, J!PlanOf
            <4>5. J!AreSound(jCall[p].sums)'
                BY <3>4, <4>2 DEF J!AreSound
            <4>6. J!Covers(J!PlanOf(p), DOMAIN jCall[p].sums \cup jCall[p].todo)'
                BY <4>4 DEF J!Covers, J!PlanOf
            <4> QED BY <3>4, <4>5, <4>6 DEF J!CallIsSound
        <3>3. J!AloneIsUndisturbed(p)'
            <4>1. J!Prepares(p) /\ J!Prepares(p)' /\ jPc'[p] \notin {"output", "look", "prepared", "done"}
                BY <3>4 DEF J!Prepares
            <4>2. (\A q2 \in Proc \ {p} : ~J!Running(q2)) => \A q2 \in Proc \ {p} : ~J!Running(q2)'
                BY <3>4 DEF J!Running
            <4>3. jPc[p] # "idle"
                OBVIOUS
            <4>4. /\ jFile' = jFile /\ jCall'[p].sums = jCall[p].sums /\ jCall'[p].todo = jCall[p].todo
                  /\ jCall'[p].alone = jCall[p].alone /\ jCall'[p].made = FALSE
                  /\ jCall'[p].mode = jCall[p].mode /\ jCall'[p].told = jCall[p].told
                BY <3>1, <3>4
            <4>5. SUFFICES ASSUME jCall[p].alone
                           PROVE  J!AloneIsUndisturbed(p)'
                BY <4>4 DEF J!AloneIsUndisturbed
            <4>6. /\ \A q2 \in Proc \ {p} : ~J!Running(q2)
                  /\ \A v \in DOMAIN jCall[p].sums \ jCall[p].todo : jFile[v] = jCall[p].sums[v]
                  /\ jCall[p].mode # "refresh" /\ jCall[p].told # {} =>
                        DOMAIN jCall[p].sums = jCall[p].told /\ jCall[p].todo \subseteq jCall[p].told
                BY <3>1, <4>1, <4>3, <4>5 DEF J!AloneIsUndisturbed
            <4>7. \A q2 \in Proc \ {p} : ~J!Running(q2)'
                BY <4>2, <4>6
            <4> QED BY <4>1, <4>4, <4>6, <4>7 DEF J!AloneIsUndisturbed
        <3> QED BY <1>2, <1>4, <2>1, <3>1, <3>2, <3>3 DEF J!LooksFirst, J!MadeAtTheEnd
    <2>2. CASE q # p
        <3>1. /\ \A r \in Proc \ {p} : jPc'[r] = jPc[r]
              /\ J!Running(p)
            BY <1>2 DEF J!Running
        <3>2. /\ jPc'[q] = jPc[q] /\ jCall'[q].sums = jCall[q].sums
              /\ jCall'[q].alone = jCall[q].alone
              /\ jCall'[q].plan = jCall[q].plan /\ jCall'[q].op = jCall[q].op
              /\ jCall'[q].todo = jCall[q].todo /\ jCall'[q].made = jCall[q].made
              /\ jCall'[q].mode = jCall[q].mode /\ jCall'[q].told = jCall[q].told
            BY <1>2, <1>5, <2>2
        <3> QED BY <1>8, <2>2, <3>1, <3>2, OtherCropsStaySound
    <2> QED BY <2>1, <2>2
<1> QED BY <1>10, <1>11, <1>12, <1>13, <1>14 DEF J!IInv

LEMMA CropOneFile ==
    ASSUME J!CropAssumption, J!IInv, NEW p \in Proc, J!Crops(p)
    PROVE  J!IInv'
<1> DEFINE u == CHOOSE v \in jCall[p].todo : TRUE
           others == {q \in Proc \ {p} : jPc[q] = "writing" /\ jCall[q].unit = u
                                          /\ jCall[q].at = "staging"}
<1>1. /\ jPc[p] = "files" /\ u \in jCall[p].todo
      /\ UNCHANGED <<jRequests, jRevision, jFile, jRecord, jOutput>>
    BY DEF J!Crops
<1>2. CASE J!Hit(p, u)
    BY <1>1, <1>2, CropIsHit DEF J!Crops
<1>3. CASE ~J!Hit(p, u) /\ ~J!Exists(p, u)
    BY <1>1, <1>3, CropRaises DEF J!Crops
<1>4. CASE ~J!Hit(p, u) /\ J!Exists(p, u) /\ u[1] \in FloodOutside
    BY <1>1, <1>4, CropIsOutside DEF J!Crops
<1>5. CASE ~J!Hit(p, u) /\ J!Exists(p, u) /\ u[1] \notin FloodOutside
    <2>1. /\ jStaging' = [jStaging EXCEPT ![u] = Torn]
          /\ jCall' = [q \in Proc |->
                    IF q = p THEN [jCall[p] EXCEPT !.unit = u, !.at = "staging",
                                                  !.shared = others # {}]
                    ELSE IF q \in others THEN [jCall[q] EXCEPT !.shared = TRUE] ELSE jCall[q]]
          /\ jRaced' = (jRaced \/ \E q \in Proc \ {p} : jPc[q] \in {"writing", "written"}
                                                        /\ jCall[q].unit = u)
          /\ jPc' = [jPc EXCEPT ![p] = "writing"]
        BY <1>5 DEF J!Crops, J!Goto
    <2> QED BY <1>1, <1>5, <2>1, CropBegins
<1> QED BY <1>2, <1>3, <1>4, <1>5

\* A running call that goes from label to label, keeps its fields, and changes the
\* file it is at or its staging name; other calls may be told that the name is gone.
LEMMA CropAtItsFile ==
    ASSUME J!CropAssumption, J!IInv, NEW p \in Proc, J!Cropping(p), NEW l \in {"written", "installed"},
           jPc' = [jPc EXCEPT ![p] = l], NEW gone, gone \subseteq Proc,
           jCall' = [q \in Proc |-> IF q \in gone THEN [jCall[q] EXCEPT !.at = "file"] ELSE jCall[q]],
           \A q \in gone : q # p /\ jPc[q] = "writing" /\ jCall[q].unit = jCall[p].unit,
           UNCHANGED <<jRequests, jRevision, jRecord, jOutput, jRaced>>,
           jFile' \in [J!CropUnit -> J!Content], jStaging' \in [J!CropUnit -> J!Content],
           \A u \in J!CropUnit : u # jCall[p].unit => jFile'[u] = jFile[u] /\ jStaging'[u] = jStaging[u],
           LET u == jCall[p].unit IN
           /\ jFile'[u] = jFile[u] \/ (jFile'[u] # None /\ (jFile'[u] = Torn => jRaced))
           /\ l = "written" => (jStaging'[u] = Torn => jRaced)
           /\ l = "installed" => jFile'[u] # None /\ (jFile'[u] = Torn => jRaced)
    PROVE  J!IInv'
<1> DEFINE u == jCall[p].unit
<1>1. /\ jPc \in [Proc -> Labels] /\ jCall = [q \in Proc |-> jCall[q]]
      /\ \A q \in Proc : jCall[q] \in J!Call(jCall[q].sums) /\ J!IsSums(jCall[q].sums)
    BY DEF J!IInv, J!TypeOK, Labels
<1>2. /\ jCall'[p] = jCall[p] /\ jPc'[p] = l /\ jPc' \in [Proc -> Labels]
      /\ jCall' = [q \in Proc |-> jCall'[q]]
      /\ \A q \in Proc \ {p} : jPc'[q] = jPc[q]
    BY <1>1 DEF Labels
<1>3. ASSUME NEW q \in Proc
      PROVE  /\ jCall'[q] \in J!Call(jCall[q].sums) /\ jCall'[q].sums = jCall[q].sums
             /\ jCall'[q].plan = jCall[q].plan /\ jCall'[q].op = jCall[q].op
             /\ jCall'[q].todo = jCall[q].todo /\ jCall'[q].made = jCall[q].made
             /\ jCall'[q].mode = jCall[q].mode /\ jCall'[q].told = jCall[q].told
             /\ jCall'[q].unit = jCall[q].unit /\ jCall'[q].shared = jCall[q].shared
             /\ jCall'[q].alone = jCall[q].alone
             /\ jCall'[q].at = "file" => q \in gone \/ jCall[q].at = "file"
    <2>1. CASE q \in gone
        <3>1. jCall'[q] = [jCall[q] EXCEPT !.at = "file"]
            BY <2>1
        <3> QED BY <1>1, <2>1, <3>1 DEF J!Call
    <2>2. CASE q \notin gone
        <3>1. jCall'[q] = jCall[q]
            BY <2>2
        <3> QED BY <1>1, <3>1
    <2> QED BY <2>1, <2>2
<1>4. /\ u \in J!CropUnit /\ u \in jCall[p].todo /\ u[1] \notin FloodOutside /\ J!CropIsWhole(p)
      /\ \A q \in Proc : jCall[q].unit \in jCall[q].todo => jCall[q].unit \in J!CropUnit
    BY <1>1 DEF J!IInv, J!CropIsWhole, J!Cropping, J!Call
<1>5. ASSUME NEW q \in Proc, q # p, J!Cropping(q), jCall[q].unit = u PROVE jRaced
    BY <1>5 DEF J!IInv, J!CropsAreApart
<1>6. \A q \in gone : jRaced
    BY <1>5 DEF J!Cropping
<1>7. J!TypeOK'
    BY <1>1, <1>2, <1>3 DEF J!IInv, J!TypeOK, Labels
<1>8. J!CropsAreApart'
    <2>1. \A q \in Proc : J!Cropping(q)' => J!Cropping(q)
        BY <1>2 DEF J!Cropping
    <2> QED BY <1>3, <2>1 DEF J!IInv, J!CropsAreApart
<1>9. ASSUME NEW q \in Proc PROVE J!CropIsWhole(q)'
    <2>1. CASE q = p
        BY <1>2, <1>4, <2>1 DEF J!CropIsWhole
    <2>2. CASE q # p
        <3>1. J!CropIsWhole(q) /\ jPc'[q] = jPc[q]
            BY <1>2, <2>2 DEF J!IInv
        <3>2. CASE jPc[q] = "writing"
            BY <1>3, <1>6, <3>1, <3>2 DEF J!CropIsWhole
        <3>3. CASE jPc[q] = "written"
            <4>1. CASE jCall[q].unit = u
                BY <1>3, <1>5, <2>2, <3>1, <3>3, <4>1 DEF J!CropIsWhole, J!Cropping
            <4>2. CASE jCall[q].unit # u
                BY <1>3, <1>4, <3>1, <3>3, <4>2 DEF J!CropIsWhole
            <4> QED BY <4>1, <4>2
        <3>4. CASE jPc[q] = "installed"
            <4>1. CASE jCall[q].unit = u
                BY <1>3, <3>1, <3>4, <4>1 DEF J!CropIsWhole
            <4>2. CASE jCall[q].unit # u
                BY <1>3, <1>4, <3>1, <3>4, <4>2 DEF J!CropIsWhole
            <4> QED BY <4>1, <4>2
        <3> QED BY <3>1, <3>2, <3>3, <3>4 DEF J!CropIsWhole
    <2> QED BY <2>1, <2>2
<1>10. ASSUME NEW q \in Proc
       PROVE  J!CallIsSound(q)' /\ J!AloneIsUndisturbed(q)' /\ J!LooksFirst(q)' /\ J!MadeAtTheEnd(q)'
    <2>1. CASE q = p
        <3>1. J!CallIsSound(p) /\ J!AloneIsUndisturbed(p) /\ jCall[p].made = FALSE
            BY <1>1 DEF J!IInv, J!MadeAtTheEnd, J!Call, J!Cropping
        <3>2. J!CallIsSound(p)'
            BY <1>2, <3>1 DEF J!CallIsSound, J!AreSound, J!Covers, J!PlanOf, J!Prepares, J!Cropping
        <3>3. J!AloneIsUndisturbed(p)'
            <4>1. /\ J!Prepares(p) /\ J!Prepares(p)' /\ jPc[p] # "idle"
                  /\ jPc'[p] \notin {"output", "look", "prepared", "done"}
                BY <1>2 DEF J!Prepares, J!Cropping
            <4>2. (\A q2 \in Proc \ {p} : ~J!Running(q2)) => \A q2 \in Proc \ {p} : ~J!Running(q2)'
                BY <1>2 DEF J!Running
            <4>3. \A v \in DOMAIN jCall[p].sums \ jCall[p].todo : v \in J!CropUnit /\ v # u
                BY <1>1, <1>4 DEF J!IsSums
            <4> QED BY <1>2, <3>1, <4>1, <4>2, <4>3 DEF J!AloneIsUndisturbed
        <3> QED BY <1>2, <2>1, <3>1, <3>2, <3>3 DEF J!LooksFirst, J!MadeAtTheEnd
    <2>2. CASE q # p
        <3>1. J!Running(p) /\ jPc'[q] = jPc[q]
            BY <1>2, <2>2 DEF J!Running, J!Cropping
        <3> QED BY <1>2, <1>3, <2>2, <3>1, OtherCropsStaySound
    <2> QED BY <2>1, <2>2
<1> QED BY <1>7, <1>8, <1>9, <1>10, RecordsStay DEF J!IInv

LEMMA CropWriteStep ==
    ASSUME J!CropAssumption, J!IInv, NEW p \in Proc, J!Write(p)
    PROVE  J!IInv'
<1> DEFINE u == jCall[p].unit
<1>1. /\ jPc[p] = "writing" /\ jPc' = [jPc EXCEPT ![p] = "written"] /\ J!Cropping(p)
      /\ UNCHANGED <<jRequests, jRevision, jRecord, jOutput, jRaced, jCall>>
    BY DEF J!Write, J!Goto, J!Cropping
<1>2. PICK content \in {J!Serves(J!PlanOf(p))} \cup IF jCall[p].shared THEN {Torn} ELSE {} :
        IF jCall[p].at = "staging"
        THEN jStaging' = [jStaging EXCEPT ![u] = content] /\ UNCHANGED jFile
        ELSE jFile' = [jFile EXCEPT ![u] = content] /\ UNCHANGED jStaging
    BY DEF J!Write
<1>3. /\ jCall[p] \in J!Call(jCall[p].sums) /\ J!CropIsWhole(p) /\ jCall = [q \in Proc |-> jCall[q]]
      /\ jFile \in [J!CropUnit -> J!Content] /\ jStaging \in [J!CropUnit -> J!Content]
    BY DEF J!IInv, J!TypeOK
<1>4. J!Serves(J!PlanOf(p)) \in Nat
    BY DEF J!Serves, J!IInv, J!TypeOK
<1>5. content \in J!Content /\ content # None /\ (content = Torn => jRaced)
    BY <1>1, <1>2, <1>3, <1>4 DEF J!Content, J!CropAssumption, J!CropIsWhole
<1>6. u \in J!CropUnit /\ (jCall[p].at # "staging" => jRaced)
    BY <1>1, <1>3 DEF J!CropIsWhole, J!Call
<1> DEFINE gone == {}
<1>7. /\ jCall' = [q \in Proc |-> IF q \in gone THEN [jCall[q] EXCEPT !.at = "file"] ELSE jCall[q]]
      /\ gone \subseteq Proc /\ \A q \in gone : q # p /\ jPc[q] = "writing" /\ jCall[q].unit = u
    BY <1>1, <1>3
<1>8. /\ jFile' \in [J!CropUnit -> J!Content] /\ jStaging' \in [J!CropUnit -> J!Content]
      /\ \A v \in J!CropUnit : v # u => jFile'[v] = jFile[v] /\ jStaging'[v] = jStaging[v]
      /\ jFile'[u] = jFile[u] \/ (jFile'[u] # None /\ (jFile'[u] = Torn => jRaced))
      /\ jStaging'[u] = Torn => jRaced
    <2>1. CASE jCall[p].at = "staging"
        BY <1>2, <1>3, <1>5, <1>6, <2>1
    <2>2. CASE jCall[p].at # "staging"
        BY <1>2, <1>3, <1>5, <1>6, <2>2
    <2> QED BY <2>1, <2>2
<1> HIDE DEF gone
<1> QED BY <1>1, <1>7, <1>8, CropAtItsFile

LEMMA CropInstallStep ==
    ASSUME J!CropAssumption, J!IInv, NEW p \in Proc, J!Install(p)
    PROVE  J!IInv'
<1> DEFINE u == jCall[p].unit
           gone == {q \in Proc : jPc[q] = "writing" /\ jCall[q].unit = u}
<1>1. /\ jPc[p] = "written" /\ J!Cropping(p)
      /\ UNCHANGED <<jRequests, jRevision, jRecord, jOutput, jRaced>>
    BY DEF J!Install, J!Cropping
<1>2. CASE jStaging[u] = None
    BY <1>1, <1>2, CropRaises DEF J!Install
<1>3. CASE jStaging[u] # None
    <2>1. /\ jFile' = [jFile EXCEPT ![u] = jStaging[u]]
          /\ jStaging' = [jStaging EXCEPT ![u] = None]
          /\ jCall' = [q \in Proc |-> IF jPc[q] = "writing" /\ jCall[q].unit = u
                                     THEN [jCall[q] EXCEPT !.at = "file"] ELSE jCall[q]]
          /\ jPc' = [jPc EXCEPT ![p] = "installed"]
        BY <1>3 DEF J!Install, J!Goto
    <2>2. /\ jCall[p] \in J!Call(jCall[p].sums) /\ J!CropIsWhole(p)
          /\ jFile \in [J!CropUnit -> J!Content] /\ jStaging \in [J!CropUnit -> J!Content]
        BY DEF J!IInv, J!TypeOK
    <2>3. u \in J!CropUnit /\ (jStaging[u] = Torn => jRaced)
        BY <1>1, <2>2 DEF J!CropIsWhole, J!Call
    <2>4. /\ jCall' = [q \in Proc |-> IF q \in gone THEN [jCall[q] EXCEPT !.at = "file"] ELSE jCall[q]]
          /\ gone \subseteq Proc /\ \A q \in gone : q # p /\ jPc[q] = "writing" /\ jCall[q].unit = u
        BY <1>1, <2>1
    <2>5. /\ jFile' \in [J!CropUnit -> J!Content] /\ jStaging' \in [J!CropUnit -> J!Content]
          /\ \A v \in J!CropUnit : v # u => jFile'[v] = jFile[v] /\ jStaging'[v] = jStaging[v]
          /\ jFile'[u] # None /\ (jFile'[u] = Torn => jRaced)
        BY <1>3, <2>1, <2>2, <2>3 DEF J!Content
    <2> HIDE DEF gone
    <2> QED BY <1>1, <2>1, <2>4, <2>5, CropAtItsFile
<1> QED BY <1>2, <1>3

LEMMA CropFailsStep ==
    ASSUME J!CropAssumption, J!IInv, NEW p \in Proc, J!Fails(p)
    PROVE  J!IInv'
<1>1. /\ J!Raise(p) /\ UNCHANGED <<jRequests, jRevision, jFile, jRecord, jOutput, jRaced>>
      /\ jStaging' = [u \in J!CropUnit |-> IF u = jCall[p].unit /\ \A q \in Proc \ {p} : jCall[q].unit # u
                                      THEN None ELSE jStaging[u]]
    BY DEF J!Fails
<1>2. jStaging \in [J!CropUnit -> J!Content] /\ None \in J!Content
    BY DEF J!IInv, J!TypeOK, J!Content
<1>3. jStaging' \in [J!CropUnit -> J!Content] /\ \A u \in J!CropUnit : jStaging'[u] \in {jStaging[u], None}
    BY <1>1, <1>2
<1> QED BY <1>1, <1>3, CropEnds

\* Nobody is alone who is not running when a file is lost.
LEMMA CropFileIsLost ==
    ASSUME J!CropAssumption, J!IInv, J!Lose
    PROVE  J!IInv'
<1> DEFINE other(q) == [jCall[q] EXCEPT !.alone = FALSE]
<1>1. /\ \A p \in Proc : ~J!Running(p)
      /\ jCall' = [p \in Proc |-> other(p)]
      /\ UNCHANGED <<jRequests, jRevision, jStaging, jRecord, jOutput, jRaced, jPc>>
    BY DEF J!Lose
<1>2. jFile' \in [J!CropUnit -> J!Content]
    BY DEF J!Lose, J!IInv, J!TypeOK, J!Content
<1>3. \A q \in Proc : jCall[q] \in J!Call(jCall[q].sums) /\ J!IsSums(jCall[q].sums)
    BY DEF J!IInv, J!TypeOK
<1>4. ASSUME NEW q \in Proc
      PROVE  /\ jCall'[q] \in J!Call(jCall[q].sums) /\ jCall'[q].sums = jCall[q].sums
             /\ jCall'[q].plan = jCall[q].plan /\ jCall'[q].op = jCall[q].op
             /\ jCall'[q].todo = jCall[q].todo /\ jCall'[q].made = jCall[q].made
             /\ ~jCall'[q].alone
    <2>1. jCall'[q] = [jCall[q] EXCEPT !.alone = FALSE]
        BY <1>1
    <2> QED BY <1>3, <2>1 DEF J!Call
<1>5. jCall' = [q \in Proc |-> jCall'[q]]
    BY <1>1
<1>6. J!TypeOK'
    BY <1>1, <1>2, <1>3, <1>4, <1>5 DEF J!IInv, J!TypeOK
<1>7. \A p \in Proc : jPc'[p] = jPc[p] /\ jPc[p] \in {"idle", "done"}
    BY <1>1 DEF J!Running
<1>8. J!CropsAreApart'
    BY <1>7 DEF J!CropsAreApart, J!Cropping
<1>9. ASSUME NEW p \in Proc
      PROVE  /\ J!CropIsWhole(p)' /\ J!CallIsSound(p)' /\ J!AloneIsUndisturbed(p)'
             /\ J!LooksFirst(p)' /\ J!MadeAtTheEnd(p)'
    <2>1. J!CallIsSound(p) /\ J!MadeAtTheEnd(p)
        BY DEF J!IInv
    <2>2. J!CropIsWhole(p)' /\ J!AloneIsUndisturbed(p)' /\ J!LooksFirst(p)' /\ J!MadeAtTheEnd(p)'
        BY <1>4, <1>7, <2>1 DEF J!CropIsWhole, J!AloneIsUndisturbed, J!LooksFirst, J!MadeAtTheEnd
    <2>3. J!CallIsSound(p)'
        BY <1>1, <1>4, <1>7, <2>1 DEF J!CallIsSound, J!Prepares, J!AreSound, J!Covers, J!PlanOf
    <2> QED BY <2>2, <2>3
<1> QED BY <1>1, <1>6, <1>8, <1>9, RecordsStay DEF J!IInv

LEMMA CropsWait ==
    ASSUME J!IInv, UNCHANGED <<jRequests, J!disk, jRaced, jPc, jCall>>, jRevision' \in Nat
    PROVE  J!IInv'
<1>1. UNCHANGED <<jRequests, jFile, jStaging, jRecord, jOutput, jRaced, jPc, jCall>>
    BY DEF J!disk
<1>2. J!TypeOK'
    BY <1>1 DEF J!IInv, J!TypeOK
<1>3. J!CropsAreApart' /\ \A plan \in J!Plan : J!RecordIsSound(plan)'
    BY <1>1 DEF J!IInv, J!CropsAreApart, J!Cropping, J!RecordIsSound, J!AreSound
<1>4. ASSUME NEW p \in Proc
      PROVE  /\ J!CropIsWhole(p)' /\ J!CallIsSound(p)' /\ J!AloneIsUndisturbed(p)'
             /\ J!LooksFirst(p)' /\ J!MadeAtTheEnd(p)'
    BY <1>1 DEF J!IInv, J!CropIsWhole, J!CallIsSound, J!Prepares, J!AreSound, J!PlanOf, J!AloneIsUndisturbed,
                J!Running, J!LooksFirst, J!MadeAtTheEnd
<1> QED BY <1>2, <1>3, <1>4 DEF J!IInv

LEMMA CropsNext == J!CropAssumption /\ J!IInv /\ [J!Next]_(J!vars) => J!IInv'
<1> SUFFICES ASSUME J!CropAssumption, J!IInv, [J!Next]_(J!vars) PROVE J!IInv'
    OBVIOUS
<1>1. ASSUME NEW p \in Proc, J!Start(p) PROVE J!IInv'
    BY <1>1, CropStartStep
<1>2. ASSUME NEW p \in Proc, J!Step(p) PROVE J!IInv'
    BY <1>2, CropServedStep, CropLookOfflineStep, CropLookOnlineStep, CropOneFile, CropWriteStep, CropInstallStep,
       CropChecksumStep, CropWriteRecordStep, CropPrefetchedStep, CropMaterializeStep, CropFailsStep DEF J!Step
<1>3. ASSUME NEW p \in Proc, J!Return(p) PROVE J!IInv'
    BY <1>3, CropRaises DEF J!Return, J!disk
<1>4. CASE J!Lose
    BY <1>4, CropFileIsLost
<1>5. CASE J!Republish
    <2>1. jRevision' \in Nat
        BY <1>5 DEF J!Republish, J!IInv, J!TypeOK
    <2> QED BY <1>5, <2>1, CropsWait DEF J!Republish
<1>6. CASE UNCHANGED J!vars
    <2>1. jRevision' \in Nat
        BY <1>6 DEF J!vars, J!IInv, J!TypeOK
    <2> QED BY <1>6, <2>1, CropsWait DEF J!vars
<1> QED BY <1>1, <1>2, <1>3, <1>4, <1>5, <1>6 DEF J!Next

LEMMA CropsInvariance == J!Spec => []J!IInv
<1>1. J!Init => J!IInv
    BY Assumptions, CropsInit
<1>2. J!IInv /\ [J!Next]_(J!vars) => J!IInv'
    BY Assumptions, CropsNext
<1> QED BY <1>1, <1>2, PTL DEF J!Spec

LEMMA SoundCropsAreHonest == J!CropAssumption /\ J!IInv => J!CropsAreHonest
<1> SUFFICES ASSUME J!CropAssumption, J!IInv, NEW p \in Proc, jPc[p] = "done", jCall[p].alone,
                    jCall[p].op = "prefetch" \/ jCall[p].made
             PROVE  LET m == jRecord[J!PlanOf(p)] IN
                    /\ m # None
                    /\ \A u \in DOMAIN m :
                        /\ jFile[u] = m[u] /\ jFile[u] # None /\ u[1] \notin FloodOutside
                        /\ jFile[u] = Torn => jRaced
                        /\ \A part \in J!PlanOf(p).parts : <<u[1], part>> \in DOMAIN m
                    /\ J!PlanOf(p).kind = "flood" => \A s \in FloodTiles \ FloodOutside : \E u \in DOMAIN m : u[1] = s
                    /\ jCall[p].made => jOutput[J!PlanOf(p)] = m
                    /\ jCall[p].mode # "refresh" /\ jCall[p].told # {} => DOMAIN m = jCall[p].told
    BY DEF J!CropsAreHonest
<1> DEFINE m == jRecord[J!PlanOf(p)]
<1>1. J!Prepares(p)
    BY DEF J!Prepares
<1>2. J!CallIsSound(p) /\ J!AloneIsUndisturbed(p) /\ J!IsSums(jCall[p].sums)
    BY DEF J!IInv, J!TypeOK
<1>3. jCall[p].todo = {} /\ J!AreSound(jCall[p].sums) /\ J!Covers(J!PlanOf(p), DOMAIN jCall[p].sums \cup {})
    BY <1>1, <1>2 DEF J!CallIsSound
<1>4. /\ m = jCall[p].sums /\ (jCall[p].made => jOutput[J!PlanOf(p)] = m)
      /\ \A u \in DOMAIN m : jFile[u] = m[u]
      /\ jCall[p].mode # "refresh" /\ jCall[p].told # {} => DOMAIN m = jCall[p].told
    BY <1>1, <1>2, <1>3 DEF J!AloneIsUndisturbed, J!PlanOf
<1>5. m # None
    BY <1>2, <1>4, SumsAreThere
<1> HIDE DEF m
<1>6. J!AreSound(m) /\ J!Covers(J!PlanOf(p), DOMAIN m)
    BY <1>3, <1>4
<1> QED BY <1>4, <1>5, <1>6 DEF J!AreSound, J!Covers, m

-----------------------------------------------------------------------------
(***************************************************************************)
(* Coverage: a cell is classified once, in the file of its kind, and the   *)
(* lookup is made of the merged rows.                                      *)
(***************************************************************************)

-----------------------------------------------------------------------------
(* Batches. *)

UpTo(rest, c) == {d \in rest : d <= c}

\* The next cells are the first of those that are left, and a batch that is not
\* full is all of them.
LEMMA BatchesAreInOrder ==
    ASSUME NEW rest, rest \subseteq Nat, IsFiniteSet(rest), NEW n \in Nat \ {0},
           NEW next \in SUBSET rest,
           \A c \in rest : c \in next <=> Cardinality(UpTo(rest, c)) <= n
    PROVE  /\ \A c \in next, d \in rest : d <= c => d \in next
           /\ Cardinality(next) # n => next = rest
           /\ next # {} => Max(next) \in next /\ \A c \in next : c <= Max(next)
<1>0. next \subseteq rest /\ \A c \in rest : c \in Nat /\ (c \in next <=> Cardinality(UpTo(rest, c)) <= n)
    OBVIOUS
<1>1. \A c : IsFiniteSet(UpTo(rest, c)) /\ Cardinality(UpTo(rest, c)) \in Nat
    <2> TAKE c
    <2>1. UpTo(rest, c) \subseteq rest
        BY DEF UpTo
    <2> QED BY <2>1, FS_Subset, FS_CardinalityType
<1>2. IsFiniteSet(next) /\ Cardinality(next) \in Nat
    BY <1>0, FS_Subset, FS_CardinalityType
<1>3. ASSUME NEW c \in next, NEW d \in rest, d <= c PROVE d \in next
    <2>0. c \in Nat /\ d \in Nat
        BY <1>0
    <2>1. UpTo(rest, d) \subseteq UpTo(rest, c)
        <3>1. ASSUME NEW e \in rest, e <= d PROVE e <= c
            <4>1. e \in Nat
                BY <1>0
            <4> QED BY <1>3, <2>0, <3>1, <4>1
        <3> QED BY <3>1 DEF UpTo
    <2>2. Cardinality(UpTo(rest, d)) <= Cardinality(UpTo(rest, c))
        BY <1>1, <2>1, FS_Subset
    <2>3. Cardinality(UpTo(rest, c)) <= n
        BY <1>0
    <2>4. Cardinality(UpTo(rest, d)) <= n
        BY <1>1, <2>2, <2>3
    <2> QED BY <1>0, <2>4
<1>4. ASSUME next # {} PROVE Max(next) \in next /\ \A c \in next : c <= Max(next)
    <2>1. next \in SUBSET Int /\ \A c \in next : c \in Int
        <3>1. \A c \in next : c \in Int
            BY <1>0
        <3> QED BY <3>1
    <2>2. \E x \in next : \A y \in next : y <= x
        BY <1>2, <1>4, <2>1, FiniteBounds
    <2>3. \E x \in next : \A y \in next : x >= y
        BY <2>1, <2>2
    <2>4. Max(next) \in next /\ \A y \in next : Max(next) >= y
        BY <2>3 DEF Max
    <2> QED BY <2>1, <2>4
<1>5. ASSUME Cardinality(next) # n, next # rest PROVE FALSE
    <2> DEFINE left == rest \ next
    <2>1. left \in SUBSET Nat /\ left # {}
        BY <1>0, <1>5
    <2>2. PICK m \in left : \A y \in left : m <= y
        <3> HIDE DEF left
        <3> QED BY <2>1, LeastOf
    <2>3. m \in rest /\ m \notin next /\ m \in Nat
        BY <2>2
    <2>4. UpTo(rest, m) \subseteq next \cup {m}
        <3>1. ASSUME NEW d \in rest, d <= m, d # m PROVE d \in next
            <4>1. d \in Nat /\ ~(m <= d)
                BY <2>3, <3>1
            <4> QED BY <2>2, <4>1
        <3> QED BY <3>1 DEF UpTo
    <2>5. Cardinality(UpTo(rest, m)) > n
        BY <1>0, <1>1, <2>3
    <2>6. IsFiniteSet(next \cup {m}) /\ Cardinality(next \cup {m}) = Cardinality(next) + 1
        BY <1>2, <2>3, FS_AddElement
    <2>7. Cardinality(UpTo(rest, m)) <= Cardinality(next) + 1
        <3> DEFINE more == next \cup {m}
        <3> HIDE DEF more
        <3>1. UpTo(rest, m) \subseteq more /\ IsFiniteSet(more) /\ Cardinality(more) = Cardinality(next) + 1
            BY <2>4, <2>6 DEF more
        <3>2. Cardinality(UpTo(rest, m)) <= Cardinality(more)
            BY <3>1, FS_Subset
        <3> QED BY <3>1, <3>2
    <2>8. Cardinality(next) > n
        BY <1>1, <1>2, <1>5, <2>5, <2>7
    <2>9. next # {}
        <3>1. Cardinality({}) = 0
            BY FS_EmptySet
        <3> QED BY <2>8, <3>1
    <2>10. Max(next) \in next /\ \A c \in next : c <= Max(next)
        BY <1>4, <2>9
    <2>11. UpTo(rest, Max(next)) = next
        <3>1. \A d \in next : d \in rest /\ d <= Max(next)
            BY <1>0, <2>10
        <3>2. \A d \in rest : d <= Max(next) => d \in next
            BY <1>3, <2>10
        <3> QED BY <3>1, <3>2 DEF UpTo
    <2>12. Cardinality(UpTo(rest, Max(next))) <= n
        BY <1>0, <2>10
    <2> QED BY <1>2, <2>8, <2>11, <2>12
<1> QED BY <1>3, <1>4, <1>5

\* A batch takes the edges as far as its last cell; the last batch takes all.
LEMMA BatchTakesEdges ==
    ASSUME last \in Nat, batch \in Nat \ {0}
    PROVE  LET found == {c \in BatchOf : IsEdge(c)}
               to == IF BatchOf = {} THEN last ELSE Max(BatchOf)
           IN  /\ {c \in Edges : c <= last} \cup found = {c \in Edges : c <= to}
               /\ to \in Nat
               /\ Cardinality(BatchOf) # batch =>
                    {c \in Edges : c <= last} \cup found = Edges
<1> DEFINE rest == {c \in ToClassify : c > last}
           to == IF BatchOf = {} THEN last ELSE Max(BatchOf)
           found == {c \in BatchOf : IsEdge(c)}
<1>1. ToClassify \subseteq Cell
    BY DEF ToClassify, Singles, Candidates
<1>2. Cell \subseteq Nat /\ IsFiniteSet(Cell)
    BY CoverageAssumption
<1>3. rest \subseteq Nat /\ IsFiniteSet(rest)
    <2>1. rest \subseteq Cell
        BY <1>1
    <2> HIDE DEF rest
    <2> QED BY <1>2, <2>1, FS_Subset
<1>4. BatchOf = {c \in rest : Cardinality(UpTo(rest, c)) <= batch}
    BY DEF BatchOf, UpTo
<1> HIDE DEF rest
<1>5. /\ \A c \in BatchOf, d \in rest : d <= c => d \in BatchOf
      /\ Cardinality(BatchOf) # batch => BatchOf = rest
      /\ BatchOf # {} => Max(BatchOf) \in BatchOf /\ \A c \in BatchOf : c <= Max(BatchOf)
    <2>1. BatchOf \in SUBSET rest /\ \A c \in rest : c \in BatchOf <=> Cardinality(UpTo(rest, c)) <= batch
        BY <1>4
    <2> QED BY <1>3, <2>1, BatchesAreInOrder
<1>6. BatchOf \subseteq rest
    BY <1>4
<1>7. \A c : c \in rest <=> c \in ToClassify /\ c > last
    BY DEF rest
<1>8. to \in Nat /\ \A c \in ToClassify : c <= to <=> c <= last \/ c \in BatchOf
    <2>1. CASE BatchOf = {}
        BY <2>1
    <2>2. CASE BatchOf # {}
        <3>1. to = Max(BatchOf) /\ to \in rest /\ to \in BatchOf /\ \A c \in BatchOf : c <= to
            BY <1>5, <1>6, <2>2
        <3> HIDE DEF to
        <3>2. to \in Nat /\ to > last
            BY <1>3, <1>7, <3>1
        <3>3. \A c \in ToClassify : c \in Nat
            BY <1>1, <1>2
        <3>4. \A c \in ToClassify : c <= to /\ ~(c <= last) => c \in BatchOf
            BY <1>5, <1>7, <3>1, <3>3
        <3>5. \A c \in ToClassify : c <= last => c <= to
            BY <3>2, <3>3
        <3> QED BY <3>1, <3>2, <3>4, <3>5
    <2> QED BY <2>1, <2>2
<1> HIDE DEF to
<1>9. {c \in Edges : c <= last} \cup found = {c \in Edges : c <= to}
    BY <1>6, <1>7, <1>8 DEF Edges
<1>10. Cardinality(BatchOf) # batch => {c \in Edges : c <= last} \cup found = Edges
    <2>1. \A c \in ToClassify : c \in Nat
        BY <1>1, <1>2
    <2>2. \A c \in ToClassify : ~(c <= last) => c > last
        BY <2>1
    <2> QED BY <1>5, <1>7, <2>2 DEF Edges
<1> QED BY <1>8, <1>9, <1>10 DEF to

-----------------------------------------------------------------------------
(* The files. *)

\* What rows and edges are made of does not change under a call.
LEMMA RowsStay ==
    ASSUME UNCHANGED <<poly, parentShape, hierarchy>>
    PROVE  /\ Candidates' = Candidates /\ Singles' = Singles /\ Competing' = Competing
           /\ ToClassify' = ToClassify /\ Edges' = Edges
           /\ InteriorRows' = InteriorRows /\ ContainedRows' = ContainedRows
           /\ Clippings' = Clippings
<1>1. Candidates' = Candidates
    BY DEF Candidates
<1>2. Singles' = Singles /\ Competing' = Competing
    BY <1>1 DEF Singles, Competing, Count
<1>3. ToClassify' = ToClassify
    BY <1>2 DEF ToClassify, Interior
<1>4. Edges' = Edges
    BY <1>2, <1>3 DEF Edges, IsEdge, Contained
<1>5. InteriorRows' = InteriorRows
    BY <1>2 DEF InteriorRows, Interior, Whole, Row
<1>6. ContainedRows' = ContainedRows
    BY <1>2, <1>4 DEF ContainedRows, Interior, Whole, Row
<1>7. Clippings' = Clippings
    BY <1>2, <1>4 DEF Clippings, Clipped, Row
<1> QED BY <1>1, <1>2, <1>3, <1>4, <1>5, <1>6, <1>7

\* What the merge would write depends on nothing but the shapes and the mode.
LEMMA MergedStays ==
    ASSUME UNCHANGED <<poly, parentShape, hierarchy>>
    PROVE  Merged' = Merged
BY RowsStay DEF Merged

\* Every relation a step creates was dropped before, but for the candidates,
\* which the end of each call drops.
LEMMA NothingCollides ==
    ASSUME IInv, [Next]_vars
    PROVE  (pc \in {"idle", "done"} => "candidates" \notin relations)' /\ NoCollision'
<1> USE DEF IInv, NoCollision
<1>1. CASE UNCHANGED vars
    BY <1>1 DEF vars
<1>2. CASE Start
    BY <1>2 DEF Start, Create
<1>3. CASE CountCells
    BY <1>3 DEF CountCells, Create
<1>4. CASE ClassifyParents
    BY <1>4 DEF ClassifyParents, Create
<1>5. CASE WriteInterior
    BY <1>5 DEF WriteInterior, Create
<1>6. CASE SetUpEdges
    BY <1>6 DEF SetUpEdges, Create
<1>7. CASE ClassifyBatch
    BY <1>7 DEF ClassifyBatch, Create
<1>8. CASE WriteContained
    BY <1>8 DEF WriteContained, Create
<1>9. CASE MaterializeNeeded
    BY <1>9 DEF MaterializeNeeded, Create
<1>10. CASE WriteExact
    BY <1>10 DEF WriteExact
<1>11. CASE Merge
    BY <1>11 DEF Merge, Finally, Private, FlatPrivate
<1>12. CASE Fails
    BY <1>12 DEF Fails, Finally, Private, FlatPrivate
<1>13. CASE DeriveLookup
    BY <1>13 DEF DeriveLookup
<1> QED BY <1>1, <1>2, <1>3, <1>4, <1>5, <1>6, <1>7, <1>8, <1>9, <1>10, <1>11, <1>12, <1>13 DEF Next

\* A relation that is created leaves the step where it goes next.
LEMMA CreateGoes ==
    ASSUME NEW drops, NEW names, NEW next, Create(drops, names, next), NoCollision'
    PROVE  pc' = next
BY DEF Create, NoCollision

LEMMA CoverageInitial == Init => IInv
<1> SUFFICES ASSUME Init PROVE IInv
    OBVIOUS
<1>1. batch \in Nat \ {0}
    BY CoverageAssumption DEF Init
<1>2. FilesOK
    BY DEF Init, FilesOK, NoFiles
<1> QED BY <1>1, <1>2 DEF Init, IInv, NoCollision

\* Each step of a call keeps the invariant: the files fill in their order, the edges
\* batch by batch.
LEMMA CoverageInductive == IInv /\ [Next]_vars => IInv'
<1> SUFFICES ASSUME IInv, [Next]_vars PROVE IInv'
    OBVIOUS
<1> DEFINE Quiet == UNCHANGED <<poly, parentShape, hierarchy, batch>>
<1>0. NoCollision' /\ (pc \in {"idle", "done"} => "candidates" \notin relations)'
    BY NothingCollides
<1>1. Quiet => /\ Singles' = Singles /\ Competing' = Competing
               /\ ToClassify' = ToClassify /\ Edges' = Edges
               /\ InteriorRows' = InteriorRows /\ ContainedRows' = ContainedRows
               /\ Clippings' = Clippings /\ Merged' = Merged
    BY RowsStay, MergedStays
<1>2. ASSUME FilesOK', (pc = "done" => out = Merged)', Quiet,
             (lookup = {} \/ (pc = "done" /\ lookup = Nestings))'
      PROVE  IInv'
    BY <1>0, <1>2 DEF IInv
<1>3. ASSUME lookup' = lookup, pc # "done" PROVE lookup' = {}
    BY <1>3 DEF IInv
<1>4. CASE UNCHANGED vars
    <2>1. Quiet /\ UNCHANGED <<pc, relations, last, edges, files, out, lookup>>
        BY <1>4 DEF vars, inputs
    <2>2. FilesOK'
        BY <1>1, <2>1 DEF IInv, FilesOK
    <2>3. Nestings' = Nestings
        BY <2>1 DEF Nestings, NestedRow, RowsOf, Best, Rollup, InCountry, UnitsOf, Least1
    <2> QED BY <1>1, <1>2, <2>1, <2>2, <2>3 DEF IInv
<1>5. CASE Start
    <2>1. pc' = "count" /\ files' = NoFiles /\ out' = {} /\ lookup' = {}
        BY <1>0, <1>5, CreateGoes DEF Start
    <2>2. FilesOK'
        BY <2>1 DEF FilesOK, NoFiles
    <2>3. hierarchy' \in BOOLEAN /\ UNCHANGED <<poly, batch>>
        BY <1>5 DEF Start
    <2> QED BY <1>0, <2>1, <2>2, <2>3 DEF IInv
<1>6. CASE CountCells
    <2>1. /\ pc = "count" /\ pc' = IF hierarchy THEN "classify" ELSE "edges"
          /\ Quiet /\ UNCHANGED <<last, edges, files, out, lookup>>
        BY <1>0, <1>6, CreateGoes DEF CountCells, Keep, inputs
    <2>2. FilesOK'
        BY <1>1, <2>1 DEF IInv, FilesOK, InteriorRows
    <2> QED BY <1>2, <1>3, <2>1, <2>2
<1>7. CASE ClassifyParents
    <2>1. /\ pc = "classify" /\ pc' = "interior"
          /\ Quiet /\ UNCHANGED <<last, edges, files, out, lookup>>
        BY <1>0, <1>7, CreateGoes DEF ClassifyParents, Keep, inputs
    <2>2. FilesOK'
        BY <2>1 DEF IInv, FilesOK
    <2> QED BY <1>2, <1>3, <2>1, <2>2
<1>8. CASE WriteInterior
    <2>1. /\ pc = "interior" /\ pc' = "edges"
          /\ Quiet /\ UNCHANGED <<last, edges, out, lookup>>
        BY <1>0, <1>8, CreateGoes DEF WriteInterior, inputs
    <2>2. hierarchy
        BY <2>1 DEF IInv, FilesOK
    <2>3. files' = [files EXCEPT !.interior = InteriorRows]
        BY <1>8, <2>2 DEF WriteInterior, InteriorRows
    <2>4. FilesOK'
        BY <1>1, <2>1, <2>3 DEF IInv, FilesOK
    <2> QED BY <1>2, <1>3, <2>1, <2>4
<1>9. CASE SetUpEdges
    <2>1. /\ pc = "edges"
          /\ pc' = IF ToClassify # {} THEN "batch" ELSE IF hierarchy THEN "contained" ELSE "needed"
          /\ last' = 0 /\ edges' = {}
          /\ Quiet /\ UNCHANGED <<files, out, lookup>>
        BY <1>0, <1>9, CreateGoes DEF SetUpEdges, inputs
    <2>2. \A c \in Edges : c \in ToClassify /\ ~(c <= 0)
        <3>1. \A c \in Edges : c \in ToClassify /\ c \in Cell
            BY DEF Edges, ToClassify, Singles, Candidates
        <3>2. \A c \in Cell : c \in Nat \ {0}
            BY CoverageAssumption
        <3> QED BY <3>1, <3>2
    <2>3. FilesOK'
        BY <1>1, <2>1, <2>2 DEF IInv, FilesOK
    <2> QED BY <1>2, <1>3, <2>1, <2>3
<1>10. CASE ClassifyBatch
    <2> DEFINE found == {c \in BatchOf : IsEdge(c)}
    <2>1. /\ pc = "batch"
          /\ pc' = IF Cardinality(BatchOf) = batch THEN "batch"
                   ELSE IF hierarchy THEN "contained" ELSE "needed"
          /\ edges' = edges \cup found
          /\ last' = IF BatchOf = {} THEN last ELSE Max(BatchOf)
          /\ Quiet /\ UNCHANGED <<files, out, lookup>>
        BY <1>0, <1>10, CreateGoes DEF ClassifyBatch, inputs, IsEdge
    <2>2. last \in Nat /\ edges = {c \in Edges : c <= last} /\ batch \in Nat \ {0}
        BY <2>1 DEF IInv, FilesOK
    <2>3. /\ edges' = {c \in Edges : c <= last'} /\ last' \in Nat
          /\ Cardinality(BatchOf) # batch => edges' = Edges
        BY <2>1, <2>2, BatchTakesEdges
    <2> HIDE DEF found
    <2>4. FilesOK'
        BY <1>1, <2>1, <2>3 DEF IInv, FilesOK
    <2> QED BY <1>2, <1>3, <2>1, <2>4
<1>11. CASE WriteContained
    <2>1. /\ pc = "contained" /\ pc' = "needed"
          /\ Quiet /\ UNCHANGED <<last, edges, out, lookup>>
        BY <1>0, <1>11, CreateGoes DEF WriteContained, inputs
    <2>2. hierarchy /\ edges = Edges
        BY <2>1 DEF IInv, FilesOK
    <2>3. files' = [files EXCEPT !.contained = ContainedRows]
        BY <1>11, <2>2 DEF WriteContained, ContainedRows
    <2>4. FilesOK'
        BY <1>1, <2>1, <2>2, <2>3 DEF IInv, FilesOK
    <2> QED BY <1>2, <1>3, <2>1, <2>4
<1>12. CASE MaterializeNeeded
    <2>1. /\ pc = "needed" /\ pc' = "exact"
          /\ Quiet /\ UNCHANGED <<last, edges, files, out, lookup>>
        BY <1>0, <1>12, CreateGoes DEF MaterializeNeeded, Keep, inputs
    <2>2. FilesOK'
        BY <1>1, <2>1 DEF IInv, FilesOK
    <2> QED BY <1>2, <1>3, <2>1, <2>2
<1>13. CASE WriteExact
    <2>1. /\ pc = "exact" /\ pc' = "merge"
          /\ Quiet /\ UNCHANGED <<last, edges, out, lookup>>
        BY <1>13 DEF WriteExact, inputs
    <2>2. edges = Edges
        BY <2>1 DEF IInv, FilesOK
    <2>3. {y \in Competing : y[1] \in Needed} = Competing
        BY DEF Needed
    <2>4. ~hierarchy => {Whole(x[1], x[2]) : x \in {y \in Singles : y[1] \notin edges}} = ContainedRows
        BY <2>2 DEF ContainedRows
    <2>5. files' = [files EXCEPT !.exact = Clippings,
                                 !.contained = IF hierarchy THEN @ ELSE ContainedRows]
        BY <1>13, <2>2, <2>3, <2>4 DEF WriteExact, Clippings
    <2>6. FilesOK'
        BY <1>1, <2>1, <2>5 DEF IInv, FilesOK
    <2> QED BY <1>2, <1>3, <2>1, <2>6
<1>14. CASE Merge
    <2>1. /\ pc = "merge" /\ pc' = "done"
          /\ Quiet /\ UNCHANGED <<last, edges, files, lookup>>
          /\ out' = UNION {{<<f, r>> : r \in files[f]} : f \in DOMAIN files}
        BY <1>14 DEF Merge, inputs
    <2>2. files = [interior |-> InteriorRows, contained |-> ContainedRows, exact |-> Clippings]
        BY <2>1 DEF IInv, FilesOK
    <2>3. DOMAIN files = {"interior", "contained", "exact"}
        BY <2>2
    <2>4. /\ files["interior"] = InteriorRows /\ files["contained"] = ContainedRows
          /\ files["exact"] = Clippings
        BY <2>2
    <2>5. out' = Merged
        BY <2>1, <2>3, <2>4 DEF Merged
    <2>6. FilesOK'
        BY <2>1 DEF IInv, FilesOK
    <2> QED BY <1>1, <1>2, <1>3, <2>1, <2>5, <2>6
<1>15. CASE Fails
    <2>1. /\ pc # "done" /\ pc' = "idle" /\ files' = NoFiles
          /\ Quiet /\ UNCHANGED <<out, lookup>>
        BY <1>15 DEF Fails, inputs
    <2>2. FilesOK'
        BY <2>1 DEF FilesOK, NoFiles
    <2> QED BY <1>2, <1>3, <2>1, <2>2
<1>16. CASE DeriveLookup
    <2>1. /\ pc = "done" /\ pc' = "done" /\ lookup' = Nestings
          /\ Quiet /\ UNCHANGED <<last, edges, files, out>>
        BY <1>16 DEF DeriveLookup, inputs
    <2>2. FilesOK'
        BY <2>1 DEF IInv, FilesOK
    <2>3. Nestings' = Nestings
        BY <2>1 DEF Nestings, NestedRow, RowsOf, Best, Rollup, InCountry, UnitsOf, Least1
    <2> QED BY <1>1, <1>2, <2>1, <2>2, <2>3 DEF IInv
<1> QED BY <1>4, <1>5, <1>6, <1>7, <1>8, <1>9, <1>10, <1>11, <1>12, <1>13, <1>14, <1>15, <1>16 DEF Next

LEMMA CoverageInvariance == Spec => []IInv
<1> QED BY CoverageInitial, CoverageInductive, PTL DEF Spec

-----------------------------------------------------------------------------
(* The merged rows. *)

\* A single cell touches one polygon.
LEMMA SinglesAreOne ==
    ASSUME NEW c, NEW p, NEW q, <<c, p>> \in Singles, <<c, q>> \in Candidates
    PROVE  p = q
<1> DEFINE touched == {r \in Poly : <<c, r>> \in Candidates}
<1>1. Cardinality(touched) = 1
    BY DEF Singles, Count
<1>2. p \in touched /\ q \in touched
    BY DEF Singles, Candidates
<1>3. IsFiniteSet(touched)
    <2>1. touched \subseteq Poly /\ IsFiniteSet(Poly)
        BY CoverageAssumption DEF Poly
    <2> HIDE DEF touched
    <2> QED BY <2>1, FS_Subset
<1> HIDE DEF touched
<1>4. \E r : touched = {r}
    BY <1>1, <1>3, FS_Singleton
<1> QED BY <1>2, <1>4

\* A row is of a cell and a polygon that overlap; where children lie in their
\* parents it has the units they share.
LEMMA RowsAreOfCandidates ==
    /\ \A r \in InteriorRows : \E c \in Cell, p \in Poly :
            hierarchy /\ <<c, p>> \in Singles /\ Interior(c, p) /\ r = Whole(c, p)
    /\ \A r \in ContainedRows : \E c \in Cell, p \in Poly :
            /\ <<c, p>> \in Singles /\ (hierarchy => ~Interior(c, p))
            /\ c \notin Edges /\ r = Whole(c, p)
    /\ \A r \in Clippings : \E c \in Cell, p \in Poly :
            ((<<c, p>> \in Singles /\ c \in Edges) \/ <<c, p>> \in Competing) /\ r = Clipped(c, p)
<1>1. \A x \in Candidates : x = <<x[1], x[2]>> /\ x[1] \in Cell /\ x[2] \in Poly
    BY DEF Candidates
<1>2. Singles \subseteq Candidates /\ Competing \subseteq Candidates
    BY DEF Singles, Competing
<1>3. \A r \in InteriorRows : \E c \in Cell, p \in Poly :
            hierarchy /\ <<c, p>> \in Singles /\ Interior(c, p) /\ r = Whole(c, p)
    BY <1>1, <1>2 DEF InteriorRows
<1>4. \A r \in ContainedRows : \E c \in Cell, p \in Poly :
            /\ <<c, p>> \in Singles /\ (hierarchy => ~Interior(c, p))
            /\ c \notin Edges /\ r = Whole(c, p)
    BY <1>1, <1>2 DEF ContainedRows
<1>5. \A r \in Clippings : \E c \in Cell, p \in Poly :
            ((<<c, p>> \in Singles /\ c \in Edges) \/ <<c, p>> \in Competing) /\ r = Clipped(c, p)
    BY <1>1, <1>2 DEF Clippings
<1> QED BY <1>3, <1>4, <1>5

\* Where the cell lies in the polygon the whole cell is what they share.
LEMMA WholeIsClipped ==
    ASSUME NEW c, NEW p, Shape[c] \subseteq poly[p]
    PROVE  Whole(c, p) = Clipped(c, p)
<1>1. Shape[c] \cap poly[p] = Shape[c]
    OBVIOUS
<1> QED BY <1>1 DEF Whole, Clipped

\* A whole row is of a cell in its polygon.
LEMMA WholesAreInside ==
    ASSUME hierarchy => Nested, NEW c \in Cell, NEW p \in Poly, <<c, p>> \in Singles,
           (hierarchy /\ Interior(c, p)) \/ ((hierarchy => ~Interior(c, p)) /\ c \notin Edges)
    PROVE  Shape[c] \subseteq poly[p]
<1>1. CASE hierarchy /\ Interior(c, p)
    BY <1>1 DEF Nested, Interior
<1>2. CASE (hierarchy => ~Interior(c, p)) /\ c \notin Edges
    <2>1. c \in ToClassify
        <3> DEFINE x == <<c, p>>
        <3>1. x \in Singles /\ x[1] = c /\ x[2] = p
            OBVIOUS
        <3> HIDE DEF x
        <3> QED BY <1>2, <3>1 DEF ToClassify
    <2>2. ~IsEdge(c)
        BY <1>2, <2>1 DEF Edges
    <2> QED BY <2>2 DEF IsEdge, Contained
<1> QED BY <1>1, <1>2

\* Of the three files, exactly one has a row for an overlap, and the row has its share.
LEMMA MergedIsExact ==
    ASSUME hierarchy => Nested, NEW x \in Candidates,
           NEW rows, rows = {y \in Merged : y[2].cell = x[1] /\ y[2].poly = x[2]}
    PROVE  \E f : rows = {<<f, Clipped(x[1], x[2])>>}
<1> DEFINE c == x[1]
           p == x[2]
<1>1. x = <<c, p>> /\ c \in Cell /\ p \in Poly
    BY DEF Candidates
<1>2. \A d, q : /\ Whole(d, q).cell = d /\ Whole(d, q).poly = q
                /\ Clipped(d, q).cell = d /\ Clipped(d, q).poly = q
    BY DEF Whole, Clipped, Row
<1> HIDE DEF c, p
<1>3. \A y : y \in Merged <=> \/ \E r \in InteriorRows : y = <<"interior", r>>
                              \/ \E r \in ContainedRows : y = <<"contained", r>>
                              \/ \E r \in Clippings : y = <<"exact", r>>
    BY DEF Merged
<1>4. \A r \in InteriorRows : r.cell = c /\ r.poly = p =>
            hierarchy /\ <<c, p>> \in Singles /\ Interior(c, p) /\ r = Whole(c, p)
    <2> TAKE r \in InteriorRows
    <2>1. PICK d \in Cell, q \in Poly : hierarchy /\ <<d, q>> \in Singles /\ Interior(d, q) /\ r = Whole(d, q)
        BY RowsAreOfCandidates
    <2>2. r.cell = d /\ r.poly = q
        BY <1>2, <2>1
    <2> QED BY <2>1, <2>2
<1>5. \A r \in ContainedRows : r.cell = c /\ r.poly = p =>
            /\ <<c, p>> \in Singles /\ (hierarchy => ~Interior(c, p))
            /\ c \notin Edges /\ r = Whole(c, p)
    <2> TAKE r \in ContainedRows
    <2>1. PICK d \in Cell, q \in Poly : <<d, q>> \in Singles /\ (hierarchy => ~Interior(d, q)) /\ d \notin Edges /\ r = Whole(d, q)
        BY RowsAreOfCandidates
    <2>2. r.cell = d /\ r.poly = q
        BY <1>2, <2>1
    <2> QED BY <2>1, <2>2
<1>6. \A r \in Clippings : r.cell = c /\ r.poly = p =>
            ((<<c, p>> \in Singles /\ c \in Edges) \/ <<c, p>> \in Competing) /\ r = Clipped(c, p)
    <2> TAKE r \in Clippings
    <2>1. PICK d \in Cell, q \in Poly : ((<<d, q>> \in Singles /\ d \in Edges) \/ <<d, q>> \in Competing) /\ r = Clipped(d, q)
        BY RowsAreOfCandidates
    <2>2. r.cell = d /\ r.poly = q
        BY <1>2, <2>1
    <2> QED BY <2>1, <2>2
<1>7. /\ hierarchy /\ <<c, p>> \in Singles /\ Interior(c, p) => Whole(c, p) \in InteriorRows
      /\ <<c, p>> \in Singles /\ (hierarchy => ~Interior(c, p)) /\ c \notin Edges
            => Whole(c, p) \in ContainedRows
      /\ (<<c, p>> \in Singles /\ c \in Edges) \/ <<c, p>> \in Competing
            => Clipped(c, p) \in Clippings
    <2>1. x \in Singles /\ hierarchy /\ Interior(x[1], x[2]) => Whole(x[1], x[2]) \in InteriorRows
        BY DEF InteriorRows
    <2>2. x \in Singles /\ (hierarchy => ~Interior(x[1], x[2])) /\ x[1] \notin Edges
            => Whole(x[1], x[2]) \in ContainedRows
        BY DEF ContainedRows
    <2>3. (x \in Singles /\ x[1] \in Edges) \/ x \in Competing
            => Clipped(x[1], x[2]) \in Clippings
        BY DEF Clippings
    <2>4. <<c, p>> = x /\ x[1] = c /\ x[2] = p
        BY <1>1 DEF c, p
    <2> QED BY <2>1, <2>2, <2>3, <2>4
<1>8. \A y : y \in rows <=> y \in Merged /\ y[2].cell = c /\ y[2].poly = p
    BY DEF c, p
<1>9. \A f, r : <<f, r>>[2] = r
    OBVIOUS
<1>10. CASE <<c, p>> \in Competing
    <2>1. <<c, p>> \notin Singles
        BY <1>10 DEF Competing
    <2>2. \A y : y \in rows <=> y = <<"exact", Clipped(c, p)>>
        BY <1>2, <1>3, <1>4, <1>5, <1>6, <1>7, <1>8, <1>9, <1>10, <2>1
    <2>3. rows = {<<"exact", Clipped(c, p)>>}
        BY <2>2
    <2> QED BY <2>3 DEF c, p
<1>11. CASE <<c, p>> \in Singles /\ hierarchy /\ Interior(c, p)
    <2>1. c \notin Edges
        <3> SUFFICES ASSUME c \in Edges PROVE FALSE
            OBVIOUS
        <3>1. PICK y \in Singles : y[1] = c /\ ~Interior(y[1], y[2])
            BY <1>11 DEF Edges, ToClassify
        <3>2. y = <<c, y[2]>> /\ y \in Candidates
            BY <3>1 DEF Singles, Candidates
        <3>3. y[2] = p
            BY <1>11, <3>2, SinglesAreOne
        <3> QED BY <1>11, <3>1, <3>3
    <2>2. <<c, p>> \notin Competing
        BY <1>11 DEF Competing
    <2>3. Whole(c, p) = Clipped(c, p)
        BY <1>1, <1>11, WholesAreInside, WholeIsClipped
    <2>4. \A y : y \in rows <=> y = <<"interior", Whole(c, p)>>
        BY <1>2, <1>3, <1>4, <1>5, <1>6, <1>7, <1>8, <1>9, <1>11, <2>1, <2>2
    <2> QED BY <2>3, <2>4 DEF c, p
<1>12. CASE <<c, p>> \in Singles /\ (hierarchy => ~Interior(c, p)) /\ c \in Edges
    <2>1. <<c, p>> \notin Competing
        BY <1>12 DEF Competing
    <2>2. \A y : y \in rows <=> y = <<"exact", Clipped(c, p)>>
        BY <1>2, <1>3, <1>4, <1>5, <1>6, <1>7, <1>8, <1>9, <1>12, <2>1
    <2>3. rows = {<<"exact", Clipped(c, p)>>}
        BY <2>2
    <2> QED BY <2>3 DEF c, p
<1>13. CASE <<c, p>> \in Singles /\ (hierarchy => ~Interior(c, p)) /\ c \notin Edges
    <2>1. <<c, p>> \notin Competing
        BY <1>13 DEF Competing
    <2>2. Whole(c, p) = Clipped(c, p)
        BY <1>1, <1>13, WholesAreInside, WholeIsClipped
    <2>3. \A y : y \in rows <=> y = <<"contained", Whole(c, p)>>
        BY <1>2, <1>3, <1>4, <1>5, <1>6, <1>7, <1>8, <1>9, <1>13, <2>1
    <2> QED BY <2>2, <2>3 DEF c, p
<1>14. <<c, p>> \in Singles \/ <<c, p>> \in Competing
    BY <1>1 DEF Competing
<1> QED BY <1>10, <1>11, <1>12, <1>13, <1>14

\* Each overlap is in the merged rows once, with its share.
LEMMA CoverageExact == IInv => CoverageIsExact
<1> SUFFICES ASSUME IInv, hierarchy => Nested, pc = "done", NEW x \in Candidates
             PROVE  LET rows == {y \in out : y[2].cell = x[1] /\ y[2].poly = x[2]} IN
                        Cardinality(rows) = 1 /\ \A y \in rows : y[2] = Clipped(x[1], x[2])
    BY DEF CoverageIsExact, Exact
<1> DEFINE rows == {y \in out : y[2].cell = x[1] /\ y[2].poly = x[2]}
<1>1. rows = {y \in Merged : y[2].cell = x[1] /\ y[2].poly = x[2]}
    BY DEF IInv
<1> HIDE DEF rows
<1>2. PICK f : rows = {<<f, Clipped(x[1], x[2])>>}
    BY <1>1, MergedIsExact
<1>3. Cardinality(rows) = 1
    BY <1>2, FS_Singleton
<1> QED BY <1>2, <1>3 DEF rows

-----------------------------------------------------------------------------
(* The lookup. *)

\* What a function makes of a finite set is finite.
LEMMA FiniteImage ==
    ASSUME NEW S, IsFiniteSet(S), NEW f, DOMAIN f = S
    PROVE  IsFiniteSet({f[x] : x \in S})
<1> DEFINE Values == {f[x] : x \in S}
           g == [x \in S |-> f[x]]
<1>1. g \in [S -> Values] /\ \A t \in Values : \E x \in S : g[x] = t
    OBVIOUS
<1>2. g \in Surjection(S, Values)
    BY <1>1 DEF Surjection
<1> HIDE DEF Values, g
<1>3. IsFiniteSet(Values)
    BY <1>2, FS_Surjection
<1> QED BY <1>3 DEF Values

\* A bijection has one back.
LEMMA BijectionBack ==
    ASSUME NEW S, NEW V, ExistsBijection(S, V)
    PROVE  ExistsBijection(V, S)
<1>1. PICK f : f \in Bijection(S, V)
    BY DEF ExistsBijection
<1> DEFINE g == [v \in V |-> CHOOSE s \in S : f[s] = v]
<1>2. /\ f \in [S -> V] /\ \A s, t \in S : f[s] = f[t] => s = t
      /\ \A v \in V : \E s \in S : f[s] = v
    BY <1>1 DEF Bijection, Injection, Surjection, IsInjective
<1>3. \A v \in V : g[v] \in S /\ f[g[v]] = v
    BY <1>2
<1>4. g \in [V -> S]
    BY <1>3
<1> HIDE DEF g
<1>5. \A s \in S : f[s] \in V /\ g[f[s]] = s
    BY <1>2, <1>3
<1>6. g \in Bijection(V, S)
    BY <1>3, <1>4, <1>5 DEF Bijection, Injection, Surjection, IsInjective
<1> QED BY <1>6 DEF ExistsBijection

\* The units of rows are as many as those of the places the rows are about, if
\* these are disjoint.
LEMMA UnitsOfPlaces ==
    ASSUME NEW rows, NEW place, NEW whole, IsFiniteSet(whole),
           whole = UNION {place[r] : r \in rows},
           \A r \in rows : r.units = Cardinality(place[r]),
           \A r, s \in rows : r # s => place[r] \cap place[s] = {}
    PROVE  Cardinality(UnitsOf(rows)) = Cardinality(whole)
<1> DEFINE number == [r \in rows |-> CHOOSE g : g \in Bijection(place[r], 1..r.units)]
           row(u) == CHOOSE r \in rows : u \in place[r]
           G == [u \in whole |-> <<row(u), number[row(u)][u]>>]
<1>1. \A r \in rows : number[r] \in Bijection(place[r], 1..r.units)
    <2> TAKE r \in rows
    <2>1. place[r] \subseteq whole
        OBVIOUS
    <2>2. IsFiniteSet(place[r])
        BY <2>1, FS_Subset
    <2>3. ExistsBijection(1..r.units, place[r])
        BY <2>2, FS_CardinalityType
    <2>4. ExistsBijection(place[r], 1..r.units)
        BY <2>3, BijectionBack
    <2>5. \E g : g \in Bijection(place[r], 1..r.units)
        BY <2>4 DEF ExistsBijection
    <2> QED BY <2>5
<1>2. \A r \in rows :
        /\ number[r] \in [place[r] -> 1..r.units]
        /\ \A u, v \in place[r] : number[r][u] = number[r][v] => u = v
        /\ \A n \in 1..r.units : \E u \in place[r] : number[r][u] = n
    <2> TAKE r \in rows
    <2> DEFINE g == number[r]
               Places == place[r]
               Units == 1..r.units
    <2>1. g \in Bijection(Places, Units)
        BY <1>1
    <2> HIDE DEF g, Places, Units
    <2>2. g \in [Places -> Units] /\ (\A u, v \in Places : g[u] = g[v] => u = v) /\ \A n \in Units : \E u \in Places : g[u] = n
        BY <2>1 DEF Bijection, Injection, Surjection, IsInjective
    <2> QED BY <2>2 DEF g, Places, Units
<1>3. \A r \in rows : \A u \in place[r] : u \in whole /\ row(u) = r
    OBVIOUS
<1>4. \A u \in whole : row(u) \in rows /\ u \in place[row(u)]
    OBVIOUS
<1>5. \A y : y \in UnitsOf(rows) <=> \E r \in rows : \E n \in 1..r.units : y = <<r, n>>
    BY DEF UnitsOf
<1> HIDE DEF number, row
<1>6. G \in [whole -> UnitsOf(rows)]
    <2>1. ASSUME NEW u \in whole PROVE <<row(u), number[row(u)][u]>> \in UnitsOf(rows)
        <3>1. number[row(u)][u] \in 1..row(u).units
            BY <1>2, <1>4
        <3> QED BY <1>4, <1>5, <3>1
    <2> QED BY <2>1
<1>7. \A u, v \in whole : G[u] = G[v] => u = v
    <2> TAKE u, v \in whole
    <2> HAVE G[u] = G[v]
    <2>1. row(u) = row(v) /\ number[row(u)][u] = number[row(v)][v]
        OBVIOUS
    <2> QED BY <1>2, <1>4, <2>1
<1>8. \A y \in UnitsOf(rows) : \E u \in whole : G[u] = y
    <2> TAKE y \in UnitsOf(rows)
    <2>0. PICK r \in rows : \E n \in 1..r.units : y = <<r, n>>
        BY <1>5
    <2>1. PICK n \in 1..r.units : y = <<r, n>>
        BY <2>0
    <2>2. PICK u \in place[r] : number[r][u] = n
        BY <1>2, <2>1
    <2>3. u \in whole /\ row(u) = r
        BY <1>3
    <2> QED BY <2>1, <2>2, <2>3
<1> HIDE DEF G
<1>9. ExistsBijection(whole, UnitsOf(rows))
    <2>1. G \in Bijection(whole, UnitsOf(rows))
        BY <1>6, <1>7, <1>8 DEF Bijection, Injection, Surjection, IsInjective
    <2> QED BY <2>1 DEF ExistsBijection
<1> QED BY <1>9, FS_Bijection

\* Shapes are finite, and a part that has as many units as the whole is the whole.
LEMMA SharesAreNumbers ==
    ASSUME NEW c \in Cell, NEW S
    PROVE  /\ IsFiniteSet(Shape[c]) /\ IsFiniteSet(Shape[c] \cap S)
           /\ Cardinality(Shape[c]) \in Nat /\ Cardinality(Shape[c] \cap S) \in Nat
           /\ Cardinality(Shape[c] \cap S) <= Cardinality(Shape[c])
           /\ Cardinality(Shape[c] \cap S) = Cardinality(Shape[c]) <=> Shape[c] \subseteq S
           /\ Cardinality(Shape[c] \cap S) > 0 <=> Shape[c] \cap S # {}
           /\ Shape[c] # {}
<1> DEFINE Places == Shape[c]
           Units == Shape[c] \cap S
<1>1. Places \subseteq Unit /\ IsFiniteSet(Unit) /\ Places # {}
    BY CoverageAssumption
<1>2. Units \subseteq Places /\ (Places \subseteq S <=> Places = Units)
    OBVIOUS
<1> HIDE DEF Places, Units
<1>3. IsFiniteSet(Places) /\ Cardinality(Places) \in Nat
    BY <1>1, FS_Subset, FS_CardinalityType
<1>4. IsFiniteSet(Units) /\ Cardinality(Units) \in Nat /\ Cardinality(Units) <= Cardinality(Places)
      /\ (Cardinality(Places) = Cardinality(Units) => Places = Units)
    BY <1>2, <1>3, FS_Subset, FS_CardinalityType
<1>5. Cardinality(Units) = 0 <=> Units = {}
    BY <1>4, FS_EmptySet
<1>6. Cardinality(Units) > 0 <=> Units # {}
    BY <1>4, <1>5
<1>7. Cardinality(Units) = Cardinality(Places) <=> Places \subseteq S
    BY <1>2, <1>4
<1> QED BY <1>1, <1>3, <1>4, <1>6, <1>7 DEF Places, Units

\* The rows of a cell.
LEMMA RowsOfACell ==
    ASSUME IInv, pc = "done", NEW c \in Cell
    PROVE  /\ IsFiniteSet(RowsOf(c))
           /\ \A r \in RowsOf(c) : r.poly \in Poly /\ r.units \in Nat /\ r.units > 0
           /\ (hierarchy => Nested) => \A r : r \in RowsOf(c) <=>
                    \E p \in Poly : Shape[c] \cap poly[p] # {} /\ r = Clipped(c, p)
<1>1. \A r : r \in RowsOf(c) <=>
            r \in InteriorRows \cup ContainedRows \cup Clippings /\ r.cell = c /\ r.units > 0
    <2>1. out = Merged
        BY DEF IInv
    <2>2. \A r : (\E y \in Merged : y[2] = r) <=> r \in InteriorRows \cup ContainedRows \cup Clippings
        <3>1. \A y : y \in Merged <=> \/ \E r \in InteriorRows : y = <<"interior", r>>
                                      \/ \E r \in ContainedRows : y = <<"contained", r>>
                                      \/ \E r \in Clippings : y = <<"exact", r>>
            BY DEF Merged
        <3>2. \A f, r : <<f, r>>[2] = r
            OBVIOUS
        <3> TAKE r
        <3>3. ASSUME NEW y \in Merged, y[2] = r PROVE r \in InteriorRows \cup ContainedRows \cup Clippings
            BY <3>1, <3>2, <3>3
        <3>4. ASSUME r \in InteriorRows \cup ContainedRows \cup Clippings PROVE \E y \in Merged : y[2] = r
            <4>1. \E f : <<f, r>> \in Merged
                BY <3>1, <3>4
            <4> QED BY <3>2, <4>1
        <3> QED BY <3>3, <3>4
    <2>3. \A r : r \in RowsOf(c) <=> (\E y \in Merged : y[2] = r) /\ r.cell = c /\ r.units > 0
        BY <2>1 DEF RowsOf
    <2> QED BY <2>2, <2>3
<1>2. \A d, q : /\ Whole(d, q).cell = d /\ Whole(d, q).poly = q
                /\ Clipped(d, q).cell = d /\ Clipped(d, q).poly = q
                /\ Whole(d, q).units = Cardinality(Shape[d])
                /\ Clipped(d, q).units = Cardinality(Shape[d] \cap poly[q])
    BY DEF Whole, Clipped, Row
<1>3. \A r \in InteriorRows \cup ContainedRows \cup Clippings :
            \E d \in Cell, p \in Poly : <<d, p>> \in Candidates /\ r \in {Whole(d, p), Clipped(d, p)}
    <2>1. \A x : x \in Singles \/ x \in Competing => x \in Candidates
        BY DEF Singles, Competing
    <2> TAKE r \in InteriorRows \cup ContainedRows \cup Clippings
    <2>2. CASE r \in InteriorRows
        BY <2>1, <2>2, RowsAreOfCandidates
    <2>3. CASE r \in ContainedRows
        BY <2>1, <2>3, RowsAreOfCandidates
    <2>4. CASE r \in Clippings
        BY <2>1, <2>4, RowsAreOfCandidates
    <2> QED BY <2>2, <2>3, <2>4
<1>4. \A r \in RowsOf(c) : \E p \in Poly : <<c, p>> \in Candidates /\ r \in {Whole(c, p), Clipped(c, p)}
    <2> TAKE r \in RowsOf(c)
    <2>1. PICK d \in Cell, p \in Poly : <<d, p>> \in Candidates /\ r \in {Whole(d, p), Clipped(d, p)}
        BY <1>1, <1>3
    <2>2. d = c
        BY <1>1, <1>2, <2>1
    <2> QED BY <2>1, <2>2
<1>5. IsFiniteSet(RowsOf(c))
    <2> DEFINE w == [p \in Poly |-> Whole(c, p)]
               k == [p \in Poly |-> Clipped(c, p)]
               W == {w[p] : p \in Poly}
               K == {k[p] : p \in Poly}
    <2>1. IsFiniteSet(Poly)
        BY CoverageAssumption DEF Poly
    <2>2. IsFiniteSet(W) /\ IsFiniteSet(K)
        <3>1. DOMAIN w = Poly /\ DOMAIN k = Poly
            OBVIOUS
        <3> HIDE DEF w, k
        <3> QED BY <2>1, <3>1, FiniteImage
    <2>3. RowsOf(c) \subseteq W \cup K
        <3>1. \A p \in Poly : Whole(c, p) \in W /\ Clipped(c, p) \in K
            <4> TAKE p \in Poly
            <4>1. w[p] = Whole(c, p) /\ k[p] = Clipped(c, p)
                OBVIOUS
            <4>2. w[p] \in W /\ k[p] \in K
                OBVIOUS
            <4> QED BY <4>1, <4>2
        <3> HIDE DEF W, K
        <3> QED BY <1>4, <3>1
    <2> HIDE DEF W, K
    <2> QED BY <2>2, <2>3, FS_Union, FS_Subset
<1>6. \A r \in RowsOf(c) : r.poly \in Poly /\ r.units \in Nat /\ r.units > 0
    <2> TAKE r \in RowsOf(c)
    <2>1. PICK p \in Poly : r \in {Whole(c, p), Clipped(c, p)}
        BY <1>4
    <2>2. r.poly = p /\ (r.units = Cardinality(Shape[c]) \/ r.units = Cardinality(Shape[c] \cap poly[p]))
        BY <1>2, <2>1
    <2>3. Cardinality(Shape[c]) \in Nat /\ Cardinality(Shape[c] \cap poly[p]) \in Nat
        BY SharesAreNumbers
    <2> QED BY <1>1, <2>2, <2>3
<1>7. ASSUME hierarchy => Nested, NEW r
      PROVE  r \in RowsOf(c) <=> \E p \in Poly : Shape[c] \cap poly[p] # {} /\ r = Clipped(c, p)
    <2>1. ASSUME NEW p \in Poly, <<c, p>> \in Candidates
          PROVE  /\ Clipped(c, p) \in InteriorRows \cup ContainedRows \cup Clippings
                 /\ \A s \in InteriorRows \cup ContainedRows \cup Clippings :
                        s.cell = c /\ s.poly = p => s = Clipped(c, p)
        <3> DEFINE x == <<c, p>>
                   rows == {y \in Merged : y[2].cell = x[1] /\ y[2].poly = x[2]}
        <3>1. PICK f : rows = {<<f, Clipped(x[1], x[2])>>}
            BY <1>7, <2>1, MergedIsExact
        <3>2. x[1] = c /\ x[2] = p
            OBVIOUS
        <3>3. \A s : (\E g : <<g, s>> \in Merged) <=> s \in InteriorRows \cup ContainedRows \cup Clippings
            BY DEF Merged
        <3>4. \A g, s : <<g, s>> \in rows <=> <<g, s>> \in Merged /\ s.cell = c /\ s.poly = p
            BY <3>2
        <3> HIDE DEF rows, x
        <3>5. <<f, Clipped(c, p)>> \in rows
            BY <3>1, <3>2
        <3>6. \A g, s : <<g, s>> \in rows => s = Clipped(c, p)
            BY <3>1, <3>2
        <3> QED BY <3>3, <3>4, <3>5, <3>6
    <2>2. \A p \in Poly : <<c, p>> \in Candidates <=> Shape[c] \cap poly[p] # {}
        BY DEF Candidates
    <2>3. ASSUME r \in RowsOf(c) PROVE \E p \in Poly : Shape[c] \cap poly[p] # {} /\ r = Clipped(c, p)
        <3>1. PICK p \in Poly : <<c, p>> \in Candidates /\ r \in {Whole(c, p), Clipped(c, p)}
            BY <1>4, <2>3
        <3>2. r.cell = c /\ r.poly = p
            BY <1>2, <3>1
        <3>3. r = Clipped(c, p)
            BY <1>1, <2>1, <2>3, <3>1, <3>2
        <3> QED BY <2>2, <3>1, <3>3
    <2>4. ASSUME NEW p \in Poly, Shape[c] \cap poly[p] # {}, r = Clipped(c, p) PROVE r \in RowsOf(c)
        <3>1. r.cell = c /\ r.units = Cardinality(Shape[c] \cap poly[p])
            BY <1>2, <2>4
        <3>2. r.units > 0
            <4>1. Cardinality(Shape[c] \cap poly[p]) > 0
                BY <2>4, SharesAreNumbers
            <4> QED BY <3>1, <4>1
        <3> QED BY <1>1, <2>1, <2>2, <2>4, <3>1, <3>2
    <2> QED BY <2>3, <2>4
<1> QED BY <1>5, <1>6, <1>7

\* The best of a cell's rows is one of them.
LEMMA BestIsARow ==
    ASSUME IInv, pc = "done", NEW c \in Cell, RowsOf(c) # {}
    PROVE  Best(c) \in RowsOf(c) /\ \A s \in RowsOf(c) : s.units <= Best(c).units
<1> DEFINE f == [r \in RowsOf(c) |-> r.units]
           Values == {f[r] : r \in RowsOf(c)}
<1>1. IsFiniteSet(RowsOf(c)) /\ \A r \in RowsOf(c) : r.units \in Nat
    BY RowsOfACell
<1>2. IsFiniteSet(Values)
    <2>1. DOMAIN f = RowsOf(c)
        OBVIOUS
    <2> HIDE DEF f
    <2> QED BY <1>1, <2>1, FiniteImage
<1>3. Values \in SUBSET Int /\ Values # {}
    BY <1>1
<1>4. PICK t \in Values : \A u \in Values : u <= t
    <2> HIDE DEF Values
    <2> QED BY <1>2, <1>3, FiniteBounds
<1>5. \A r \in RowsOf(c) : r.units \in Values
    BY <1>1
<1>6. PICK r \in RowsOf(c) : r.units = t
    OBVIOUS
<1> HIDE DEF Values
<1>7. \A s \in RowsOf(c) : s.units <= r.units
    BY <1>4, <1>5, <1>6
<1> QED BY <1>7 DEF Best

\* Where rows are the shares of a cell, its row of the lookup says what its
\* polygon, and its country, has of it.
LEMMA NestedRowsAgree ==
    ASSUME IInv, pc = "done", hierarchy => Nested, NEW c \in Cell, RowsOf(c) # {},
           NEW row, row = NestedRow(c)
    PROVE  /\ \A p \in Poly : Cardinality(Shape[row.cell] \cap poly[p]) <= row.pct
           /\ row.interior2 <=> Shape[row.cell] \subseteq poly[row.best]
           /\ row.interior0 <=> Shape[row.cell] \subseteq
                UNION {poly[p] : p \in {q \in Poly : Country[q] = row.adm0}}
<1> DEFINE best == Best(c)
           country == Country[best.poly]
           countries == {Country[r.poly] : r \in RowsOf(c)}
           full == Cardinality(Shape[c])
           total == Rollup(c, InCountry(c, country))
           theirs == {q \in Poly : Country[q] = country}
           U == UNION {poly[p] : p \in theirs}
<1>1. /\ row.cell = c /\ row.best = best.poly /\ row.pct = best.units /\ row.adm0 = country
      /\ row.interior0 = (Cardinality(countries) = 1 /\ total = full)
      /\ row.interior2 = (Cardinality(RowsOf(c)) = 1 /\ best.units = full)
    BY DEF NestedRow
<1>2. best \in RowsOf(c) /\ \A s \in RowsOf(c) : s.units <= best.units
    BY BestIsARow
<1>3. /\ IsFiniteSet(RowsOf(c))
      /\ \A r \in RowsOf(c) : r.poly \in Poly /\ r.units \in Nat /\ r.units > 0
      /\ \A r : r \in RowsOf(c) <=> \E p \in Poly : Shape[c] \cap poly[p] # {} /\ r = Clipped(c, p)
    BY RowsOfACell
<1>4. \A p : Clipped(c, p).poly = p /\ Clipped(c, p).units = Cardinality(Shape[c] \cap poly[p])
    BY DEF Clipped, Row
<1>5. \A r \in RowsOf(c) : /\ r = Clipped(c, r.poly)
                           /\ r.units = Cardinality(Shape[c] \cap poly[r.poly])
                           /\ r.poly \in Poly /\ Shape[c] \cap poly[r.poly] # {}
    BY <1>3, <1>4
<1>6. \A p \in Poly : Shape[c] \cap poly[p] # {} => Clipped(c, p) \in RowsOf(c)
    BY <1>3
<1>7. \A p, q \in Poly : p # q => poly[p] \cap poly[q] = {}
    BY DEF IInv
<1>8. \A S : /\ IsFiniteSet(Shape[c] \cap S)
             /\ full \in Nat /\ Cardinality(Shape[c] \cap S) \in Nat
             /\ Cardinality(Shape[c] \cap S) <= full
             /\ Cardinality(Shape[c] \cap S) = full <=> Shape[c] \subseteq S
             /\ Cardinality(Shape[c] \cap S) > 0 <=> Shape[c] \cap S # {}
             /\ Shape[c] # {}
    BY SharesAreNumbers
<1> HIDE DEF best, country, countries, full, total
<1>9. \A p \in Poly : Cardinality(Shape[c] \cap poly[p]) <= best.units
    <2> TAKE p \in Poly
    <2>1. best.units \in Nat
        BY <1>2, <1>3
    <2>2. CASE Shape[c] \cap poly[p] = {}
        <3>1. ~(Cardinality(Shape[c] \cap poly[p]) > 0) /\ Cardinality(Shape[c] \cap poly[p]) \in Nat
            BY <1>8, <2>2
        <3> QED BY <2>1, <3>1
    <2>3. CASE Shape[c] \cap poly[p] # {}
        <3>1. Clipped(c, p) \in RowsOf(c)
            BY <1>6, <2>3
        <3>2. Clipped(c, p).units <= best.units
            BY <1>2, <3>1
        <3> QED BY <1>4, <3>2
    <2> QED BY <2>2, <2>3
<1>10. best.units = full <=> Shape[c] \subseteq poly[best.poly]
    <2>1. best.units = Cardinality(Shape[c] \cap poly[best.poly])
        BY <1>2, <1>5
    <2>2. Cardinality(Shape[c] \cap poly[best.poly]) = full <=> Shape[c] \subseteq poly[best.poly]
        BY <1>8
    <2> QED BY <2>1, <2>2
<1>11. Shape[c] \subseteq poly[best.poly] => Cardinality(RowsOf(c)) = 1
    <2> SUFFICES ASSUME Shape[c] \subseteq poly[best.poly] PROVE Cardinality(RowsOf(c)) = 1
        OBVIOUS
    <2>1. ASSUME NEW r \in RowsOf(c) PROVE r = best
        <3>1. r.poly = best.poly
            BY <1>2, <1>5, <1>7
        <3> QED BY <1>2, <1>5, <3>1
    <2>2. RowsOf(c) = {best}
        BY <1>2, <2>1
    <2> QED BY <2>2, FS_Singleton
<1>12. total = Cardinality(Shape[c] \cap U)
    <2> DEFINE rows == InCountry(c, country)
               place == [r \in rows |-> Shape[c] \cap poly[r.poly]]
               whole == Shape[c] \cap U
    <2>1. rows = {r \in RowsOf(c) : Country[r.poly] = country}
        BY DEF InCountry
    <2>2. IsFiniteSet(whole)
        BY <1>8
    <2>3. \A r \in rows : r \in RowsOf(c) /\ r.poly \in theirs /\ place[r] = Shape[c] \cap poly[r.poly]
        BY <1>5, <2>1
    <2>4. \A p \in theirs : Shape[c] \cap poly[p] # {} => Clipped(c, p) \in rows /\ Clipped(c, p).poly = p
        BY <1>4, <1>6, <2>1
    <2>5. whole = UNION {place[r] : r \in rows}
        <3>1. ASSUME NEW u \in whole PROVE \E r \in rows : u \in place[r]
            <4>1. PICK p \in theirs : u \in poly[p] /\ u \in Shape[c]
                OBVIOUS
            <4> HIDE DEF rows, place
            <4>2. Clipped(c, p) \in rows /\ Clipped(c, p).poly = p
                BY <2>4, <4>1
            <4>3. u \in place[Clipped(c, p)]
                BY <2>3, <4>1, <4>2
            <4> QED BY <4>2, <4>3
        <3>2. ASSUME NEW r \in rows, NEW u \in place[r] PROVE u \in whole
            BY <2>3
        <3> HIDE DEF rows, place, whole
        <3> QED BY <3>1, <3>2
    <2>6. \A r \in rows : r.units = Cardinality(place[r])
        <3> HIDE DEF rows, place
        <3> QED BY <1>5, <2>3
    <2>7. \A r, s \in rows : r # s => place[r] \cap place[s] = {}
        <3> TAKE r, s \in rows
        <3> HAVE r # s
        <3> HIDE DEF rows, place
        <3>1. r.poly # s.poly
            BY <1>5, <2>3
        <3>2. poly[r.poly] \cap poly[s.poly] = {}
            BY <1>5, <1>7, <2>3, <3>1
        <3>3. place[r] = Shape[c] \cap poly[r.poly] /\ place[s] = Shape[c] \cap poly[s.poly]
            BY <2>3
        <3> QED BY <3>2, <3>3
    <2> HIDE DEF rows, place, whole
    <2>8. Cardinality(UnitsOf(rows)) = Cardinality(whole)
        BY <2>2, <2>5, <2>6, <2>7, UnitsOfPlaces
    <2>9. total = Min({Cardinality(whole), full})
        BY <2>8 DEF total, rows, Rollup, Least1, full
    <2>10. Cardinality(whole) \in Nat /\ full \in Nat /\ Cardinality(whole) <= full
        BY <1>8 DEF whole
    <2>11. Min({Cardinality(whole), full}) = Cardinality(whole)
        <3> DEFINE x == Cardinality(whole)
        <3> HIDE DEF x
        <3>1. x \in Nat /\ full \in Nat /\ x <= full
            BY <2>10 DEF x
        <3>2. \E m \in {x, full} : \A k \in {x, full} : m =< k
            BY <3>1
        <3>3. Min({x, full}) \in {x, full} /\ \A k \in {x, full} : Min({x, full}) =< k
            BY <3>2 DEF Min
        <3>4. Min({x, full}) = x
            BY <3>1, <3>3
        <3> QED BY <3>4 DEF x
    <2> QED BY <2>9, <2>11 DEF whole
<1>13. total = full <=> Shape[c] \subseteq U
    <2> HIDE DEF U
    <2> QED BY <1>8, <1>12
<1>14. Shape[c] \subseteq U => Cardinality(countries) = 1
    <2> SUFFICES ASSUME Shape[c] \subseteq U PROVE Cardinality(countries) = 1
        OBVIOUS
    <2>1. ASSUME NEW r \in RowsOf(c) PROVE Country[r.poly] = country
        <3>1. PICK u \in Shape[c] : u \in poly[r.poly]
            BY <1>5
        <3>2. PICK p \in theirs : u \in poly[p]
            OBVIOUS
        <3>3. r.poly \in Poly /\ p \in Poly
            BY <1>5
        <3>4. r.poly = p
            BY <1>7, <3>1, <3>2, <3>3
        <3> QED BY <3>4
    <2>2. countries = {country}
        BY <1>2, <2>1 DEF countries
    <2> QED BY <2>2, FS_Singleton
<1>15. \A p \in Poly : Cardinality(Shape[row.cell] \cap poly[p]) <= row.pct
    BY <1>1, <1>9
<1>16. row.interior2 <=> Shape[row.cell] \subseteq poly[row.best]
    BY <1>1, <1>10, <1>11
<1>17. row.interior0 <=> Shape[row.cell] \subseteq
                UNION {poly[p] : p \in {q \in Poly : Country[q] = row.adm0}}
    <2>1. UNION {poly[p] : p \in {q \in Poly : Country[q] = row.adm0}} = U
        BY <1>1
    <2> HIDE DEF U
    <2> QED BY <1>1, <1>13, <1>14, <2>1
<1> QED BY <1>15, <1>16, <1>17

\* A country has the cells of its rows, in the lookup too.
LEMMA CountriesAgree ==
    ASSUME IInv, pc = "done", lookup = Nestings, NEW country
    PROVE  NestedCountryCells(country) = ExplodedCountryCells(country)
<1>1. \A c \in Cell : NestedRow(c).cell = c
                      /\ NestedRow(c).adm0 = Country[Best(c).poly]
                      /\ NestedRow(c).countries = {Country[r.poly] : r \in RowsOf(c)}
    BY DEF NestedRow
<1>2. \A c \in Cell : RowsOf(c) # {} => Best(c) \in RowsOf(c)
    BY BestIsARow
<1>3. \A c : c \in NestedCountryCells(country) <=>
            c \in Cell /\ \E r \in RowsOf(c) : Country[r.poly] = country
    <2> TAKE c
    <2>1. ASSUME c \in NestedCountryCells(country)
          PROVE  c \in Cell /\ \E r \in RowsOf(c) : Country[r.poly] = country
        <3>1. PICK row \in lookup : row.cell = c /\ (row.adm0 = country \/ country \in row.countries)
            BY <2>1 DEF NestedCountryCells
        <3>2. PICK d \in Cell : RowsOf(d) # {} /\ row = NestedRow(d)
            BY DEF Nestings
        <3>3. d = c
            BY <1>1, <3>1, <3>2
        <3>4. Country[Best(c).poly] \in NestedRow(c).countries
            BY <1>1, <1>2, <3>2, <3>3
        <3>5. country \in {Country[r.poly] : r \in RowsOf(c)}
            BY <1>1, <3>1, <3>2, <3>3, <3>4
        <3> QED BY <3>2, <3>3, <3>5
    <2>2. ASSUME c \in Cell, NEW r \in RowsOf(c), Country[r.poly] = country
          PROVE  c \in NestedCountryCells(country)
        <3>1. NestedRow(c) \in lookup
            BY <2>2 DEF Nestings
        <3>2. country \in NestedRow(c).countries
            BY <1>1, <2>2
        <3>3. NestedRow(c).cell = c
            BY <1>1, <2>2
        <3> QED BY <3>1, <3>2, <3>3 DEF NestedCountryCells
    <2> QED BY <2>1, <2>2
<1>4. \A y \in out : y[2].cell \in Cell
    <2>1. \A y \in Merged : y[2] \in InteriorRows \cup ContainedRows \cup Clippings
        BY DEF Merged
    <2>2. \A r \in InteriorRows \cup ContainedRows \cup Clippings : r.cell \in Cell
        <3>1. \A d, q : Whole(d, q).cell = d /\ Clipped(d, q).cell = d
            BY DEF Whole, Clipped, Row
        <3> TAKE r \in InteriorRows \cup ContainedRows \cup Clippings
        <3>2. \E d \in Cell, q \in Poly : r \in {Whole(d, q), Clipped(d, q)}
            <4>1. CASE r \in InteriorRows
                BY <4>1, RowsAreOfCandidates
            <4>2. CASE r \in ContainedRows
                BY <4>2, RowsAreOfCandidates
            <4>3. CASE r \in Clippings
                BY <4>3, RowsAreOfCandidates
            <4> QED BY <4>1, <4>2, <4>3
        <3> QED BY <3>1, <3>2
    <2> QED BY <2>1, <2>2 DEF IInv
<1>5. \A c : c \in ExplodedCountryCells(country) <=>
            c \in Cell /\ \E r \in RowsOf(c) : Country[r.poly] = country
    BY <1>4 DEF ExplodedCountryCells, RowsOf
<1> QED BY <1>3, <1>5

\* The nested lookup agrees with the rows it was made of.
LEMMA CoverageLookup == IInv => LookupAgrees
<1> SUFFICES ASSUME IInv, pc = "done", lookup # {}
             PROVE  /\ \A p \in Poly : NestedCountryCells(Country[p]) = ExplodedCountryCells(Country[p])
                    /\ (hierarchy => Nested) => \A row \in lookup :
                        /\ \A p \in Poly : Cardinality(Shape[row.cell] \cap poly[p]) <= row.pct
                        /\ row.interior2 <=> Shape[row.cell] \subseteq poly[row.best]
                        /\ row.interior0 <=> Shape[row.cell] \subseteq
                            UNION {poly[p] : p \in {q \in Poly : Country[q] = row.adm0}}
    BY DEF LookupAgrees
<1>1. lookup = Nestings
    BY DEF IInv
<1>2. \A p \in Poly : NestedCountryCells(Country[p]) = ExplodedCountryCells(Country[p])
    BY <1>1, CountriesAgree
<1>3. ASSUME hierarchy => Nested, NEW row \in lookup
      PROVE  /\ \A p \in Poly : Cardinality(Shape[row.cell] \cap poly[p]) <= row.pct
             /\ row.interior2 <=> Shape[row.cell] \subseteq poly[row.best]
             /\ row.interior0 <=> Shape[row.cell] \subseteq
                    UNION {poly[p] : p \in {q \in Poly : Country[q] = row.adm0}}
    <2>1. PICK c \in Cell : RowsOf(c) # {} /\ row = NestedRow(c)
        BY <1>1 DEF Nestings
    <2> QED BY <1>3, <2>1, NestedRowsAgree
<1> QED BY <1>2, <1>3

LEMMA SoundCoverage == Spec => [](CoverageIsExact /\ NoCollision /\ LookupAgrees)
<1>1. IInv => CoverageIsExact /\ NoCollision /\ LookupAgrees
    BY CoverageExact, CoverageLookup DEF IInv
<1> QED BY <1>1, CoverageInvariance, PTL

-----------------------------------------------------------------------------
(***************************************************************************)
(* Tiles: every pixel of an area belongs to one tile, whose shard has it.  *)
(***************************************************************************)

\* Cardinality is that of the sets proved about here.
LEMMA TiledSets == \A S : T!Cardinality(S) = Cardinality(S)
BY DEF T!Cardinality, Cardinality, T!IsFiniteSet, IsFiniteSet

\* Tiles are as many as it takes to reach the end, and no more.
LEMMA CountReaches ==
    ASSUME NEW low \in Int, NEW high \in Int, low < high, NEW step \in Nat \ {0}
    PROVE  /\ T!Count(low, high, step) \in Nat \ {0}
           /\ low + (T!Count(low, high, step) - 1) * step < high
           /\ low + T!Count(low, high, step) * step >= high
<1> DEFINE d == high - low + step - 1
           n == d \div step
<1>1. d \in Nat /\ d >= step
    OBVIOUS
<1> HIDE DEF d
<1>2. n \in Nat /\ n * step <= d /\ d < n * step + step
    BY <1>1
<1> HIDE DEF n
<1>3. n # 0
    <2>1. ASSUME n = 0 PROVE FALSE
        <3>1. n * step = 0
            BY <2>1
        <3> QED BY <1>1, <1>2, <3>1
    <2> QED BY <2>1
<1>4. (n - 1) * step = n * step - step /\ n * step \in Int
    BY <1>2
<1>5. T!Count(low, high, step) = n
    BY DEF T!Count, n, d
<1>6. (n - 1) * step \in Int /\ d = high - low + step - 1
    BY <1>2 DEF d
<1> QED BY <1>2, <1>3, <1>4, <1>5, <1>6

\* The cuts of an axis ascend, and stay within it.
LEMMA CutsAscend ==
    ASSUME NEW low \in Int, NEW high \in Int, low < high, NEW step \in Nat \ {0},
           NEW i \in 0..T!Count(low, high, step)
    PROVE  /\ T!Cut(low, high, step, i) \in low..high
           /\ i = 0 => T!Cut(low, high, step, i) = low
           /\ i = T!Count(low, high, step) => T!Cut(low, high, step, i) = high
           /\ i # T!Count(low, high, step) => T!Cut(low, high, step, i) = low + i * step /\ T!Cut(low, high, step, i) < high
           /\ i # 0 => low < T!Cut(low, high, step, i)
<1> DEFINE n == T!Count(low, high, step)
           c == low + i * step
<1>1. n \in Nat \ {0} /\ low + (n - 1) * step < high /\ low + n * step >= high
    BY CountReaches
<1>2. T!Cut(low, high, step, i) = IF c <= high THEN c ELSE high
    <2>1. c \in Int
        BY <1>1
    <2>2. \E x \in {c, high} : \A y \in {c, high} : x =< y
        <3> HIDE DEF c
        <3> QED BY <2>1
    <2>3. T!Min({c, high}) \in {c, high} /\ \A y \in {c, high} : T!Min({c, high}) =< y
        <3> HIDE DEF c
        <3> QED BY <2>2 DEF T!Min
    <2> HIDE DEF c
    <2> QED BY <2>1, <2>3 DEF T!Cut, c
<1> HIDE DEF n
<1>3. i \in Nat /\ i * step \in Nat /\ (i # 0 => i * step >= 1)
    BY <1>1 DEF n
<1>4. i # n => i * step <= (n - 1) * step
    <2> SUFFICES ASSUME i # n PROVE i * step <= (n - 1) * step
        OBVIOUS
    <2>1. i \in 0..n
        BY DEF n
    <2>2. n - 1 - i \in Nat
        BY <1>1, <2>1
    <2>3. (n - 1 - i) * step \in Nat
        BY <2>2
    <2>4. (n - 1 - i) * step = (n - 1) * step - i * step
        BY <1>1, <1>3
    <2> QED BY <1>1, <1>3, <2>3, <2>4
<1>5. (n - 1) * step \in Int /\ n * step \in Int
    BY <1>1
<1>6. i = n => i * step = n * step
    OBVIOUS
<1> QED BY <1>1, <1>2, <1>3, <1>4, <1>5, <1>6 DEF n

\* The k-th tile of an axis owns x.
OwnedBy(x, low, high, step, k) ==
    T!OwnsOn(x, T!Cut(low, high, step, k), T!Cut(low, high, step, k + 1), low, high)

\* Each point of an axis is owned by one tile.
LEMMA OneOwner ==
    ASSUME NEW low \in Int, NEW high \in Int, low < high, NEW step \in Nat \ {0}, NEW x \in Int
    PROVE  LET places == 0..T!Count(low, high, step) - 1 IN
           /\ \E k \in places : OwnedBy(x, low, high, step, k)
           /\ \A k, l \in places : OwnedBy(x, low, high, step, k) /\ OwnedBy(x, low, high, step, l) => k = l
<1> DEFINE n == T!Count(low, high, step)
           C(k) == T!Cut(low, high, step, k)
           places == 0..n - 1
<1>1. n \in Nat \ {0}
    BY CountReaches
<1>2. \A k \in 0..n : /\ C(k) \in Int /\ low <= C(k) /\ C(k) <= high
                      /\ k = 0 => C(k) = low
                      /\ k = n => C(k) = high
                      /\ k # n => C(k) = low + k * step /\ C(k) < high
                      /\ k # 0 => low < C(k)
    BY CutsAscend
<1>3. \A k \in places : OwnedBy(x, low, high, step, k) <=>
            (x >= C(k) \/ C(k) <= low) /\ (x < C(k + 1) \/ C(k + 1) >= high)
    BY DEF OwnedBy, T!OwnsOn
<1> HIDE DEF n, C
<1>4. \E k \in places : (x >= C(k) \/ C(k) <= low) /\ (x < C(k + 1) \/ C(k + 1) >= high)
    <2> DEFINE ends == {k \in places : x < C(k + 1) \/ k = n - 1}
    <2>1. ends \in SUBSET Nat /\ ends # {}
        <3>1. n - 1 \in places /\ places \subseteq Nat
            BY <1>1
        <3>2. n - 1 \in ends
            BY <3>1
        <3> QED BY <3>1, <3>2
    <2>2. PICK k \in ends : \A l \in ends : k <= l
        <3> HIDE DEF ends
        <3> QED BY <2>1, LeastOf
    <2>3. x < C(k + 1) \/ C(k + 1) >= high
        BY <1>1, <1>2
    <2>4. x >= C(k) \/ C(k) <= low
        <3>1. CASE k = 0
            BY <1>1, <1>2, <3>1
        <3>2. CASE k # 0
            <4>1. k - 1 \in places /\ k - 1 \notin ends /\ k \in 0..n
                BY <1>1, <2>2, <3>2
            <4>2. ~(x < C((k - 1) + 1))
                BY <4>1
            <4>3. (k - 1) + 1 = k /\ C(k) \in Int
                BY <1>1, <1>2, <4>1
            <4> QED BY <4>2, <4>3
        <3> QED BY <3>1, <3>2
    <2> QED BY <2>3, <2>4
<1>5. ASSUME NEW k \in places, NEW l \in places, k < l,
             x < C(k + 1) \/ C(k + 1) >= high, x >= C(l) \/ C(l) <= low
      PROVE  FALSE
    <2>1. k + 1 \in 0..n /\ l \in 0..n /\ k + 1 # n /\ l # n /\ l # 0
        BY <1>1, <1>5
    <2>2. /\ C(k + 1) = low + (k + 1) * step /\ C(k + 1) < high
          /\ C(l) = low + l * step /\ low < C(l)
        BY <1>2, <2>1
    <2>3. (k + 1) * step <= l * step
        <3>1. l - (k + 1) \in Nat
            BY <1>1, <1>5
        <3>2. (l - (k + 1)) * step \in Nat
            BY <3>1
        <3>3. (l - (k + 1)) * step = l * step - (k + 1) * step
            BY <1>1
        <3>4. l * step \in Int /\ (k + 1) * step \in Int
            BY <1>1
        <3> QED BY <3>2, <3>3, <3>4
    <2>4. C(l) \in Int /\ C(k + 1) \in Int
        BY <1>2, <2>1
    <2>5. x < C(k + 1) /\ x >= C(l)
        BY <1>5, <2>2, <2>4
    <2>6. (k + 1) * step \in Int /\ l * step \in Int
        BY <1>1
    <2> QED BY <2>2, <2>3, <2>4, <2>5, <2>6
<1>6. \A k, l \in places :
        OwnedBy(x, low, high, step, k) /\ OwnedBy(x, low, high, step, l) => k = l
    <2> SUFFICES ASSUME NEW k \in places, NEW l \in places,
                        OwnedBy(x, low, high, step, k), OwnedBy(x, low, high, step, l), k # l
                 PROVE  FALSE
        OBVIOUS
    <2>1. k < l \/ l < k
        BY <1>1
    <2> QED BY <1>3, <1>5, <2>1
<1> QED BY <1>3, <1>4, <1>6 DEF n

\* The pixels of an axis that bounds touch.
LEMMA InIndices ==
    ASSUME NEW low \in Int, NEW high \in Int, NEW count \in Nat, NEW p
    PROVE  p \in T!Indices(low, high, count) <=>
                p \in Int /\ 0 <= p /\ p < count /\ low <= 2 * p + 1 /\ 2 * p + 1 <= high
<1> DEFINE x == low \div 2
           y == (high + 1) \div 2
           bottom == T!Max({0, x})
           top == T!Min({count, y})
<1>1. x \in Int /\ 2 * x <= low /\ low < 2 * x + 2
    OBVIOUS
<1>2. y \in Int /\ 2 * y <= high + 1 /\ high + 1 < 2 * y + 2
    OBVIOUS
<1> HIDE DEF x, y
<1>3. bottom = IF 0 >= x THEN 0 ELSE x
    <2>1. \E m \in {0, x} : \A k \in {0, x} : m >= k
        BY <1>1
    <2>2. bottom \in {0, x} /\ \A k \in {0, x} : bottom >= k
        BY <2>1 DEF T!Max
    <2> HIDE DEF bottom
    <2> QED BY <1>1, <2>2
<1>4. top = IF count <= y THEN count ELSE y
    <2>1. \E m \in {count, y} : \A k \in {count, y} : m =< k
        BY <1>2
    <2>2. top \in {count, y} /\ \A k \in {count, y} : top =< k
        BY <2>1 DEF T!Min
    <2> HIDE DEF top
    <2> QED BY <1>2, <2>2
<1>5. T!Indices(low, high, count) = bottom..top - 1
    BY DEF T!Indices, x, y
<1> HIDE DEF bottom, top
<1> QED BY <1>1, <1>2, <1>3, <1>4, <1>5

\* A tile's pixels are among those the area touches, and a pixel of the area is
\* among those of the tile that owns it.
LEMMA TileOfAxis ==
    ASSUME NEW from \in Int, NEW to \in Int, NEW low \in Int, NEW high \in Int,
           from <= low, high <= to, NEW count \in Nat, NEW p
    PROVE  /\ p \in T!Indices(low, high, count) => p \in T!Indices(from, to, count)
           /\ p \in T!Indices(from, to, count) /\ T!OwnsOn(2 * p + 1, low, high, from, to)
                => p \in T!Indices(low, high, count)
<1>1. p \in T!Indices(low, high, count) <=>
            p \in Int /\ 0 <= p /\ p < count /\ low <= 2 * p + 1 /\ 2 * p + 1 <= high
    BY InIndices
<1>2. p \in T!Indices(from, to, count) <=>
            p \in Int /\ 0 <= p /\ p < count /\ from <= 2 * p + 1 /\ 2 * p + 1 <= to
    BY InIndices
<1> QED BY <1>1, <1>2 DEF T!OwnsOn

\* Tiles are numbered row by row.
LEMMA PlaceOfTile ==
    ASSUME NEW c \in Nat \ {0}, NEW r \in Nat \ {0}
    PROVE  /\ c * r \in Nat \ {0}
           /\ \A t \in 1..c * r : /\ (t - 1) % c \in 0..c - 1
                                  /\ (t - 1) \div c \in 0..r - 1
                                  /\ t = c * ((t - 1) \div c) + ((t - 1) % c) + 1
           /\ \A i \in 0..c - 1, j \in 0..r - 1 :
                /\ c * j + i + 1 \in 1..c * r
                /\ ((c * j + i + 1) - 1) % c = i
                /\ ((c * j + i + 1) - 1) \div c = j
<1>1. c * r \in Nat \ {0}
    <2>1. c * r \in Nat
        OBVIOUS
    <2>2. (c - 1) * r \in Nat /\ (c - 1) * r = c * r - r
        OBVIOUS
    <2> QED BY <2>1, <2>2
<1>2. ASSUME NEW t \in 1..c * r
      PROVE  /\ (t - 1) % c \in 0..c - 1
             /\ (t - 1) \div c \in 0..r - 1
             /\ t = c * ((t - 1) \div c) + ((t - 1) % c) + 1
    <2> DEFINE n == t - 1
               q == n \div c
               m == n % c
    <2>1. n \in Nat /\ n < c * r
        BY <1>1
    <2> HIDE DEF n
    <2>2. m \in 0..c - 1 /\ q \in Nat /\ n = c * q + m
        BY <2>1
    <2> HIDE DEF q, m
    <2>3. q < r
        <3> SUFFICES ASSUME q >= r PROVE FALSE
            BY <2>2
        <3>1. q - r \in Nat
            BY <2>2
        <3>2. c * (q - r) \in Nat
            BY <3>1
        <3>3. c * (q - r) = c * q - c * r
            BY <2>2
        <3>4. c * q \in Int
            BY <2>2
        <3> QED BY <1>1, <2>1, <2>2, <3>2, <3>3, <3>4
    <2>4. t = n + 1
        BY DEF n
    <2>5. c * q \in Int
        BY <2>2
    <2> QED BY <2>2, <2>3, <2>4, <2>5 DEF n, q, m
<1>3. ASSUME NEW i \in 0..c - 1, NEW j \in 0..r - 1
      PROVE  /\ c * j + i + 1 \in 1..c * r
             /\ ((c * j + i + 1) - 1) % c = i
             /\ ((c * j + i + 1) - 1) \div c = j
    <2>1. c * j \in Nat
        OBVIOUS
    <2>2. c * j + i < c * r
        <3>1. r - 1 - j \in Nat
            OBVIOUS
        <3>2. c * (r - 1 - j) \in Nat
            BY <3>1
        <3>3. c * (r - 1 - j) = c * r - c - c * j
            OBVIOUS
        <3> QED BY <1>1, <2>1, <3>2, <3>3
    <2> DEFINE n == c * j + i
               q == n \div c
               m == n % c
    <2>3. n \in Nat /\ (c * j + i + 1) - 1 = n
        BY <2>1
    <2>4. n = c * j + i
        OBVIOUS
    <2> HIDE DEF n
    <2>5. m \in 0..c - 1 /\ q \in Nat /\ n = c * q + m
        BY <2>3
    <2> HIDE DEF q, m
    <2>6. q = j
        <3>1. CASE q < j
            <4>1. j - q - 1 \in Nat
                BY <3>1, <2>5
            <4>2. c * (j - q - 1) \in Nat /\ c * (j - q - 1) = c * j - c * q - c
                BY <4>1, <2>5
            <4>3. c * q \in Int
                BY <2>5
            <4> QED BY <2>1, <2>4, <2>5, <4>2, <4>3
        <3>2. CASE q > j
            <4>1. q - j - 1 \in Nat
                BY <3>2, <2>5
            <4>2. c * (q - j - 1) \in Nat /\ c * (q - j - 1) = c * q - c * j - c
                BY <4>1, <2>5
            <4>3. c * q \in Int
                BY <2>5
            <4> QED BY <2>1, <2>4, <2>5, <4>2, <4>3
        <3> QED BY <3>1, <3>2, <2>5
    <2>7. m = i
        BY <2>1, <2>4, <2>5, <2>6
    <2>8. c * j + i + 1 \in 1..c * r
        BY <1>1, <2>1, <2>2
    <2> QED BY <2>3, <2>6, <2>7, <2>8 DEF q, m
<1> QED BY <1>1, <1>2, <1>3

\* Where the tiles of a call lie, and that they are within its area.
LEMMA TilesOfArea ==
    ASSUME NEW zone \in IngestAreas, NEW s \in IngestSizes
    PROVE  /\ zone \in Int \X Int \X Int \X Int /\ zone[1] < zone[3] /\ zone[2] < zone[4] /\ s \in Nat \ {0}
           /\ T!Columns(zone, s) \in Nat \ {0} /\ T!Count(zone[2], zone[4], s) \in Nat \ {0}
           /\ T!TileCount(zone, s) \in Nat \ {0}
           /\ \A t \in 1..T!TileCount(zone, s) :
                LET cut == T!TileBounds(zone, s)[t] IN
                /\ cut[1] \in Int /\ cut[2] \in Int /\ cut[3] \in Int /\ cut[4] \in Int
                /\ zone[1] <= cut[1] /\ cut[3] <= zone[3] /\ zone[2] <= cut[2] /\ cut[4] <= zone[4]
                /\ \A px : T!Owns(px, cut, zone) <=>
                        /\ OwnedBy(2 * px[1] + 1, zone[1], zone[3], s, (t - 1) % T!Columns(zone, s))
                        /\ OwnedBy(2 * px[2] + 1, zone[2], zone[4], s, (t - 1) \div T!Columns(zone, s))
<1> DEFINE c == T!Columns(zone, s)
           r == T!Count(zone[2], zone[4], s)
<1>1. zone \in Int \X Int \X Int \X Int /\ zone[1] < zone[3] /\ zone[2] < zone[4] /\ s \in Nat \ {0}
    BY Assumptions DEF T!TiledIngestAssumption
<1>2. zone[1] \in Int /\ zone[2] \in Int /\ zone[3] \in Int /\ zone[4] \in Int
    BY <1>1
<1>3. c = T!Count(zone[1], zone[3], s) /\ T!TileCount(zone, s) = c * r
    BY DEF T!TileCount, T!Columns
<1>4. c \in Nat \ {0} /\ r \in Nat \ {0}
    BY <1>1, <1>2, <1>3, CountReaches
<1>5. c * r \in Nat \ {0}
    BY <1>4, PlaceOfTile
<1>6. ASSUME NEW t \in 1..T!TileCount(zone, s)
      PROVE  LET cut == T!TileBounds(zone, s)[t] IN
                /\ cut[1] \in Int /\ cut[2] \in Int /\ cut[3] \in Int /\ cut[4] \in Int
                /\ zone[1] <= cut[1] /\ cut[3] <= zone[3] /\ zone[2] <= cut[2] /\ cut[4] <= zone[4]
                /\ \A px : T!Owns(px, cut, zone) <=>
                        /\ OwnedBy(2 * px[1] + 1, zone[1], zone[3], s, (t - 1) % c)
                        /\ OwnedBy(2 * px[2] + 1, zone[2], zone[4], s, (t - 1) \div c)
    <2> DEFINE i == (t - 1) % c
               j == (t - 1) \div c
               cut == T!TileBounds(zone, s)[t]
    <2>1. i \in 0..c - 1 /\ j \in 0..r - 1
        <3>1. t \in 1..c * r
            BY <1>3
        <3> HIDE DEF c, r
        <3> QED BY <1>4, <3>1, PlaceOfTile
    <2>2. cut = <<T!Cut(zone[1], zone[3], s, i), T!Cut(zone[2], zone[4], s, j),
                T!Cut(zone[1], zone[3], s, i + 1), T!Cut(zone[2], zone[4], s, j + 1)>>
        BY DEF T!TileBounds
    <2>3. /\ cut[1] = T!Cut(zone[1], zone[3], s, i) /\ cut[2] = T!Cut(zone[2], zone[4], s, j)
          /\ cut[3] = T!Cut(zone[1], zone[3], s, i + 1) /\ cut[4] = T!Cut(zone[2], zone[4], s, j + 1)
        <3> HIDE DEF cut, i, j
        <3> QED BY <2>2
    <2> HIDE DEF cut, i, j
    <2>4. i \in 0..c /\ i + 1 \in 0..c /\ j \in 0..r /\ j + 1 \in 0..r
        <3> HIDE DEF c, r
        <3> QED BY <1>4, <2>1
    <2>5. T!Cut(zone[1], zone[3], s, i) \in zone[1]..zone[3] /\ T!Cut(zone[1], zone[3], s, i + 1) \in zone[1]..zone[3]
        BY <1>1, <1>2, <1>3, <2>4, CutsAscend
    <2>6. T!Cut(zone[2], zone[4], s, j) \in zone[2]..zone[4] /\ T!Cut(zone[2], zone[4], s, j + 1) \in zone[2]..zone[4]
        BY <1>1, <1>2, <2>4, CutsAscend
    <2>7. \A px : T!Owns(px, cut, zone) <=>
                        /\ OwnedBy(2 * px[1] + 1, zone[1], zone[3], s, i)
                        /\ OwnedBy(2 * px[2] + 1, zone[2], zone[4], s, j)
        BY <2>3 DEF T!Owns, OwnedBy
    <2>8. /\ cut[1] \in Int /\ cut[2] \in Int /\ cut[3] \in Int /\ cut[4] \in Int
          /\ zone[1] <= cut[1] /\ cut[3] <= zone[3] /\ zone[2] <= cut[2] /\ cut[4] <= zone[4]
        BY <1>2, <2>3, <2>5, <2>6
    <2> QED BY <2>7, <2>8 DEF cut, i, j
<1> QED BY <1>1, <1>3, <1>4, <1>5, <1>6

\* Each pixel is owned by one tile.
LEMMA OneTileOwns ==
    ASSUME NEW zone \in IngestAreas, NEW s \in IngestSizes, NEW px, px[1] \in Int, px[2] \in Int
    PROVE  /\ \E t \in 1..T!TileCount(zone, s) : T!Owns(px, T!TileBounds(zone, s)[t], zone)
           /\ \A t, u \in 1..T!TileCount(zone, s) :
                T!Owns(px, T!TileBounds(zone, s)[t], zone) /\ T!Owns(px, T!TileBounds(zone, s)[u], zone) => t = u
<1> DEFINE c == T!Columns(zone, s)
           r == T!Count(zone[2], zone[4], s)
           X(k) == OwnedBy(2 * px[1] + 1, zone[1], zone[3], s, k)
           Y(k) == OwnedBy(2 * px[2] + 1, zone[2], zone[4], s, k)
           xs == 0..c - 1
           ys == 0..r - 1
<1>1. /\ zone[1] \in Int /\ zone[2] \in Int /\ zone[3] \in Int /\ zone[4] \in Int
      /\ zone[1] < zone[3] /\ zone[2] < zone[4] /\ s \in Nat \ {0}
      /\ c \in Nat \ {0} /\ r \in Nat \ {0} /\ T!TileCount(zone, s) = c * r
      /\ \A t \in 1..T!TileCount(zone, s) :
            T!Owns(px, T!TileBounds(zone, s)[t], zone) <=> X((t - 1) % c) /\ Y((t - 1) \div c)
    BY TilesOfArea DEF T!TileCount
<1>2. 2 * px[1] + 1 \in Int /\ 2 * px[2] + 1 \in Int
    OBVIOUS
<1>3. (\E k \in xs : X(k)) /\ \A k, l \in xs : X(k) /\ X(l) => k = l
    BY <1>1, <1>2, OneOwner DEF T!Columns
<1>4. (\E k \in ys : Y(k)) /\ \A k, l \in ys : Y(k) /\ Y(l) => k = l
    <2> DEFINE y == 2 * px[2] + 1
    <2>1. y \in Int
        BY <1>2
    <2> HIDE DEF y
    <2>2. LET places == 0..T!Count(zone[2], zone[4], s) - 1 IN
           /\ \E k \in places : OwnedBy(y, zone[2], zone[4], s, k)
           /\ \A k, l \in places : OwnedBy(y, zone[2], zone[4], s, k) /\ OwnedBy(y, zone[2], zone[4], s, l) => k = l
        BY <1>1, <2>1, OneOwner
    <2> QED BY <2>2 DEF y
<1> HIDE DEF X, Y, c, r
<1>5. /\ \A t \in 1..c * r : /\ (t - 1) % c \in xs
                             /\ (t - 1) \div c \in ys
                             /\ t = c * ((t - 1) \div c) + ((t - 1) % c) + 1
      /\ \A i \in xs, j \in ys :
            /\ c * j + i + 1 \in 1..c * r
            /\ ((c * j + i + 1) - 1) % c = i
            /\ ((c * j + i + 1) - 1) \div c = j
    BY <1>1, PlaceOfTile
<1> HIDE DEF xs, ys
<1>6. \E t \in 1..c * r : X((t - 1) % c) /\ Y((t - 1) \div c)
    <2>1. PICK i \in xs : X(i)
        BY <1>3
    <2>2. PICK j \in ys : Y(j)
        BY <1>4
    <2>3. /\ c * j + i + 1 \in 1..c * r
          /\ ((c * j + i + 1) - 1) % c = i /\ ((c * j + i + 1) - 1) \div c = j
        BY <1>1, <2>1, <2>2, PlaceOfTile DEF xs, ys
    <2> DEFINE n == c * j + i + 1
    <2>4. n \in 1..c * r /\ (n - 1) % c = i /\ (n - 1) \div c = j
        BY <2>3
    <2> HIDE DEF n
    <2> QED BY <2>1, <2>2, <2>4
<1>7. ASSUME NEW t \in 1..c * r, NEW u \in 1..c * r,
             X((t - 1) % c), Y((t - 1) \div c), X((u - 1) % c), Y((u - 1) \div c)
      PROVE  t = u
    <2>1. (t - 1) % c = (u - 1) % c
        BY <1>3, <1>5, <1>7
    <2>2. (t - 1) \div c = (u - 1) \div c
        BY <1>4, <1>5, <1>7
    <2>3. t = c * ((t - 1) \div c) + ((t - 1) % c) + 1
        BY <1>5
    <2>4. u = c * ((u - 1) \div c) + ((u - 1) % c) + 1
        BY <1>5
    <2> QED BY <2>1, <2>2, <2>3, <2>4, Zenon
<1> QED BY <1>1, <1>6, <1>7

\* Once its tiles are read, the pixels an area selects that were fitted are kept
\* by one tile each, and no tile keeps another.
LEMMA KeptPartition ==
    ASSUME tArea \in IngestAreas, tSize \in IngestSizes
    PROVE  /\ UNION {T!Kept(t) : t \in T!Tiles} = {px \in T!Selected : T!Result(px) = "fitted"}
           /\ \A t, u \in T!Tiles : t # u => T!Kept(t) \cap T!Kept(u) = {}
<1>1. /\ tArea[1] \in Int /\ tArea[2] \in Int /\ tArea[3] \in Int /\ tArea[4] \in Int
      /\ \A t \in T!Tiles :
            LET cut == T!Bounds(t) IN
            /\ cut[1] \in Int /\ cut[2] \in Int /\ cut[3] \in Int /\ cut[4] \in Int
            /\ tArea[1] <= cut[1] /\ cut[3] <= tArea[3] /\ tArea[2] <= cut[2] /\ cut[4] <= tArea[4]
    BY TilesOfArea DEF T!Bounds, T!Tiles
<1>2. RasterWidth \in Nat /\ RasterHeight \in Nat
    BY Assumptions DEF T!TiledIngestAssumption
<1>3. ASSUME NEW t \in T!Tiles, NEW px
      PROVE  /\ px \in T!Window(T!Bounds(t)) => px \in T!Window(tArea)
             /\ px \in T!Window(tArea) /\ T!Owns(px, T!Bounds(t), tArea) => px \in T!Window(T!Bounds(t))
    <2> DEFINE cut == T!Bounds(t)
    <2>1. /\ cut[1] \in Int /\ cut[2] \in Int /\ cut[3] \in Int /\ cut[4] \in Int
          /\ tArea[1] <= cut[1] /\ cut[3] <= tArea[3] /\ tArea[2] <= cut[2] /\ cut[4] <= tArea[4]
        BY <1>1
    <2> HIDE DEF cut
    <2>2. \A p : /\ p \in T!Indices(cut[1], cut[3], RasterWidth) => p \in T!Indices(tArea[1], tArea[3], RasterWidth)
                 /\ p \in T!Indices(tArea[1], tArea[3], RasterWidth) /\ T!OwnsOn(2 * p + 1, cut[1], cut[3], tArea[1], tArea[3])
                      => p \in T!Indices(cut[1], cut[3], RasterWidth)
        <3> DEFINE low == cut[1]
                   high == cut[3]
                   from == tArea[1]
                   to == tArea[3]
        <3>1. low \in Int /\ high \in Int /\ from \in Int /\ to \in Int /\ from <= low /\ high <= to
            BY <1>1, <2>1
        <3> HIDE DEF low, high, from, to
        <3>2. ASSUME NEW p
              PROVE /\ p \in T!Indices(low, high, RasterWidth) => p \in T!Indices(from, to, RasterWidth)
                    /\ p \in T!Indices(from, to, RasterWidth) /\ T!OwnsOn(2 * p + 1, low, high, from, to)
                         => p \in T!Indices(low, high, RasterWidth)
            BY <1>2, <3>1, TileOfAxis
        <3> QED BY <3>2 DEF low, high, from, to
    <2>3. \A p : /\ p \in T!Indices(cut[2], cut[4], RasterHeight) => p \in T!Indices(tArea[2], tArea[4], RasterHeight)
                 /\ p \in T!Indices(tArea[2], tArea[4], RasterHeight) /\ T!OwnsOn(2 * p + 1, cut[2], cut[4], tArea[2], tArea[4])
                      => p \in T!Indices(cut[2], cut[4], RasterHeight)
        <3> DEFINE low == cut[2]
                   high == cut[4]
                   from == tArea[2]
                   to == tArea[4]
        <3>1. low \in Int /\ high \in Int /\ from \in Int /\ to \in Int /\ from <= low /\ high <= to
            BY <1>1, <2>1
        <3> HIDE DEF low, high, from, to
        <3>2. ASSUME NEW p
              PROVE /\ p \in T!Indices(low, high, RasterHeight) => p \in T!Indices(from, to, RasterHeight)
                    /\ p \in T!Indices(from, to, RasterHeight) /\ T!OwnsOn(2 * p + 1, low, high, from, to)
                         => p \in T!Indices(low, high, RasterHeight)
            BY <1>2, <3>1, TileOfAxis
        <3> QED BY <3>2 DEF low, high, from, to
    <2>4. px \in T!Window(cut) => px \in T!Window(tArea)
        BY <2>2, <2>3 DEF T!Window
    <2>5. px \in T!Window(tArea) /\ T!Owns(px, cut, tArea) => px \in T!Window(cut)
        BY <2>2, <2>3 DEF T!Window, T!Owns
    <2> QED BY <2>4, <2>5 DEF cut
<1>4. ASSUME NEW px \in T!Window(tArea)
      PROVE  /\ \E t \in T!Tiles : T!Owns(px, T!Bounds(t), tArea)
             /\ \A t, u \in T!Tiles : T!Owns(px, T!Bounds(t), tArea) /\ T!Owns(px, T!Bounds(u), tArea) => t = u
    <2>1. px[1] \in T!Indices(tArea[1], tArea[3], RasterWidth) /\ px[2] \in T!Indices(tArea[2], tArea[4], RasterHeight)
        BY DEF T!Window
    <2>2. px[1] \in Int /\ px[2] \in Int
        BY <1>1, <1>2, <2>1, InIndices
    <2> QED BY <2>2, OneTileOwns DEF T!Bounds, T!Tiles
<1>5. \A t \in T!Tiles : \A px : px \in T!Kept(t) <=>
            px \in T!Window(T!Bounds(t)) /\ T!Result(px) = "fitted" /\ T!Owns(px, T!Bounds(t), tArea)
    BY DEF T!Kept, T!Fitted
<1>6. \A t \in T!Tiles : \A px : px \in T!Kept(t) <=>
            px \in T!Window(tArea) /\ T!Result(px) = "fitted" /\ T!Owns(px, T!Bounds(t), tArea)
    BY <1>3, <1>5
<1>7. UNION {T!Kept(t) : t \in T!Tiles} = {px \in T!Selected : T!Result(px) = "fitted"}
    BY <1>4, <1>6 DEF T!Selected
<1>8. \A t, u \in T!Tiles : t # u => T!Kept(t) \cap T!Kept(u) = {}
    BY <1>4, <1>6
<1> QED BY <1>7, <1>8

\* A grid of one tile is the area.
LEMMA OneTileIsItsArea ==
    ASSUME tArea \in IngestAreas, tSize \in IngestSizes, T!Tiles = {1}
    PROVE  T!Window(T!Bounds(1)) = T!Selected
<1> DEFINE c == T!Columns(tArea, tSize)
           r == T!Count(tArea[2], tArea[4], tSize)
<1>1. /\ tArea[1] \in Int /\ tArea[2] \in Int /\ tArea[3] \in Int /\ tArea[4] \in Int
      /\ tArea[1] < tArea[3] /\ tArea[2] < tArea[4] /\ tSize \in Nat \ {0}
      /\ c \in Nat \ {0} /\ r \in Nat \ {0} /\ T!TileCount(tArea, tSize) = c * r
    BY TilesOfArea DEF T!TileCount
<1>2. c = T!Count(tArea[1], tArea[3], tSize)
    BY DEF T!Columns
<1> HIDE DEF c, r
<1>3. c * r = 1
    <2>1. c * r \in Nat \ {0}
        BY <1>1, PlaceOfTile
    <2>2. c * r \in T!Tiles
        BY <1>1, <2>1 DEF T!Tiles
    <2> QED BY <2>2
<1>4. c = 1 /\ r = 1
    <2>1. (c - 1) * (r - 1) \in Nat /\ (c - 1) * (r - 1) = c * r - c - r + 1
        BY <1>1
    <2> QED BY <1>1, <1>3, <2>1
<1>5. (1 - 1) % c = 0 /\ (1 - 1) \div c = 0
    BY <1>4
<1>6. /\ T!Cut(tArea[1], tArea[3], tSize, 0) = tArea[1] /\ T!Cut(tArea[1], tArea[3], tSize, 1) = tArea[3]
    <2>1. T!Count(tArea[1], tArea[3], tSize) = 1
        BY <1>2, <1>4
    <2>2. 0 \in 0..1 /\ 1 \in 0..1
        OBVIOUS
    <2> QED BY <1>1, <2>1, <2>2, CutsAscend
<1>7. /\ T!Cut(tArea[2], tArea[4], tSize, 0) = tArea[2] /\ T!Cut(tArea[2], tArea[4], tSize, 1) = tArea[4]
    <2>1. T!Count(tArea[2], tArea[4], tSize) = 1
        BY <1>4 DEF r
    <2>2. 0 \in 0..1 /\ 1 \in 0..1
        OBVIOUS
    <2> QED BY <1>1, <2>1, <2>2, CutsAscend
<1>8. T!Bounds(1) = <<tArea[1], tArea[2], tArea[3], tArea[4]>>
    <2>1. 1 \in 1..T!TileCount(tArea, tSize)
        BY <1>1, <1>3
    <2>2. T!TileBounds(tArea, tSize)[1] =
            <<T!Cut(tArea[1], tArea[3], tSize, (1 - 1) % c), T!Cut(tArea[2], tArea[4], tSize, (1 - 1) \div c),
              T!Cut(tArea[1], tArea[3], tSize, ((1 - 1) % c) + 1), T!Cut(tArea[2], tArea[4], tSize, ((1 - 1) \div c) + 1)>>
        BY <2>1 DEF T!TileBounds, c
    <2>3. 0 + 1 = 1
        OBVIOUS
    <2> QED BY <1>5, <1>6, <1>7, <2>2, <2>3 DEF T!Bounds
<1> QED BY <1>8 DEF T!Window, T!Selected

-----------------------------------------------------------------------------
LEMMA TilesInitial == T!Init => T!IInv
<1> SUFFICES ASSUME T!Init PROVE T!IInv
    OBVIOUS
<1>1. T!ShardsOK
    BY DEF T!Init, T!ShardsOK
<1>2. T!Tiles = {1} => tTile[1] = "todo" /\ tPartial = T!No /\ tOpeners[1] = {}
    BY DEF T!Init
<1>3. T!OneTileOK \/ T!Tiles # {1}
    BY <1>2 DEF T!OneTileOK
<1> QED BY <1>1, <1>3 DEF T!Init, T!IInv

\* What the actions of tiles leave alone.
LEMMA KeptIsOfTheCall ==
    ASSUME UNCHANGED T!call
    PROVE  /\ tArea' = tArea /\ tSize' = tSize /\ tPolicy' = tPolicy /\ tRaster' = tRaster
           /\ T!Tiles' = T!Tiles
           /\ \A t : T!Kept(t)' = T!Kept(t) /\ T!Bounds(t)' = T!Bounds(t)
    BY DEF T!call, T!Tiles, T!Kept, T!Fitted, T!Bounds, T!Result

\* Each step of a worker keeps the invariant: only the tile whose step it is changes.
LEMMA TilesInductive == T!IInv /\ [T!Next]_(T!vars) => T!IInv'
<1> SUFFICES ASSUME T!IInv, [T!Next]_(T!vars) PROVE T!IInv'
    OBVIOUS
<1> DEFINE S == {"todo", "open", "fitted", "done", "failed"}
<1>1. UNCHANGED T!call
    BY DEF T!Next, T!vars, T!Clean, T!Return, T!Open, T!Outside, T!TileFails, T!FitTile, T!WriteShard
<1>2. /\ tArea' = tArea /\ tSize' = tSize /\ tPolicy' = tPolicy /\ tRaster' = tRaster
      /\ T!Tiles' = T!Tiles
      /\ \A t : T!Kept(t)' = T!Kept(t) /\ T!Bounds(t)' = T!Bounds(t)
    BY <1>1, KeptIsOfTheCall
<1>3. \A t \in T!Tiles : T!Window(T!Bounds(t)) = {} => T!Kept(t) = {}
    BY DEF T!Kept, T!Fitted
<1>4. \A t \in T!Tiles : t \in DOMAIN tShard /\ t \in 0..T!TileCount(tArea, tSize) + 1
    <2>1. T!TileCount(tArea, tSize) \in Nat
        BY TilesOfArea DEF T!IInv
    <2> QED BY <2>1 DEF T!IInv, T!ShardsOK, T!Tiles
<1>5. CASE UNCHANGED T!vars
    BY <1>2, <1>5 DEF T!IInv, T!ShardsOK, T!OneTileOK, T!vars, T!call
<1>6. CASE T!Clean
    <2>1. T!ShardsOK'
        BY <1>2, <1>6 DEF T!Clean, T!IInv, T!ShardsOK
    <2>2. UNCHANGED <<tTile, tPartial, tSidecar, tOpeners>>
        BY <1>6 DEF T!Clean
    <2>3. T!Tiles = {1} /\ tPolicy.diagnostics => T!OneTileOK'
        BY <1>2, <2>2 DEF T!IInv, T!OneTileOK
    <2> QED BY <1>2, <1>6, <2>1, <2>3 DEF T!Clean, T!IInv
<1>7. CASE T!Return
    <2>1. UNCHANGED <<tTile, tShard, tPartial, tSidecar, tOpeners>>
        BY <1>7 DEF T!Return
    <2>2. T!ShardsOK'
        BY <1>2, <1>7, <2>1 DEF T!Return, T!IInv, T!ShardsOK
    <2>3. T!Tiles = {1} /\ tPolicy.diagnostics => T!OneTileOK'
        BY <1>2, <2>1 DEF T!IInv, T!OneTileOK
    <2> QED BY <1>2, <1>7, <2>1, <2>2, <2>3 DEF T!Return, T!IInv
<1>8. ASSUME NEW t \in T!Tiles, T!Open(t) PROVE T!IInv'
    <2>1. /\ tTile[t] = "todo" /\ tTile' = [tTile EXCEPT ![t] = "open"]
          /\ tPc = "run" /\ tPc' = tPc /\ tShard' = tShard /\ tSidecar' = tSidecar
        BY <1>8 DEF T!Open
    <2>2. DOMAIN tOpeners' = T!Tiles
        BY <1>8 DEF T!Open, T!IInv
    <2>3. T!ShardsOK'
        BY <1>2, <2>1 DEF T!IInv, T!ShardsOK
    <2>4. T!Tiles = {1} /\ tPolicy.diagnostics => T!OneTileOK'
        <3> SUFFICES ASSUME T!Tiles = {1}, tPolicy.diagnostics PROVE T!OneTileOK'
            OBVIOUS
        <3>1. t = 1 /\ tPartial = T!No /\ tOpeners[1] = {}
            BY <2>1 DEF T!IInv, T!OneTileOK
        <3>2. tPartial' = 1 /\ tOpeners' = [tOpeners EXCEPT ![1] = @ \cup {1}]
            BY <1>8, <3>1 DEF T!Open
        <3>3. tOpeners'[1] = {1} /\ tTile'[1] = "open"
            BY <2>1, <3>1, <3>2 DEF T!IInv
        <3> QED BY <3>2, <3>3 DEF T!OneTileOK
    <2> QED BY <1>2, <2>1, <2>2, <2>3, <2>4 DEF T!IInv
<1>9. ASSUME NEW t \in T!Tiles, T!Outside(t) PROVE T!IInv'
    <2>1. /\ tTile[t] = "open" /\ T!Window(T!Bounds(t)) = {} /\ tTile' = [tTile EXCEPT ![t] = "done"]
          /\ tPc' = tPc /\ tShard' = tShard /\ tSidecar' = tSidecar /\ tOpeners' = tOpeners
        BY <1>9 DEF T!Outside
    <2>2. tPc \notin {"start", "done"}
        BY <2>1 DEF T!IInv
    <2>3. T!ShardsOK'
        BY <1>2, <1>3, <1>4, <2>1 DEF T!IInv, T!ShardsOK
    <2>4. T!Tiles = {1} /\ tPolicy.diagnostics => T!OneTileOK'
        <3> SUFFICES ASSUME T!Tiles = {1}, tPolicy.diagnostics PROVE T!OneTileOK'
            OBVIOUS
        <3>1. t = 1 /\ tTile'[1] = "done" /\ T!Window(T!Bounds(1)') = {}
            BY <1>2, <2>1 DEF T!IInv
        <3>2. T!Window(T!Bounds(1))' = {}
            BY <3>1 DEF T!Window
        <3> QED BY <3>1, <3>2 DEF T!OneTileOK
    <2> QED BY <1>2, <2>1, <2>2, <2>3, <2>4 DEF T!IInv
<1>10. ASSUME NEW t \in T!Tiles, T!TileFails(t) PROVE T!IInv'
    <2>1. /\ tTile[t] = "open" /\ tTile' = [tTile EXCEPT ![t] = "failed"]
          /\ tPc' = tPc /\ tShard' = tShard /\ tSidecar' = tSidecar /\ tOpeners' = tOpeners
        BY <1>10 DEF T!TileFails
    <2>2. tPc \notin {"start", "done"}
        BY <2>1 DEF T!IInv
    <2>3. T!ShardsOK'
        BY <1>2, <1>4, <2>1 DEF T!IInv, T!ShardsOK
    <2>4. T!Tiles = {1} /\ tPolicy.diagnostics => T!OneTileOK'
        BY <2>1 DEF T!IInv, T!OneTileOK
    <2> QED BY <1>2, <2>1, <2>2, <2>3, <2>4 DEF T!IInv
<1>11. ASSUME NEW t \in T!Tiles, T!FitTile(t) PROVE T!IInv'
    <2>1. /\ tTile[t] = "open" /\ tTile' = [tTile EXCEPT ![t] = "fitted"]
          /\ tPc' = tPc /\ tShard' = tShard /\ tOpeners' = tOpeners
          /\ tPolicy.diagnostics => tSidecar' = tPartial
        BY <1>11 DEF T!FitTile
    <2>2. tPc \notin {"start", "done"}
        BY <2>1 DEF T!IInv
    <2>3. T!ShardsOK'
        BY <1>2, <1>4, <2>1 DEF T!IInv, T!ShardsOK
    <2>4. T!Tiles = {1} /\ tPolicy.diagnostics => T!OneTileOK'
        BY <2>1 DEF T!IInv, T!OneTileOK
    <2> QED BY <1>2, <2>1, <2>2, <2>3, <2>4 DEF T!IInv
<1>12. ASSUME NEW t \in T!Tiles, T!WriteShard(t) PROVE T!IInv'
    <2>1. /\ tTile[t] = "fitted" /\ tPc' = tPc /\ UNCHANGED <<tPartial, tSidecar, tOpeners>>
          /\ \/ tTile' = [tTile EXCEPT ![t] = "done"] /\ tShard' = [tShard EXCEPT ![t] = T!Kept(t)]
             \/ tTile' = [tTile EXCEPT ![t] = "failed"] /\ tShard' = tShard
        BY <1>12 DEF T!WriteShard
    <2>2. tPc \notin {"start", "done"}
        BY <2>1 DEF T!IInv
    <2>3. T!ShardsOK'
        <3>1. CASE tTile' = [tTile EXCEPT ![t] = "done"] /\ tShard' = [tShard EXCEPT ![t] = T!Kept(t)]
            BY <1>2, <1>4, <2>1, <2>2, <3>1 DEF T!IInv, T!ShardsOK
        <3>2. CASE tTile' = [tTile EXCEPT ![t] = "failed"] /\ tShard' = tShard
            BY <1>2, <1>4, <2>1, <2>2, <3>2 DEF T!IInv, T!ShardsOK
        <3> QED BY <2>1, <3>1, <3>2
    <2>4. T!Tiles = {1} /\ tPolicy.diagnostics => T!OneTileOK'
        <3> SUFFICES ASSUME T!Tiles = {1}, tPolicy.diagnostics PROVE T!OneTileOK'
            OBVIOUS
        <3>1. t = 1 /\ tTile'[1] \in {"done", "failed"}
            BY <2>1 DEF T!IInv
        <3>2. T!Bounds(1)' = T!Bounds(1) /\ T!Window(T!Bounds(1))' = T!Window(T!Bounds(1)')
            BY <1>2 DEF T!Window
        <3> QED BY <2>1, <3>1, <3>2 DEF T!IInv, T!OneTileOK
    <2> QED BY <1>2, <2>1, <2>2, <2>3, <2>4 DEF T!IInv
<1> QED BY <1>5, <1>6, <1>7, <1>8, <1>9, <1>10, <1>11, <1>12 DEF T!Next

\* The invariant is enough: each pixel is in the shard of the one tile that owns it.
LEMMA TilesHonest == T!IInv => T!ShardsPartitionPixels /\ T!SidecarOfOneTile
<1> SUFFICES ASSUME T!IInv PROVE T!ShardsPartitionPixels /\ T!SidecarOfOneTile
    OBVIOUS
<1>1. T!ShardsPartitionPixels
    <2> SUFFICES ASSUME tPc = "done" PROVE
            /\ UNION {tShard[t] : t \in DOMAIN tShard} = {px \in T!Selected : T!Result(px) = "fitted"}
            /\ \A t, u \in DOMAIN tShard : t # u => tShard[t] \cap tShard[u] = {}
        BY DEF T!ShardsPartitionPixels
    <2>1. /\ T!Tiles \subseteq DOMAIN tShard
          /\ \A t \in DOMAIN tShard : tShard[t] = IF t \in T!Tiles THEN T!Kept(t) ELSE {}
        <3>1. T!TileCount(tArea, tSize) \in Nat
            BY TilesOfArea DEF T!IInv
        <3> QED BY <3>1 DEF T!IInv, T!ShardsOK, T!Tiles
    <2>2. UNION {tShard[t] : t \in DOMAIN tShard} = UNION {T!Kept(t) : t \in T!Tiles}
        BY <2>1
    <2>3. \A t, u \in T!Tiles : t # u => T!Kept(t) \cap T!Kept(u) = {}
        BY KeptPartition DEF T!IInv
    <2>4. \A t, u \in DOMAIN tShard : t # u => tShard[t] \cap tShard[u] = {}
        BY <2>1, <2>3
    <2> QED BY <2>2, <2>4, KeptPartition DEF T!IInv
<1>2. T!SidecarOfOneTile
    <2> SUFFICES ASSUME Cardinality(T!Tiles) = 1, tPc = "done", tPolicy.diagnostics, T!Selected # {}
                 PROVE  T!Recorded = T!Selected
        BY TiledSets DEF T!SidecarOfOneTile, T!SidecarDescribesRun
    <2>1. T!Tiles = {1}
        <3>1. T!TileCount(tArea, tSize) \in Nat \ {0}
            BY TilesOfArea DEF T!IInv
        <3>2. Cardinality(1..T!TileCount(tArea, tSize)) = T!TileCount(tArea, tSize)
            BY <3>1, FS_Interval
        <3>3. T!TileCount(tArea, tSize) = 1
            BY <3>2 DEF T!Tiles
        <3> QED BY <3>3 DEF T!Tiles
    <2>2. T!Window(T!Bounds(1)) = T!Selected
        BY <2>1, OneTileIsItsArea DEF T!IInv
    <2>3. tSidecar = 1 /\ tOpeners[1] = {1}
        BY <2>1, <2>2 DEF T!IInv, T!OneTileOK
    <2>4. Cardinality({1}) = 1 /\ (CHOOSE t \in {1} : TRUE) = 1
        BY FS_Singleton
    <2> QED BY <2>2, <2>3, <2>4, TiledSets DEF T!Recorded, T!No
<1> QED BY <1>1, <1>2

LEMMA SoundTiles == T!Spec => [](T!ShardsPartitionPixels /\ T!SidecarOfOneTile)
<1>1. T!Init => T!IInv
    BY TilesInitial
<1>2. T!IInv /\ [T!Next]_(T!vars) => T!IInv'
    BY TilesInductive
<1>3. T!IInv => T!ShardsPartitionPixels /\ T!SidecarOfOneTile
    BY TilesHonest
<1> QED BY <1>1, <1>2, <1>3, PTL DEF T!Spec

-----------------------------------------------------------------------------
(***************************************************************************)
(* Archives: an archive is of the layers its build asked for, and shares of*)
(* the disk that add up are enough.                                        *)
(***************************************************************************)

LEMMA ArchiveAssumed == A!PMTilesAssumption
BY Assumptions

\* Sums of finitely many numbers, and builds that are as many.
LEMMA TotalIs == IsFiniteSet(Proc) /\ \A f : A!Total(f) = Cardinality(A!Pairs(f))
<1>1. \A S : A!Cardinality(S) = Cardinality(S)
    BY DEF A!Cardinality, Cardinality, A!IsFiniteSet, IsFiniteSet
<1>2. \A S : A!IsFiniteSet(S) <=> IsFiniteSet(S)
    BY DEF A!IsFiniteSet, IsFiniteSet
<1>3. IsFiniteSet(Proc)
    BY <1>2, Assumptions DEF A!PMTilesAssumption
<1> QED BY <1>1, <1>3 DEF A!Total

\* Pairs are finite, and a function that is nowhere greater and once less has
\* a smaller total.
LEMMA TotalIsNatural ==
    ASSUME NEW S, IsFiniteSet(S), NEW f, DOMAIN f = S, \A x \in S : f[x] \in Int
    PROVE  IsFiniteSet(A!Pairs(f)) /\ A!Total(f) \in Nat
<1> DEFINE parts == {{x} \X (1..f[x]) : x \in S}
<1>1. IsFiniteSet(parts)
    <2>1. \A x \in S : {x} \X (1..f[x]) \in parts
        OBVIOUS
    <2> DEFINE g == [x \in S |-> {x} \X (1..f[x])]
    <2>2. g \in Surjection(S, parts)
        BY DEF Surjection
    <2> HIDE DEF g, parts
    <2> QED BY <2>2, FS_Surjection
<1>2. \A Larger \in parts : IsFiniteSet(Larger)
    <2>1. ASSUME NEW x \in S PROVE IsFiniteSet({x} \X (1..f[x]))
        <3>1. IsFiniteSet({x})
            BY FS_Singleton
        <3>2. f[x] \in Int /\ 1 \in Int
            OBVIOUS
        <3>3. IsFiniteSet(1..f[x])
            BY <3>2, FS_Interval
        <3> HIDE DEF parts
        <3> QED BY <3>1, <3>3, FS_Product
    <2> QED BY <2>1
<1>3. IsFiniteSet(UNION parts)
    <2> HIDE DEF parts
    <2> QED BY <1>1, <1>2, FS_UNION
<1>4. A!Pairs(f) = UNION parts
    BY DEF A!Pairs
<1> HIDE DEF parts
<1> QED BY <1>3, <1>4, FS_CardinalityType, TotalIs

\* The units of a function, one by one.
LEMMA PairsAre ==
    ASSUME NEW f, NEW x, NEW n
    PROVE  <<x, n>> \in A!Pairs(f) <=> x \in DOMAIN f /\ n \in 1..f[x]
BY DEF A!Pairs

\* A sum of which each positive part is a part of another sum is no greater.
LEMMA SmallerTotal ==
    ASSUME NEW S, IsFiniteSet(S), NEW f, DOMAIN f = S, \A x \in S : f[x] \in Int,
           NEW Larger, IsFiniteSet(Larger), NEW g, DOMAIN g = Larger, \A x \in Larger : g[x] \in Int,
           \A x \in S : f[x] > 0 => x \in Larger /\ f[x] <= g[x],
           NEW y \in S, y \in Larger, f[y] < g[y], g[y] > 0
    PROVE  A!Total(f) < A!Total(g)
<1>1. /\ IsFiniteSet(A!Pairs(f)) /\ A!Total(f) \in Nat
      /\ IsFiniteSet(A!Pairs(g)) /\ A!Total(g) \in Nat
    BY TotalIsNatural
<1>2. A!Pairs(f) \subseteq A!Pairs(g)
    BY DEF A!Pairs
<1>3. <<y, g[y]>> \in A!Pairs(g) /\ <<y, g[y]>> \notin A!Pairs(f)
    BY PairsAre
<1> QED BY <1>1, <1>2, <1>3, FS_Subset, TotalIs

\* A sum of which one part grows by one grows by one.
LEMMA OneMore ==
    ASSUME NEW S, IsFiniteSet(S), NEW f \in [S -> Nat], NEW p \in S,
           NEW g \in [S -> Nat], g[p] = f[p] + 1, \A x \in S \ {p} : g[x] = f[x]
    PROVE  A!Total(g) = A!Total(f) + 1
<1>1. IsFiniteSet(A!Pairs(f))
    BY TotalIsNatural
<1>2. A!Pairs(g) = A!Pairs(f) \cup {<<p, g[p]>>}
    <2>1. ASSUME NEW x \in S, NEW n \in Int
          PROVE  n \in 1..g[x] <=> (n \in 1..f[x] \/ (x = p /\ n = g[p]))
        OBVIOUS
    <2> QED BY <2>1 DEF A!Pairs
<1>3. <<p, g[p]>> \notin A!Pairs(f)
    BY PairsAre
<1> QED BY <1>1, <1>2, <1>3, FS_AddElement, TotalIs

\* A sum without one of its parts is less by it.
LEMMA OneDropped ==
    ASSUME NEW S, IsFiniteSet(S), NEW f \in [S -> Nat], NEW p \in S,
           NEW g \in [S -> Nat], g[p] = 0, \A x \in S \ {p} : g[x] = f[x]
    PROVE  A!Total(f) = A!Total(g) + f[p]
<1> DEFINE owned == {p} \X (1..f[p])
<1>1. IsFiniteSet(A!Pairs(g))
    BY TotalIsNatural
<1>2. IsFiniteSet(owned) /\ Cardinality(owned) = f[p]
    <2>1. IsFiniteSet({p}) /\ Cardinality({p}) = 1
        BY FS_Singleton
    <2>2. IsFiniteSet(1..f[p]) /\ Cardinality(1..f[p]) = f[p]
        BY FS_Interval
    <2>3. IsFiniteSet({p} \X (1..f[p])) /\ Cardinality({p} \X (1..f[p])) = Cardinality({p}) * Cardinality(1..f[p])
        BY <2>1, <2>2, FS_Product, Zenon
    <2> QED BY <2>1, <2>2, <2>3
<1>3. A!Pairs(f) = A!Pairs(g) \cup owned
    BY DEF A!Pairs
<1>4. A!Pairs(g) \cap owned = {}
    BY DEF A!Pairs
<1>5. Cardinality({}) = 0
    BY FS_EmptySet
<1>6. Cardinality(A!Pairs(g)) \in Nat
    BY <1>1, FS_CardinalityType
<1> HIDE DEF owned
<1>7. Cardinality(A!Pairs(f)) = Cardinality(A!Pairs(g)) + f[p]
    <2>1. Cardinality(A!Pairs(g) \cup owned) = Cardinality(A!Pairs(g)) + Cardinality(owned) - Cardinality(A!Pairs(g) \cap owned)
        BY <1>1, <1>2, FS_Union, Zenon
    <2>2. Cardinality(A!Pairs(f)) = Cardinality(A!Pairs(g)) + Cardinality(owned) - 0
        BY <1>3, <1>4, <1>5, <2>1, Zenon
    <2> QED BY <1>2, <1>6, <2>2
<1> QED BY <1>7, TotalIs

\* A sum of zeros is zero.
LEMMA NothingUsed ==
    ASSUME NEW S, NEW f, DOMAIN f = S, \A x \in S : f[x] = 0
    PROVE  A!Total(f) = 0
<1>1. A!Pairs(f) = {}
    BY DEF A!Pairs
<1> QED BY <1>1, FS_EmptySet, TotalIs

-----------------------------------------------------------------------------
\* A build whose state does not change stays sound.
LEMMA OtherBuildsStay ==
    ASSUME NEW q, A!CallOK(q), q \in Proc, aPc'[q] = aPc[q], aCall'[q] = aCall[q]
    PROVE  A!CallOK(q)'
BY DEF A!CallOK, A!Share, A!Live

\* The invariant is kept by a step of one build that takes no disk.
LEMMA QuietArchiveStep ==
    ASSUME A!IInv, NEW p \in Proc, DOMAIN aPc' = Proc, DOMAIN aCall' = Proc,
           \A q \in Proc \ {p} : aPc'[q] = aPc[q] /\ aCall'[q] = aCall[q],
           aCall'[p].scratch = aCall[p].scratch, A!CallOK(p)', UNCHANGED aFree,
           DOMAIN aArchive' = DOMAIN aArchive, \A place \in DOMAIN aArchive : A!ArchiveOK(place)'
    PROVE  A!IInv'
<1>1. [r \in Proc |-> aCall'[r].scratch] = [r \in Proc |-> aCall[r].scratch]
    BY DEF A!IInv
<1>2. \A q \in Proc : A!CallOK(q)'
    BY OtherBuildsStay DEF A!IInv
<1> QED BY <1>1, <1>2 DEF A!IInv

\* A step that leaves its scratch, the disk and the archives alone keeps the invariant
\* if its own call is right.
LEMMA QuietBuild ==
    ASSUME A!IInv, NEW p \in Proc, NEW c, NEW label,
           aCall' = [aCall EXCEPT ![p] = c], c.scratch = aCall[p].scratch,
           aPc' = [aPc EXCEPT ![p] = label], A!CallOK(p)', UNCHANGED aFree,
           DOMAIN aArchive' = DOMAIN aArchive, \A place \in DOMAIN aArchive : A!ArchiveOK(place)'
    PROVE  A!IInv'
<1>1. /\ DOMAIN aPc' = Proc /\ DOMAIN aCall' = Proc
      /\ \A q \in Proc \ {p} : aPc'[q] = aPc[q] /\ aCall'[q] = aCall[q]
      /\ aCall'[p].scratch = aCall[p].scratch
    BY DEF A!IInv
<1> QED BY <1>1, QuietArchiveStep

\* Archives nobody writes stay what they are.
LEMMA ArchivesStay ==
    ASSUME A!IInv, UNCHANGED aArchive
    PROVE  DOMAIN aArchive' = DOMAIN aArchive /\ \A place \in DOMAIN aArchive : A!ArchiveOK(place)'
BY DEF A!IInv, A!ArchiveOK

LEMMA ArchiveInit == A!Init => A!IInv
<1> SUFFICES ASSUME A!Init PROVE A!IInv
    OBVIOUS
<1> USE ArchiveAssumed, TotalIs DEF A!PMTilesAssumption
<1>1. A!Total([p \in Proc |-> aCall[p].scratch]) = 0
    <2>1. \A p \in Proc : [r \in Proc |-> aCall[r].scratch][p] = 0
        BY DEF A!Init, A!Idle
    <2> QED BY <2>1, NothingUsed
<1>2. \A p \in Proc : A!CallOK(p)
    BY DEF A!Init, A!Idle, A!CallOK, A!Live
<1>3. DOMAIN aArchive = {"local", "remote"} /\ \A place \in DOMAIN aArchive : A!ArchiveOK(place)
    BY DEF A!Init, A!ArchiveOK
<1> QED BY <1>1, <1>2, <1>3 DEF A!Init, A!IInv

LEMMA ArchiveStartStep == ASSUME A!IInv, NEW p \in Proc, A!Start(p) PROVE A!IInv'
<1>1. PICK build \in Builds :
        /\ build.layers # <<>> /\ \A i \in DOMAIN build.layers : A!ValidLayer(build.layers[i])
        /\ aCall' = [aCall EXCEPT ![p].build = build]
    BY DEF A!Start
<1>2. A!CallOK(p) /\ DOMAIN aCall = Proc /\ DOMAIN aPc = Proc
    BY DEF A!IInv
<1>3. aPc' = [aPc EXCEPT ![p] = "detect"] /\ aPc[p] = "idle" /\ UNCHANGED aFree
    BY DEF A!Start, A!Goto
<1> DEFINE c == [aCall[p] EXCEPT !.build = build]
<1>4. aCall' = [aCall EXCEPT ![p] = c] /\ c.scratch = aCall[p].scratch
    BY <1>1, <1>2 DEF A!CallOK
<1>5. A!CallOK(p)'
    BY <1>1, <1>2, <1>3 DEF A!CallOK, A!Live
<1> HIDE DEF c
<1> QED BY <1>3, <1>4, <1>5, QuietBuild, ArchivesStay DEF A!Start

\* The share of the disk that a build may fill.
LEMMA FractionIsAPair ==
    ASSUME NEW build \in Builds
    PROVE  A!Fraction(build) \in Int \X (Nat \ {0})
<1> USE ArchiveAssumed, TotalIs DEF A!PMTilesAssumption
<1>1. CASE build.fraction # None
    BY <1>1 DEF A!Fraction, A!Default
<1>2. CASE build.fraction = None
    <2> DEFINE usable == {f \in {build.envFraction} \ {None} : A!InUnit(f)}
    <2>1. usable \subseteq Int \X (Nat \ {0}) /\ <<1, 4>> \in Int \X (Nat \ {0})
        OBVIOUS
    <2>2. A!Fraction(build) = CHOOSE v \in (IF usable # {} THEN usable ELSE {<<1, 4>>}) : TRUE
        BY <1>2 DEF A!Fraction, A!Default
    <2> HIDE DEF usable
    <2> QED BY <2>1, <2>2
<1> QED BY <1>1, <1>2

\* What is divided reaches as far as its least multiple.
LEMMA FloorIsReached ==
    ASSUME NEW least \in Nat, NEW m \in Nat, NEW n \in Nat, NEW d \in Nat \ {0}, least * d <= m * n
    PROVE  least <= (m * n) \div d
<1> DEFINE x == m * n
<1>1. x \in Nat /\ least * d <= x
    OBVIOUS
<1> HIDE DEF x
<1>2. least <= x \div d
    BY <1>1
<1> QED BY <1>2 DEF x

\* A greater fraction of the disk is no smaller a share.
LEMMA SharesGrow ==
    ASSUME NEW m \in Nat, NEW n \in Nat, m <= n, NEW k \in Nat, NEW d \in Nat \ {0}
    PROVE  (m * k) \div d \in Nat /\ (m * k) \div d <= (n * k) \div d
<1>1. m * k \in Nat /\ n * k \in Nat /\ m * k <= n * k
    OBVIOUS
<1> QED BY <1>1

\* What a build detects is no more than its share, unless the floor is above it.
LEMMA ArchiveDetectStep == ASSUME A!IInv, NEW p \in Proc, A!Detect(p) PROVE A!IInv'
<1> USE ArchiveAssumed, TotalIs DEF A!PMTilesAssumption
<1> DEFINE build == aCall[p].build
           f == A!Fraction(build)
           c == [[aCall[p] EXCEPT !.safe = A!SafeScratch(build)]
                    EXCEPT !.floored = (ScratchFloor * f[2] > aFree * f[1])]
<1>1. A!CallOK(p) /\ DOMAIN aCall = Proc /\ DOMAIN aPc = Proc /\ aFree \in Nat /\ aFree <= Disk
    <2>1. A!Total([r \in Proc |-> aCall[r].scratch]) \in Nat
        <3>1. \A r \in Proc : [q \in Proc |-> aCall[q].scratch][r] \in Int
            BY DEF A!IInv, A!CallOK
        <3> QED BY <3>1, TotalIsNatural
    <2> QED BY <2>1 DEF A!IInv
<1>2. /\ aPc[p] = "detect" /\ 0 <= f[1] /\ f[1] <= f[2]
      /\ aPc' = [aPc EXCEPT ![p] = "measure"] /\ UNCHANGED <<aFree, aArchive>>
    BY DEF A!Detect, A!Goto
<1>3. build \in Builds
    BY <1>1, <1>2 DEF A!CallOK
<1>4. f \in Int \X (Nat \ {0})
    BY <1>3, FractionIsAPair
<1>5. aCall' = [aCall EXCEPT ![p] = c] /\ c.scratch = aCall[p].scratch
    BY <1>1 DEF A!CallOK, A!Detect
<1>6. DOMAIN c = DOMAIN aCall[p] /\ c.build = build /\ c.safe = A!SafeScratch(build)
      /\ c.floored = (ScratchFloor * f[2] > aFree * f[1])
    BY <1>1 DEF A!CallOK
<1>7. A!SafeScratch(build) \in Int
      /\ (~(ScratchFloor * f[2] > aFree * f[1]) => A!SafeScratch(build) <= (Disk * f[1]) \div f[2])
    <2> DEFINE n == f[1]
               d == f[2]
               part == (aFree * n) \div d
    <2>1. n \in Nat /\ d \in Nat \ {0}
        BY <1>2, <1>4
    <2>2. part \in Nat /\ part <= (Disk * n) \div d
        <3> HIDE DEF n, d
        <3> QED BY <1>1, <2>1, SharesGrow
    <2>3. ~(ScratchFloor * d > aFree * n) => ScratchFloor <= part
        <3> HIDE DEF f
        <3> SUFFICES ASSUME ScratchFloor * d <= aFree * n PROVE ScratchFloor <= (aFree * n) \div d
            BY <1>1, <2>1
        <3>1. aFree \in Nat /\ ScratchFloor \in Nat /\ n \in Nat /\ d \in Nat \ {0}
            BY <1>1, <2>1
        <3> HIDE DEF n, d
        <3> QED BY <3>1, FloorIsReached
    <2> DEFINE most == A!Max({ScratchFloor, part})
    <2>4. most \in {ScratchFloor, part} /\ most >= ScratchFloor /\ most >= part
        <3> HIDE DEF part
        <3>1. \E x \in {ScratchFloor, part} : \A y \in {ScratchFloor, part} : x >= y
            BY <2>2
        <3> QED BY <3>1 DEF A!Max
    <2>5. A!SafeScratch(build) \in {aFree, most} /\ A!SafeScratch(build) <= most
        <3>1. A!SafeScratch(build) = A!Min({aFree, most})
            BY DEF A!SafeScratch
        <3> HIDE DEF most
        <3>2. most \in Nat
            BY <2>2, <2>4
        <3>3. \E x \in {aFree, most} : \A y \in {aFree, most} : x =< y
            BY <1>1, <3>2
        <3> QED BY <3>1, <3>3 DEF A!Min
    <2>6. A!SafeScratch(build) \in Int
        <3> HIDE DEF most, part, build
        <3> QED BY <1>1, <2>2, <2>4, <2>5
    <2>7. ASSUME ~(ScratchFloor * d > aFree * n) PROVE A!SafeScratch(build) <= (Disk * n) \div d
        <3> DEFINE bound == (Disk * n) \div d
        <3>1. most <= part
            <4> HIDE DEF most, part
            <4> QED BY <2>2, <2>3, <2>4, <2>7
        <3>2. bound \in Nat
            <4> HIDE DEF n, d
            <4>1. Disk \in Nat /\ Disk <= Disk
                OBVIOUS
            <4> QED BY <2>1, <4>1, SharesGrow
        <3>3. part <= bound /\ part \in Nat /\ most \in Int
            <4> HIDE DEF most
            <4> QED BY <2>2, <2>4
        <3> HIDE DEF most, part, bound
        <3>4. A!SafeScratch(build) <= bound
            <4> HIDE DEF n, d, build
            <4> QED BY <2>5, <2>6, <3>1, <3>2, <3>3
        <3> QED BY <3>4 DEF bound
    <2> HIDE DEF most, part
    <2> QED BY <2>6, <2>7
<1> HIDE DEF c
<1>8. A!CallOK(p)'
    <2>1. aCall'[p] = c /\ aPc'[p] = "measure"
        BY <1>1, <1>2, <1>5
    <2> QED BY <1>1, <1>2, <1>3, <1>5, <1>6, <1>7, <2>1 DEF A!CallOK, A!Live, A!Share
<1> HIDE DEF f
<1> QED BY <1>2, <1>5, <1>8, QuietBuild, ArchivesStay

\* A build that is admitted needs no more than it detected.
LEMMA ArchiveMeasureStep == ASSUME A!IInv, NEW p \in Proc, A!Measure(p) PROVE A!IInv'
<1> USE ArchiveAssumed, TotalIs DEF A!PMTilesAssumption
<1> DEFINE build == aCall[p].build
           need == A!Measured(build).bytes * A!Factor(build)
           c == [aCall[p] EXCEPT !.need = need]
<1>1. A!CallOK(p) /\ DOMAIN aCall = Proc /\ DOMAIN aPc = Proc
    BY DEF A!IInv
<1>2. /\ aPc[p] = "measure" /\ need <= aCall[p].safe
      /\ aPc' = [aPc EXCEPT ![p] = "tile"] /\ UNCHANGED <<aFree, aArchive>>
    BY DEF A!Measure, A!Goto, A!Admitted
<1>3. build \in Builds
    BY <1>1, <1>2 DEF A!CallOK
<1>4. aCall' = [aCall EXCEPT ![p] = c] /\ c.scratch = aCall[p].scratch
    BY <1>1 DEF A!CallOK, A!Measure
<1>5. need \in Int
    <2> DEFINE sizes == [i \in DOMAIN build.layers |-> build.layers[i].source.bytes]
    <2>1. IsFiniteSet(DOMAIN build.layers)
        <3>1. DOMAIN build.layers = 1..Len(build.layers) /\ Len(build.layers) \in Int /\ 1 \in Int
            BY <1>3
        <3> QED BY <3>1, FS_Interval
    <2>2. \A i \in DOMAIN build.layers : sizes[i] \in Int
        BY <1>3
    <2>3. A!Total(sizes) \in Nat
        BY <2>1, <2>2, TotalIsNatural
    <2>4. A!Factor(build) \in Int
        <3> DEFINE usable == {f \in {build.envFactor} \ {None} : f > 0}
        <3>1. usable \subseteq Int /\ (build.factor # None => build.factor \in Int)
            BY <1>3
        <3>2. A!Factor(build) = IF build.factor # None THEN build.factor
                              ELSE CHOOSE v \in (IF usable # {} THEN usable ELSE {DefaultFactor}) : TRUE
            BY DEF A!Factor, A!Default
        <3>3. CASE build.factor # None
            BY <3>1, <3>2, <3>3
        <3>4. CASE build.factor = None
            <4> DEFINE values == IF usable # {} THEN usable ELSE {DefaultFactor}
            <4>1. values \subseteq Int /\ values # {}
                BY <3>1
            <4>2. A!Factor(build) = CHOOSE v \in values : TRUE
                BY <3>2, <3>4
            <4> HIDE DEF values
            <4> QED BY <4>1, <4>2
        <3> QED BY <3>3, <3>4
    <2>5. A!Measured(build).bytes = A!Total(sizes)
        BY DEF A!Measured
    <2> HIDE DEF sizes
    <2> QED BY <2>3, <2>4, <2>5
<1>6. A!CallOK(p)'
    <2>1. aCall'[p] = c /\ aPc'[p] = "tile"
        BY <1>1, <1>2, <1>4
    <2>2. DOMAIN c = DOMAIN aCall[p] /\ c.build = build /\ c.safe = aCall[p].safe /\ c.need = need
          /\ c.floored = aCall[p].floored /\ c.scratch = aCall[p].scratch
        BY <1>1 DEF A!CallOK
    <2> HIDE DEF c, need
    <2> QED BY <1>1, <1>2, <1>3, <1>5, <2>1, <2>2 DEF A!CallOK, A!Live, A!Share
<1> HIDE DEF c
<1> QED BY <1>2, <1>4, <1>6, QuietBuild, ArchivesStay

\* Disk that a pass takes is no longer free.
LEMMA ArchiveGrowStep == ASSUME A!IInv, NEW p \in Proc, A!Grow(p) PROVE A!IInv'
<1> USE ArchiveAssumed, TotalIs DEF A!PMTilesAssumption
<1> DEFINE c == [aCall[p] EXCEPT !.scratch = @ + 1]
           used == [r \in Proc |-> aCall[r].scratch]
<1>1. A!CallOK(p) /\ DOMAIN aCall = Proc /\ DOMAIN aPc = Proc
    BY DEF A!IInv
<1>2. /\ aCall' = [aCall EXCEPT ![p] = c] /\ UNCHANGED <<aArchive, aPc>>
      /\ aPc[p] = "tile" /\ aCall[p].scratch < aCall[p].need /\ aFree' = aFree - 1 /\ aFree > 0
    BY <1>1 DEF A!CallOK, A!Grow
<1>3. DOMAIN c = DOMAIN aCall[p] /\ c.build = aCall[p].build /\ c.safe = aCall[p].safe
      /\ c.need = aCall[p].need /\ c.floored = aCall[p].floored /\ c.scratch = aCall[p].scratch + 1
    BY <1>1 DEF A!CallOK
<1> HIDE DEF c
<1>4. aCall'[p] = c /\ aPc'[p] = "tile"
    BY <1>1, <1>2
<1>5. A!CallOK(p)'
    BY <1>1, <1>2, <1>3, <1>4 DEF A!CallOK, A!Live, A!Share
<1>6. \A q \in Proc : A!CallOK(q)'
    <2>1. ASSUME NEW q \in Proc, q # p PROVE A!CallOK(q)'
        BY <1>1, <1>2, <2>1, OtherBuildsStay DEF A!IInv
    <2> QED BY <1>5, <2>1
<1>7. used' = [r \in Proc |-> IF r = p THEN used[r] + 1 ELSE used[r]]
    BY <1>1, <1>2, <1>3
<1>8. A!Total(used') = A!Total(used) + 1
    <2>1. used \in [Proc -> Nat]
        BY DEF A!IInv, A!CallOK
    <2> HIDE DEF used
    <2>2. used' \in [Proc -> Nat]
        BY <1>7, <2>1
    <2> QED BY <1>7, <2>1, <2>2, OneMore
<1>9. aFree' \in Nat /\ aFree' + A!Total(used') = Disk
    <2>1. A!Total(used) \in Nat
        <3>1. DOMAIN used = Proc /\ \A r \in Proc : used[r] \in Int
            BY DEF A!IInv, A!CallOK
        <3> HIDE DEF used
        <3> QED BY <3>1, TotalIsNatural
    <2>2. aFree \in Nat /\ aFree + A!Total(used) = Disk
        BY DEF A!IInv
    <2> QED BY <1>2, <1>8, <2>1, <2>2
<1>10. DOMAIN aArchive' = {"local", "remote"} /\ \A place \in DOMAIN aArchive' : A!ArchiveOK(place)'
    BY <1>2, ArchivesStay DEF A!IInv
<1>11. DOMAIN aPc' = Proc /\ DOMAIN aCall' = Proc
    BY <1>1, <1>2
<1> QED BY <1>6, <1>9, <1>10, <1>11 DEF A!IInv

LEMMA ArchiveTiledStep == ASSUME A!IInv, NEW p \in Proc, A!Tiled(p) PROVE A!IInv'
<1>1. A!CallOK(p) /\ DOMAIN aCall = Proc /\ DOMAIN aPc = Proc
    BY DEF A!IInv
<1>2. /\ aPc[p] = "tile" /\ aPc' = [aPc EXCEPT ![p] = "publish"] /\ UNCHANGED <<aFree, aArchive, aCall>>
    BY DEF A!Tiled, A!Goto
<1>3. A!CallOK(p)'
    BY <1>1, <1>2 DEF A!CallOK, A!Live, A!Share
<1>4. /\ DOMAIN aPc' = Proc /\ DOMAIN aCall' = Proc /\ aCall'[p].scratch = aCall[p].scratch
      /\ \A q \in Proc \ {p} : aPc'[q] = aPc[q] /\ aCall'[q] = aCall[q]
    BY <1>1, <1>2
<1> QED BY <1>1, <1>2, <1>3, <1>4, QuietArchiveStep, ArchivesStay

\* What is published is what the layers of a checked request are tiled to, or torn.
LEMMA ArchivePublishStep == ASSUME A!IInv, NEW p \in Proc, A!Publish(p) PROVE A!IInv'
<1> USE ArchiveAssumed, TotalIs DEF A!PMTilesAssumption
<1> DEFINE build == aCall[p].build
           whole == [build |-> build, tiles |-> A!Tiles(A!Combined(build.layers), A!Command(build.layers))]
<1>1. A!CallOK(p) /\ DOMAIN aCall = Proc /\ DOMAIN aPc = Proc /\ DOMAIN aArchive = {"local", "remote"}
    BY DEF A!IInv
<1>2. /\ aPc[p] = "publish" /\ aPc' = [aPc EXCEPT ![p] = "done"] /\ UNCHANGED <<aFree, aCall>>
    BY DEF A!Publish, A!Goto
<1>3. PICK content \in {whole, Torn} : aArchive' = [aArchive EXCEPT ![build.to] = content]
    BY DEF A!Publish
<1>4. A!CallOK(p)'
    BY <1>1, <1>2 DEF A!CallOK, A!Live, A!Share
<1>5. /\ DOMAIN aPc' = Proc /\ DOMAIN aCall' = Proc /\ aCall'[p].scratch = aCall[p].scratch
      /\ \A q \in Proc \ {p} : aPc'[q] = aPc[q] /\ aCall'[q] = aCall[q]
    BY <1>1, <1>2
<1>6. build \in Builds /\ build.layers # <<>> /\ \A i \in DOMAIN build.layers : A!ValidLayer(build.layers[i])
    BY <1>1, <1>2 DEF A!CallOK
<1>7. whole.build = build /\ whole.tiles = A!Tiles(A!Combined(build.layers), A!Command(build.layers))
    OBVIOUS
<1> HIDE DEF whole
<1>8. ASSUME NEW place \in DOMAIN aArchive PROVE A!ArchiveOK(place)'
    <2>1. CASE place = build.to
        <3>1. aArchive'[place] = content
            BY <1>1, <1>3, <2>1
        <3> QED BY <1>3, <1>6, <1>7, <3>1 DEF A!ArchiveOK
    <2>2. CASE place # build.to
        <3>1. aArchive'[place] = aArchive[place] /\ A!ArchiveOK(place)
            BY <1>1, <1>3, <2>2 DEF A!IInv
        <3> QED BY <3>1 DEF A!ArchiveOK
    <2> QED BY <2>1, <2>2
<1>9. DOMAIN aArchive' = DOMAIN aArchive
    BY <1>3
<1> QED BY <1>1, <1>2, <1>4, <1>5, <1>8, <1>9, QuietArchiveStep

\* A build that ends gives its disk back.
LEMMA ArchiveCloseStep == ASSUME A!IInv, NEW p \in Proc, A!Close(p) PROVE A!IInv'
<1> USE ArchiveAssumed, TotalIs DEF A!PMTilesAssumption
<1> DEFINE used == [r \in Proc |-> aCall[r].scratch]
<1>1. A!CallOK(p) /\ DOMAIN aCall = Proc /\ DOMAIN aPc = Proc
    BY DEF A!IInv
<1>2. /\ aCall' = [aCall EXCEPT ![p] = A!Idle] /\ aPc' = [aPc EXCEPT ![p] = "idle"]
      /\ aFree' = aFree + aCall[p].scratch /\ UNCHANGED aArchive
    BY DEF A!Close, A!Goto
<1>3. A!CallOK(p)'
    BY <1>1, <1>2 DEF A!CallOK, A!Idle, A!Live
<1>4. \A q \in Proc : A!CallOK(q)'
    <2>1. ASSUME NEW q \in Proc, q # p PROVE A!CallOK(q)'
        BY <1>1, <1>2, <2>1, OtherBuildsStay DEF A!IInv
    <2> QED BY <1>3, <2>1
<1>5. used' = [r \in Proc |-> IF r = p THEN 0 ELSE used[r]]
    BY <1>1, <1>2 DEF A!Idle
<1>6. used \in [Proc -> Nat] /\ used[p] = aCall[p].scratch
    BY DEF A!IInv, A!CallOK
<1>7. aFree \in Nat /\ aFree + A!Total(used) = Disk
    BY DEF A!IInv
<1> HIDE DEF used
<1>8. used' \in [Proc -> Nat]
    BY <1>5, <1>6
<1>9. A!Total(used) = A!Total(used') + used[p]
    BY <1>5, <1>6, <1>8, OneDropped
<1>10. A!Total(used') \in Nat
    <2>1. DOMAIN (used') = Proc /\ \A r \in Proc : (used')[r] \in Int
        BY <1>8
    <2> QED BY <2>1, TotalIsNatural
<1>11. aFree' \in Nat /\ aFree' + A!Total(used') = Disk
    BY <1>2, <1>6, <1>7, <1>9, <1>10
<1>12. DOMAIN aArchive' = {"local", "remote"} /\ \A place \in DOMAIN aArchive' : A!ArchiveOK(place)'
    BY <1>2, ArchivesStay DEF A!IInv
<1>13. DOMAIN aPc' = Proc /\ DOMAIN aCall' = Proc
    BY <1>1, <1>2
<1> QED BY <1>4, <1>11, <1>12, <1>13 DEF A!IInv, used

LEMMA ArchiveInvariance == A!Spec => []A!IInv
<1>1. A!IInv /\ [A!Next]_(A!vars) => A!IInv'
    <2> SUFFICES ASSUME A!IInv, [A!Next]_(A!vars) PROVE A!IInv'
        OBVIOUS
    <2>1. CASE UNCHANGED A!vars
        <3>1. \A q \in Proc : A!CallOK(q)'
            BY <2>1, OtherBuildsStay DEF A!IInv, A!vars
        <3> QED BY <2>1, <3>1, ArchivesStay DEF A!IInv, A!vars
    <2>2. CASE A!Next
        BY <2>2, ArchiveStartStep, ArchiveDetectStep, ArchiveMeasureStep, ArchiveGrowStep, ArchiveTiledStep, ArchivePublishStep, ArchiveCloseStep DEF A!Next
    <2> QED BY <2>1, <2>2
<1> QED BY <1>1, ArchiveInit, PTL DEF A!Spec

\* Shares that add up keep disk free for a pass that still needs it.
LEMMA SharesSuffice == A!IInv => A!SharesAddUp
<1> USE ArchiveAssumed, TotalIs DEF A!PMTilesAssumption
<1> DEFINE used == [r \in Proc |-> aCall[r].scratch]
           parts == [r \in A!Live |-> A!Share(r)]
<1> SUFFICES ASSUME A!IInv, A!Total(parts) <= Disk, \A q \in A!Live : ~aCall[q].floored,
                    NEW p \in A!Live, aCall[p].scratch < aCall[p].need
             PROVE  aFree > 0
    BY DEF A!SharesAddUp
<1>1. used \in [Proc -> Nat] /\ aFree \in Nat /\ aFree + A!Total(used) = Disk
    BY DEF A!IInv, A!CallOK
<1>2. \A q \in A!Live : q \in Proc /\ A!CallOK(q) /\ aPc[q] \in {"tile", "publish", "done"}
    BY DEF A!IInv, A!Live
<1>3. IsFiniteSet(A!Live)
    BY TotalIs, FS_Subset DEF A!Live
<1>4. \A q \in A!Live : parts[q] \in Nat
    <2>1. ASSUME NEW q \in A!Live PROVE A!Share(q) \in Nat
        <3> DEFINE f == A!Fraction(aCall[q].build)
        <3>1. aCall[q].build \in Builds /\ 0 <= f[1] /\ f[1] <= f[2]
            BY <1>2 DEF A!CallOK
        <3>2. f \in Int \X (Nat \ {0})
            BY <3>1, FractionIsAPair
        <3> HIDE DEF f
        <3>3. f[1] \in Nat /\ f[2] \in Nat \ {0}
            BY <3>1, <3>2
        <3>4. (Disk * f[1]) \div f[2] \in Nat
            <4>1. Disk \in Nat /\ Disk <= Disk
                OBVIOUS
            <4> QED BY <3>3, <4>1, SharesGrow
        <3> QED BY <3>4 DEF A!Share, f
    <2> QED BY <2>1
<1>5. \A q \in Proc : used[q] > 0 => q \in A!Live /\ used[q] <= parts[q]
    <2> SUFFICES ASSUME NEW q \in Proc, used[q] > 0 PROVE q \in A!Live /\ used[q] <= parts[q]
        OBVIOUS
    <2>1. q \in A!Live
        BY DEF A!IInv, A!CallOK, A!Live
    <2> QED BY <1>2, <1>4, <2>1 DEF A!CallOK
<1>6. used[p] < parts[p] /\ parts[p] > 0
    BY <1>1, <1>2, <1>4 DEF A!CallOK
<1> HIDE DEF used, parts
<1>7. A!Total(used) < A!Total(parts)
    <2>1. DOMAIN parts = A!Live
        BY DEF parts
    <2> QED BY <1>1, <1>2, <1>3, <1>4, <1>5, <1>6, <2>1, SmallerTotal
<1>8. A!Total(used) \in Nat /\ A!Total(parts) \in Nat
    <2>1. DOMAIN used = Proc /\ \A r \in Proc : used[r] \in Int
        BY <1>1
    <2>2. DOMAIN parts = A!Live /\ \A r \in A!Live : parts[r] \in Int
        BY <1>4 DEF parts
    <2> QED BY <1>3, <2>1, <2>2, TotalIsNatural
<1> QED BY <1>1, <1>7, <1>8 DEF parts

-----------------------------------------------------------------------------
\* The window of a layer is what its list of zooms spans.
LEMMA WindowsSpan ==
    ASSUME NEW given \in Seq(Int), A!CoerceZooms(given) # None
    PROVE  LET z == A!CoerceZooms(given) IN
           /\ z[1] \in 0..A!MaxZoom /\ z[2] \in 0..A!MaxZoom /\ z[1] <= z[2]
           /\ \A y \in Int :
                (\E low, high \in A!Range(given) : low <= y /\ y <= high) <=> y \in z[1]..z[2]
<1> DEFINE pair == IF Len(given) = 2 THEN given ELSE <<A!Min(A!Range(given)), A!Max(A!Range(given))>>
<1>1. /\ A!CoerceZooms(given) = pair /\ given # <<>>
      /\ 0 <= pair[1] /\ pair[1] <= pair[2] /\ pair[2] <= A!MaxZoom
    BY DEF A!CoerceZooms
<1>2. A!Range(given) \subseteq Int /\ IsFiniteSet(A!Range(given)) /\ A!Range(given) # {}
    <2>1. Len(given) \in Nat /\ Len(given) # 0 /\ DOMAIN given = 1..Len(given)
        BY <1>1
    <2>2. \A i \in DOMAIN given : given[i] \in Int
        BY <2>1
    <2>3. IsFiniteSet(DOMAIN given)
        BY <2>1, FS_Interval
    <2>4. given \in Surjection(DOMAIN given, A!Range(given))
        BY DEF Surjection, A!Range
    <2>5. IsFiniteSet(A!Range(given))
        BY <2>3, <2>4, FS_Surjection
    <2>6. given[1] \in A!Range(given)
        BY <2>1 DEF A!Range
    <2> QED BY <2>2, <2>5, <2>6 DEF A!Range
<1>3. /\ pair[1] \in A!Range(given) /\ pair[2] \in A!Range(given)
      /\ \A x \in A!Range(given) : pair[1] <= x /\ x <= pair[2]
    <2>1. CASE Len(given) = 2
        <3>1. pair = given /\ DOMAIN given = {1, 2}
            BY <2>1
        <3>2. A!Range(given) = {given[1], given[2]}
            BY <3>1 DEF A!Range
        <3>3. given[1] \in Int /\ given[2] \in Int
            BY <1>2, <3>2
        <3> HIDE DEF pair
        <3> QED BY <1>1, <3>1, <3>2, <3>3
    <2>2. CASE Len(given) # 2
        <3>1. /\ \E x \in A!Range(given) : \A y \in A!Range(given) : x =< y
              /\ \E x \in A!Range(given) : \A y \in A!Range(given) : x >= y
            BY <1>2, FiniteBounds
        <3>2. /\ A!Min(A!Range(given)) \in A!Range(given)
              /\ \A y \in A!Range(given) : A!Min(A!Range(given)) =< y
            BY <3>1 DEF A!Min
        <3>3. /\ A!Max(A!Range(given)) \in A!Range(given)
              /\ \A y \in A!Range(given) : A!Max(A!Range(given)) >= y
            BY <3>1 DEF A!Max
        <3>4. pair[1] = A!Min(A!Range(given)) /\ pair[2] = A!Max(A!Range(given))
            BY <2>2
        <3> HIDE DEF pair
        <3> QED BY <1>2, <3>2, <3>3, <3>4
    <2> QED BY <2>1, <2>2
<1> HIDE DEF pair
<1>4. pair[1] \in Int /\ pair[2] \in Int
    BY <1>2, <1>3
<1>5. \A y \in Int :
            (\E low, high \in A!Range(given) : low <= y /\ y <= high) <=> y \in pair[1]..pair[2]
    BY <1>2, <1>3, <1>4
<1>6. pair[1] \in 0..A!MaxZoom /\ pair[2] \in 0..A!MaxZoom /\ pair[1] <= pair[2]
    <2>1. 0 <= pair[1] /\ pair[1] <= pair[2] /\ pair[2] <= A!MaxZoom
        BY <1>1
    <2>2. ASSUME NEW m \in Int, NEW n \in Int, 0 <= m, m <= n, n <= 24
          PROVE  m \in 0..24 /\ n \in 0..24
        BY <2>2
    <2> QED BY <1>4, <2>1, <2>2 DEF A!MaxZoom
<1> QED BY <1>1, <1>5, <1>6

\* The process tiles every window.
LEMMA ProcessSpansWindows ==
    ASSUME NEW build \in Builds, NEW i \in DOMAIN build.layers,
           \A k \in DOMAIN build.layers : A!ValidLayer(build.layers[k])
    PROVE  LET z == A!CoerceZooms(build.layers[i].zooms)
               all == A!ProcessZooms(build.layers)
           IN  all[1] \in Int /\ all[2] \in Int /\ all[1] <= z[1] /\ z[2] <= all[2]
<1> USE ArchiveAssumed, TotalIs DEF A!PMTilesAssumption
<1> DEFINE places == DOMAIN build.layers
           Window(k) == A!CoerceZooms(build.layers[k].zooms)
           lows == {Window(k)[1] : k \in places}
           highs == {Window(k)[2] : k \in places}
<1>1. IsFiniteSet(places)
    <2>1. places = 1..Len(build.layers) /\ Len(build.layers) \in Int /\ 1 \in Int
        OBVIOUS
    <2> QED BY <2>1, FS_Interval
<1>2. \A k \in places : Window(k)[1] \in Int /\ Window(k)[2] \in Int
    <2>1. ASSUME NEW k \in places PROVE Window(k)[1] \in Int /\ Window(k)[2] \in Int
        <3>1. build.layers[k].zooms \in Seq(Int) /\ Window(k) # None
            BY DEF A!ValidLayer
        <3> HIDE ArchiveAssumed, TotalIs
        <3>2. Window(k)[1] \in 0..A!MaxZoom /\ Window(k)[2] \in 0..A!MaxZoom
            BY <3>1, WindowsSpan
        <3> HIDE DEF Window
        <3> QED BY <3>2 DEF A!MaxZoom
    <2> QED BY <2>1
<1>3. IsFiniteSet(lows) /\ IsFiniteSet(highs)
    <2> DEFINE f == [k \in places |-> Window(k)[1]]
               g == [k \in places |-> Window(k)[2]]
    <2> HIDE DEF Window
    <2>1. f \in Surjection(places, lows) /\ g \in Surjection(places, highs)
        BY DEF Surjection
    <2> HIDE DEF f, g, lows, highs, places
    <2> QED BY <1>1, <2>1, FS_Surjection
<1>4. lows \subseteq Int /\ highs \subseteq Int /\ Window(i)[1] \in lows /\ Window(i)[2] \in highs
    BY <1>2
<1>5. A!ProcessZooms(build.layers) = <<A!Min(lows), A!Max(highs)>>
    BY DEF A!ProcessZooms
<1> HIDE DEF lows, highs
<1>6. /\ \E x \in lows : \A y \in lows : x =< y
      /\ \E x \in highs : \A y \in highs : x >= y
    BY <1>3, <1>4, FiniteBounds
<1>7. A!Min(lows) \in lows /\ \A y \in lows : A!Min(lows) =< y
    BY <1>6 DEF A!Min
<1>8. A!Max(highs) \in highs /\ \A y \in highs : A!Max(highs) >= y
    BY <1>6 DEF A!Max
<1>9. /\ A!Min(lows) \in Int /\ A!Max(highs) \in Int
      /\ A!Min(lows) <= Window(i)[1] /\ Window(i)[2] <= A!Max(highs)
    BY <1>4, <1>7, <1>8
<1>10. Window(i) = A!CoerceZooms(build.layers[i].zooms)
    OBVIOUS
<1> HIDE DEF Window
<1> QED BY <1>5, <1>9, <1>10

\* A tile of a layer.
TileOf(build, i, r, z) ==
    LET layer == build.layers[i] IN
    [id |-> r.id, crs |-> IF A!Reprojected(layer.source) THEN "EPSG:4326" ELSE layer.source.crs,
     properties |-> A!Properties(layer), zoom |-> z, preset |-> build.layers[1].preset,
     layer |-> layer.name]

\* The tiles of an archive are those of its layers, in their own windows.
LEMMA TilesAreOfLayers ==
    ASSUME NEW build \in Builds, NEW t,
           \A k \in DOMAIN build.layers : A!ValidLayer(build.layers[k])
    PROVE  t \in A!Tiles(A!Combined(build.layers), A!Command(build.layers)) <=>
           \E i \in DOMAIN build.layers :
             \E r \in {x \in build.layers[i].source.rows : x.located}, z \in 0..A!MaxZoom :
                /\ z \in A!CoerceZooms(build.layers[i].zooms)[1]..A!CoerceZooms(build.layers[i].zooms)[2]
                /\ t = TileOf(build, i, r, z)
<1> USE ArchiveAssumed, TotalIs DEF A!PMTilesAssumption
<1> DEFINE layers == build.layers
           command == A!Command(layers)
           Feature(i, r) == [id |-> r.id, layer |-> layers[i].name, zooms |-> A!CoerceZooms(layers[i].zooms),
                crs |-> IF A!Reprojected(layers[i].source) THEN "EPSG:4326" ELSE layers[i].source.crs,
                properties |-> A!Properties(layers[i])]
           Tile(x, z) == [id |-> x.id, crs |-> x.crs, properties |-> x.properties, zoom |-> z,
                preset |-> command.preset,
                layer |-> IF command.layer # None THEN command.layer ELSE x.layer]
           Rows(i) == {x \in layers[i].source.rows : x.located}
<1>1. \A x : x \in A!Combined(layers) <=> \E i \in DOMAIN layers : \E r \in Rows(i) : x = Feature(i, r)
    BY DEF A!Combined, A!Features
<1>2. t \in A!Tiles(A!Combined(layers), command) <=>
        \E x \in A!Combined(layers), z \in 0..A!MaxZoom :
            /\ z \in x.zooms[1]..x.zooms[2] /\ z \in command.zooms[1]..command.zooms[2]
            /\ t = Tile(x, z)
    <2> DEFINE S == {y \in A!Combined(layers) \X (0..A!MaxZoom) :
                        /\ y[2] \in y[1].zooms[1]..y[1].zooms[2]
                        /\ y[2] \in command.zooms[1]..command.zooms[2]}
    <2>1. t \in A!Tiles(A!Combined(layers), command) <=> \E y \in S : t = Tile(y[1], y[2])
        BY DEF A!Tiles
    <2>2. \A y : y \in S <=> \E x \in A!Combined(layers), z \in 0..A!MaxZoom :
                y = <<x, z>> /\ z \in x.zooms[1]..x.zooms[2] /\ z \in command.zooms[1]..command.zooms[2]
        OBVIOUS
    <2> HIDE DEF S, Tile, command, layers
    <2> HIDE ArchiveAssumed, TotalIs
    <2>3. ASSUME t \in A!Tiles(A!Combined(layers), command)
          PROVE  \E x \in A!Combined(layers), z \in 0..A!MaxZoom :
                    /\ z \in x.zooms[1]..x.zooms[2] /\ z \in command.zooms[1]..command.zooms[2]
                    /\ t = Tile(x, z)
        <3>1. PICK y \in S : t = Tile(y[1], y[2])
            BY <2>1, <2>3
        <3>2. PICK x \in A!Combined(layers), z \in 0..A!MaxZoom :
                y = <<x, z>> /\ z \in x.zooms[1]..x.zooms[2] /\ z \in command.zooms[1]..command.zooms[2]
            BY <2>2, <3>1
        <3>3. y[1] = x /\ y[2] = z
            BY <3>2
        <3> QED BY <3>1, <3>2, <3>3
    <2>4. ASSUME NEW x \in A!Combined(layers), NEW z \in 0..A!MaxZoom,
                 z \in x.zooms[1]..x.zooms[2], z \in command.zooms[1]..command.zooms[2],
                 t = Tile(x, z)
          PROVE  t \in A!Tiles(A!Combined(layers), command)
        <3>1. <<x, z>> \in S /\ <<x, z>>[1] = x /\ <<x, z>>[2] = z
            BY <2>2, <2>4
        <3> QED BY <2>1, <2>4, <3>1
    <2> QED BY <2>3, <2>4
<1>3. ASSUME NEW i \in DOMAIN layers, NEW r \in Rows(i), NEW z \in 0..A!MaxZoom
      PROVE  /\ Feature(i, r).zooms = A!CoerceZooms(layers[i].zooms)
             /\ Tile(Feature(i, r), z) = TileOf(build, i, r, z)
    <2>1. command.preset = layers[1].preset /\ command.layer = IF Len(layers) = 1 THEN layers[1].name ELSE None
        BY DEF A!Command
    <2>2. (IF command.layer # None THEN command.layer ELSE layers[i].name) = layers[i].name
        <3>1. i \in 1..Len(layers) /\ Len(layers) \in Nat
            OBVIOUS
        <3> HIDE DEF command
        <3>2. CASE Len(layers) = 1
            <4>1. i = 1
                BY <3>1, <3>2
            <4> QED BY <2>1, <3>2, <4>1
        <3> QED BY <2>1, <3>2
    <2>3. Tile(Feature(i, r), z) = [id |-> r.id,
                crs |-> IF A!Reprojected(layers[i].source) THEN "EPSG:4326" ELSE layers[i].source.crs,
                properties |-> A!Properties(layers[i]), zoom |-> z, preset |-> command.preset,
                layer |-> IF command.layer # None THEN command.layer ELSE layers[i].name]
        <3> HIDE DEF command, layers
        <3> QED OBVIOUS
    <2> HIDE DEF Tile, command
    <2> QED BY <2>1, <2>2, <2>3 DEF TileOf
<1>4. ASSUME NEW i \in DOMAIN layers, NEW z \in 0..A!MaxZoom,
             z \in A!CoerceZooms(layers[i].zooms)[1]..A!CoerceZooms(layers[i].zooms)[2]
      PROVE  z \in command.zooms[1]..command.zooms[2]
    <2> DEFINE w == A!CoerceZooms(layers[i].zooms)
               all == A!ProcessZooms(layers)
    <2>1. layers[i].zooms \in Seq(Int) /\ w # None
        BY DEF A!ValidLayer
    <2>2. w[1] \in 0..A!MaxZoom /\ w[2] \in 0..A!MaxZoom
        BY <2>1, WindowsSpan
    <2>3. all[1] \in Int /\ all[2] \in Int /\ all[1] <= w[1] /\ w[2] <= all[2]
        BY ProcessSpansWindows
    <2>4. command.zooms = all
        BY DEF A!Command
    <2> HIDE DEF w, all, command
    <2> HIDE ArchiveAssumed, TotalIs
    <2>5. z \in w[1]..w[2]
        BY <1>4 DEF w
    <2>6. z \in Int /\ w[1] \in Int /\ w[2] \in Int
        BY <2>2 DEF A!MaxZoom
    <2>7. z \in all[1]..all[2]
        BY <2>3, <2>5, <2>6
    <2> QED BY <2>4, <2>7
<1> HIDE DEF Feature, Tile, Rows, command
<1>5. ASSUME t \in A!Tiles(A!Combined(layers), command)
      PROVE  \E i \in DOMAIN layers : \E r \in Rows(i), z \in 0..A!MaxZoom :
                /\ z \in A!CoerceZooms(layers[i].zooms)[1]..A!CoerceZooms(layers[i].zooms)[2]
                /\ t = TileOf(build, i, r, z)
    <2>1. PICK x \in A!Combined(layers), z \in 0..A!MaxZoom :
            z \in x.zooms[1]..x.zooms[2] /\ t = Tile(x, z)
        BY <1>2, <1>5
    <2>2. PICK i \in DOMAIN layers : \E r \in Rows(i) : x = Feature(i, r)
        BY <1>1, <2>1
    <2>3. PICK r \in Rows(i) : x = Feature(i, r)
        BY <2>2
    <2> QED BY <1>3, <2>1, <2>3
<1>6. ASSUME NEW i \in DOMAIN layers, NEW r \in Rows(i), NEW z \in 0..A!MaxZoom,
             z \in A!CoerceZooms(layers[i].zooms)[1]..A!CoerceZooms(layers[i].zooms)[2],
             t = TileOf(build, i, r, z)
      PROVE  t \in A!Tiles(A!Combined(layers), command)
    <2>1. Feature(i, r) \in A!Combined(layers)
        BY <1>1
    <2>2. z \in command.zooms[1]..command.zooms[2]
        BY <1>4, <1>6
    <2> QED BY <1>2, <1>3, <1>6, <2>1, <2>2
<1> QED BY <1>5, <1>6 DEF Rows, command

\* Whatever is whole holds what its layers ask for.
LEMMA WholeIsOfItsLayers == A!IInv => A!ArchiveIsOfItsLayers
<1> SUFFICES ASSUME A!IInv, NEW place \in DOMAIN aArchive, aArchive[place] \notin {None, Torn}
             PROVE  LET shownTiles == aArchive[place].tiles
                        layers == aArchive[place].build.layers
                    IN  /\ {[layer |-> t.layer, id |-> t.id, zoom |-> t.zoom] : t \in shownTiles} = A!Promised(layers)
                        /\ \A t \in shownTiles :
                            /\ t.crs \in {None, "EPSG:4326"}
                            /\ \E i \in DOMAIN layers :
                                /\ layers[i].name = t.layer
                                /\ layers[i].columns # None => t.properties \subseteq layers[i].columns
                                /\ "bbox" \notin t.properties
    BY DEF A!ArchiveIsOfItsLayers
<1> DEFINE build == aArchive[place].build
           layers == build.layers
           shownTiles == aArchive[place].tiles
           Rows(i) == {x \in layers[i].source.rows : x.located}
           Shown(l, r, z) == [layer |-> l.name, id |-> r.id, zoom |-> z]
<1>1. /\ build \in Builds
      /\ \A i \in DOMAIN layers : A!ValidLayer(layers[i])
      /\ shownTiles = A!Tiles(A!Combined(layers), A!Command(layers))
    BY DEF A!IInv, A!ArchiveOK
<1>2. \A t : t \in shownTiles <=>
        \E i \in DOMAIN layers : \E r \in Rows(i), z \in 0..A!MaxZoom :
            /\ z \in A!CoerceZooms(layers[i].zooms)[1]..A!CoerceZooms(layers[i].zooms)[2]
            /\ t = TileOf(build, i, r, z)
    <2> SUFFICES ASSUME NEW t
                 PROVE  t \in shownTiles <=>
                            \E i \in DOMAIN layers : \E r \in Rows(i), z \in 0..A!MaxZoom :
                                /\ z \in A!CoerceZooms(layers[i].zooms)[1]..A!CoerceZooms(layers[i].zooms)[2]
                                /\ t = TileOf(build, i, r, z)
        OBVIOUS
    <2>1. t \in A!Tiles(A!Combined(layers), A!Command(layers)) <=>
            \E i \in DOMAIN layers : \E r \in Rows(i), z \in 0..A!MaxZoom :
                /\ z \in A!CoerceZooms(layers[i].zooms)[1]..A!CoerceZooms(layers[i].zooms)[2]
                /\ t = TileOf(build, i, r, z)
        <3> HIDE DEF build
        <3> QED BY <1>1, TilesAreOfLayers
    <2> QED BY <1>1, <2>1
<1>3. \A i \in DOMAIN layers, z \in 0..A!MaxZoom :
        z \in A!CoerceZooms(layers[i].zooms)[1]..A!CoerceZooms(layers[i].zooms)[2]
            <=> \E low, high \in A!Range(layers[i].zooms) : low <= z /\ z <= high
    <2>1. ASSUME NEW i \in DOMAIN layers, NEW z \in 0..A!MaxZoom
          PROVE  z \in A!CoerceZooms(layers[i].zooms)[1]..A!CoerceZooms(layers[i].zooms)[2]
                    <=> \E low, high \in A!Range(layers[i].zooms) : low <= z /\ z <= high
        <3>1. layers[i].zooms \in Seq(Int) /\ A!CoerceZooms(layers[i].zooms) # None
            BY <1>1, ArchiveAssumed DEF A!PMTilesAssumption, A!ValidLayer
        <3>2. z \in Int
            BY DEF A!MaxZoom
        <3> QED BY <3>1, <3>2, WindowsSpan
    <2> QED BY <2>1
<1>4. \A x : x \in A!Promised(layers) <=>
        \E i \in DOMAIN layers : \E r \in Rows(i), z \in 0..A!MaxZoom :
            /\ \E low, high \in A!Range(layers[i].zooms) : low <= z /\ z <= high
            /\ x = Shown(layers[i], r, z)
    <2> DEFINE Located(l) == {x \in l.source.rows : x.located}
               Zooms(l) == {y \in 0..A!MaxZoom : \E low, high \in A!Range(l.zooms) : low <= y /\ y <= high}
               Of(l) == {Shown(l, r, z) : r \in Located(l), z \in Zooms(l)}
    <2>1. A!Promised(layers) = UNION {Of(l) : l \in A!Range(layers)}
        BY DEF A!Promised
    <2>2. \A l, x : x \in Of(l) <=> \E r \in Located(l), z \in Zooms(l) : x = Shown(l, r, z)
        OBVIOUS
    <2>3. \A i : Located(layers[i]) = Rows(i)
        OBVIOUS
    <2>4. \A l : l \in A!Range(layers) <=> \E i \in DOMAIN layers : l = layers[i]
        BY DEF A!Range
    <2>5. \A l, z : z \in Zooms(l) <=> z \in 0..A!MaxZoom /\ \E low, high \in A!Range(l.zooms) : low <= z /\ z <= high
        OBVIOUS
    <2> HIDE DEF Of, Located, Zooms, Shown, Rows, layers
    <2>6. ASSUME NEW x \in A!Promised(layers)
          PROVE  \E i \in DOMAIN layers : \E r \in Rows(i), z \in 0..A!MaxZoom :
                    /\ \E low, high \in A!Range(layers[i].zooms) : low <= z /\ z <= high
                    /\ x = Shown(layers[i], r, z)
        <3>1. PICK l \in A!Range(layers) : x \in Of(l)
            BY <2>1
        <3>2. PICK i \in DOMAIN layers : l = layers[i]
            BY <2>4
        <3>3. PICK r \in Located(l), z \in Zooms(l) : x = Shown(l, r, z)
            BY <2>2, <3>1
        <3> QED BY <2>3, <2>5, <3>2, <3>3
    <2>7. ASSUME NEW i \in DOMAIN layers, NEW r \in Rows(i), NEW z \in 0..A!MaxZoom,
                 \E low, high \in A!Range(layers[i].zooms) : low <= z /\ z <= high
          PROVE  Shown(layers[i], r, z) \in A!Promised(layers)
        <3>1. layers[i] \in A!Range(layers) /\ r \in Located(layers[i]) /\ z \in Zooms(layers[i])
            BY <2>3, <2>4, <2>5, <2>7
        <3>2. Shown(layers[i], r, z) \in Of(layers[i])
            BY <2>2, <3>1
        <3> QED BY <2>1, <3>1, <3>2
    <2> QED BY <2>6, <2>7
<1>5. \A i, r, z : Shown(layers[i], r, z) =
            [layer |-> TileOf(build, i, r, z).layer, id |-> TileOf(build, i, r, z).id,
             zoom |-> TileOf(build, i, r, z).zoom]
    BY DEF TileOf
<1>6. \A t \in shownTiles : t.crs \in {None, "EPSG:4326"} /\ \E i \in DOMAIN layers :
            /\ layers[i].name = t.layer
            /\ layers[i].columns # None => t.properties \subseteq layers[i].columns
            /\ "bbox" \notin t.properties
    <2> SUFFICES ASSUME NEW i \in DOMAIN layers, NEW r, NEW z
                 PROVE  LET t == TileOf(build, i, r, z) IN
                        /\ t.crs \in {None, "EPSG:4326"} /\ layers[i].name = t.layer
                        /\ layers[i].columns # None => t.properties \subseteq layers[i].columns
                        /\ "bbox" \notin t.properties
        <3> HIDE DEF shownTiles, layers, build
        <3> QED BY <1>2
    <2> QED BY DEF TileOf, A!Reprojected, A!Properties
<1>7. {[layer |-> t.layer, id |-> t.id, zoom |-> t.zoom] : t \in shownTiles} = A!Promised(layers)
    <2> DEFINE shown == {[layer |-> t.layer, id |-> t.id, zoom |-> t.zoom] : t \in shownTiles}
    <2> HIDE DEF build
    <2>1. ASSUME NEW x \in shown PROVE x \in A!Promised(layers)
        <3>1. PICK t \in shownTiles : x = [layer |-> t.layer, id |-> t.id, zoom |-> t.zoom]
            OBVIOUS
        <3> HIDE DEF shownTiles, layers, Rows, Shown
        <3>2. PICK i \in DOMAIN layers : \E r \in Rows(i), z \in 0..A!MaxZoom :
                /\ z \in A!CoerceZooms(layers[i].zooms)[1]..A!CoerceZooms(layers[i].zooms)[2]
                /\ t = TileOf(build, i, r, z)
            BY <1>2, <3>1
        <3> QED BY <1>3, <1>4, <1>5, <3>1, <3>2
    <2>2. ASSUME NEW x \in A!Promised(layers) PROVE x \in shown
        <3> HIDE DEF shownTiles, layers, Rows, Shown, shown
        <3>1. PICK i \in DOMAIN layers : \E r \in Rows(i), z \in 0..A!MaxZoom :
                /\ \E low, high \in A!Range(layers[i].zooms) : low <= z /\ z <= high
                /\ x = Shown(layers[i], r, z)
            BY <1>4, <2>2
        <3>2. PICK r \in Rows(i), z \in 0..A!MaxZoom :
                /\ \E low, high \in A!Range(layers[i].zooms) : low <= z /\ z <= high
                /\ x = Shown(layers[i], r, z)
            BY <3>1
        <3>3. TileOf(build, i, r, z) \in shownTiles
            BY <1>2, <1>3, <3>2
        <3> QED BY <1>5, <3>2, <3>3 DEF shown
    <2> QED BY <2>1, <2>2
<1> QED BY <1>6, <1>7

LEMMA SoundArchives == A!Spec => []A!ArchiveIsOfItsLayers /\ []A!SharesAddUp
<1> QED BY ArchiveInvariance, WholeIsOfItsLayers, SharesSuffice, PTL

-----------------------------------------------------------------------------
(***************************************************************************)
(* Fits: what is offered and staged are the canonical rows of what was read.*)
(***************************************************************************)

\* Cardinality is that of the sets proved about here.
LEMMA FitSets == \A S : F!Cardinality(S) = Cardinality(S)
BY DEF F!Cardinality, Cardinality, F!IsFiniteSet, IsFiniteSet

-----------------------------------------------------------------------------
(* Sequences by recursion. *)

\* The recursive function exists: there is one for each number of batches, since
\* otherwise there were a least number without one.
LEMMA FirstRowsAre ==
    ASSUME NEW s, Len(s) \in Nat
    PROVE  F!FirstRows(s) = [k \in 0..Len(s) |-> IF k = 0 THEN <<>> ELSE F!FirstRows(s)[k - 1] \o s[k]]
<1> DEFINE Is(f, n) == f = [k \in 0..n |-> IF k = 0 THEN <<>> ELSE f[k - 1] \o s[k]]
           bad == {n \in Nat : ~\E f : Is(f, n)}
<1>1. ASSUME bad # {} PROVE FALSE
    <2>1. bad \in SUBSET Nat
        OBVIOUS
    <2>2. PICK n \in bad : \A m \in bad : n <= m
        <3> HIDE DEF bad
        <3> QED BY <1>1, <2>1, LeastOf
    <2>3. n \in Nat /\ ~\E f : Is(f, n)
        OBVIOUS
    <2>4. CASE n = 0
        <3> DEFINE f == [k \in 0..0 |-> <<>>]
        <3>1. Is(f, 0)
            <4>1. \A k \in 0..0 : k = 0
                OBVIOUS
            <4> QED BY <4>1
        <3> QED BY <2>3, <2>4, <3>1
    <2>5. CASE n # 0
        <3>1. n - 1 \in Nat /\ ~(n <= n - 1)
            BY <2>3, <2>5
        <3>2. n - 1 \notin bad
            <4> HIDE DEF bad
            <4> QED BY <2>2, <3>1
        <3>3. PICK f : Is(f, n - 1)
            BY <3>1, <3>2
        <3> DEFINE g == [k \in 0..n |-> IF k = n THEN f[n - 1] \o s[n] ELSE f[k]]
        <3>4. Is(g, n)
            <4>1. \A k \in 0..n : g[k] = IF k = 0 THEN <<>> ELSE g[k - 1] \o s[k]
                <5> TAKE k \in 0..n
                <5>1. CASE k = n
                    <6>1. k - 1 \in 0..n /\ k - 1 # n /\ k # 0
                        BY <2>3, <2>5, <5>1
                    <6> QED BY <5>1, <6>1
                <5>2. CASE k # n
                    <6>1. k \in 0..n - 1 /\ (k # 0 => k - 1 \in 0..n /\ k - 1 # n)
                        BY <2>3, <5>2
                    <6>2. g[k] = f[k] /\ f[k] = IF k = 0 THEN <<>> ELSE f[k - 1] \o s[k]
                        BY <3>3, <5>2, <6>1
                    <6>3. k # 0 => g[k - 1] = f[k - 1]
                        BY <6>1
                    <6> QED BY <6>2, <6>3
                <5> QED BY <5>1, <5>2
            <4> HIDE DEF Is
            <4>2. g = [k \in 0..n |-> g[k]]
                OBVIOUS
            <4> HIDE DEF g
            <4> QED BY <4>1, <4>2 DEF Is
        <3> QED BY <2>3, <3>4
    <2> QED BY <2>4, <2>5
<1>2. \E f : Is(f, Len(s))
    BY <1>1
<1>3. F!FirstRows(s) = CHOOSE f : Is(f, Len(s))
    BY DEF F!FirstRows
<1>4. Is(F!FirstRows(s), Len(s))
    <2> HIDE DEF Is
    <2> QED BY <1>2, <1>3
<1> QED BY <1>4

\* The rows of no batch are none, and those of one batch more follow.
LEMMA FirstRowsGrow ==
    ASSUME NEW R, NEW s \in Seq(Seq(R))
    PROVE  /\ F!FirstRows(s)[0] = <<>>
           /\ \A k \in 1..Len(s) : F!FirstRows(s)[k] = F!FirstRows(s)[k - 1] \o s[k]
           /\ \A k \in 0..Len(s) : F!FirstRows(s)[k] \in Seq(R)
<1> DEFINE f == F!FirstRows(s)
           bad == {k \in 0..Len(s) : f[k] \notin Seq(R)}
<1>1. Len(s) \in Nat /\ \A k \in 1..Len(s) : s[k] \in Seq(R)
    OBVIOUS
<1>2. f = [k \in 0..Len(s) |-> IF k = 0 THEN <<>> ELSE f[k - 1] \o s[k]]
    BY <1>1, FirstRowsAre
<1> HIDE DEF f
<1>3. f[0] = <<>> /\ \A k \in 1..Len(s) : f[k] = f[k - 1] \o s[k]
    <2>1. \A k \in 0..Len(s) : f[k] = IF k = 0 THEN <<>> ELSE f[k - 1] \o s[k]
        BY <1>2, Zenon
    <2>2. 0 \in 0..Len(s) /\ \A k \in 1..Len(s) : k \in 0..Len(s) /\ k # 0
        BY <1>1
    <2> QED BY <2>1, <2>2, Zenon
<1>4. ASSUME bad # {} PROVE FALSE
    <2>1. bad \in SUBSET Nat
        OBVIOUS
    <2>2. PICK k \in bad : \A m \in bad : k <= m
        <3> HIDE DEF bad
        <3> QED BY <1>4, <2>1, LeastOf
    <2>3. k \in 0..Len(s) /\ f[k] \notin Seq(R)
        OBVIOUS
    <2>4. k # 0
        <3>1. <<>> \in Seq(R)
            OBVIOUS
        <3> QED BY <1>3, <2>3, <3>1
    <2>5. k \in 1..Len(s) /\ k - 1 \in 0..Len(s) /\ ~(k <= k - 1)
        BY <1>1, <2>3, <2>4
    <2>6. k - 1 \notin bad
        <3> HIDE DEF bad
        <3> QED BY <2>2, <2>5
    <2>7. f[k - 1] \in Seq(R) /\ s[k] \in Seq(R)
        BY <1>1, <2>5, <2>6
    <2>8. f[k] = f[k - 1] \o s[k]
        BY <1>3, <2>5
    <2>9. f[k - 1] \o s[k] \in Seq(R)
        BY <2>7
    <2> QED BY <2>3, <2>8, <2>9
<1> QED BY <1>3, <1>4 DEF f

\* What Select has seen of the first rows.
Firsts(rows, kinds) ==
    CHOOSE first : first = [n \in 0..Len(rows) |->
        IF n = 0 THEN <<>>
        ELSE IF rows[n].fit \in kinds THEN Append(first[n - 1], rows[n]) ELSE first[n - 1]]

\* The selection is the last of the selections of the first rows.
LEMMA SelectIsTheLast ==
    ASSUME NEW rows, NEW kinds
    PROVE  F!Select(rows, kinds) = Firsts(rows, kinds)[Len(rows)]
BY DEF F!Select, Firsts

\* So does the one that selects rows.
LEMMA FirstsAre ==
    ASSUME NEW s, Len(s) \in Nat, NEW kinds
    PROVE  Firsts(s, kinds) = [n \in 0..Len(s) |->
                IF n = 0 THEN <<>>
                ELSE IF s[n].fit \in kinds THEN Append(Firsts(s, kinds)[n - 1], s[n])
                     ELSE Firsts(s, kinds)[n - 1]]
<1> DEFINE More(x, k) == IF s[k].fit \in kinds THEN Append(x, s[k]) ELSE x
           Is(f, n) == f = [k \in 0..n |-> IF k = 0 THEN <<>> ELSE
                                IF s[k].fit \in kinds THEN Append(f[k - 1], s[k]) ELSE f[k - 1]]
           bad == {n \in Nat : ~\E f : Is(f, n)}
<1>1. ASSUME bad # {} PROVE FALSE
    <2>1. bad \in SUBSET Nat
        OBVIOUS
    <2>2. PICK n \in bad : \A m \in bad : n <= m
        <3> HIDE DEF bad
        <3> QED BY <1>1, <2>1, LeastOf
    <2>3. n \in Nat /\ ~\E f : Is(f, n)
        OBVIOUS
    <2>4. CASE n = 0
        <3> DEFINE f == [k \in 0..0 |-> <<>>]
        <3>1. Is(f, 0)
            <4>1. \A k \in 0..0 : k = 0
                OBVIOUS
            <4> QED BY <4>1
        <3> QED BY <2>3, <2>4, <3>1
    <2>5. CASE n # 0
        <3>1. n - 1 \in Nat /\ ~(n <= n - 1)
            BY <2>3, <2>5
        <3>2. n - 1 \notin bad
            <4> HIDE DEF bad
            <4> QED BY <2>2, <3>1
        <3>3. PICK f : Is(f, n - 1)
            BY <3>1, <3>2
        <3> DEFINE g == [k \in 0..n |-> IF k = n THEN IF s[n].fit \in kinds THEN Append(f[n - 1], s[n]) ELSE f[n - 1]
                                        ELSE f[k]]
        <3>4. Is(g, n)
            <4>1. \A k \in 0..n : g[k] = IF k = 0 THEN <<>> ELSE
                                IF s[k].fit \in kinds THEN Append(g[k - 1], s[k]) ELSE g[k - 1]
                <5> TAKE k \in 0..n
                <5>1. CASE k = n
                    <6>1. k - 1 \in 0..n /\ k - 1 # n /\ k # 0
                        BY <2>3, <2>5, <5>1
                    <6> QED BY <5>1, <6>1
                <5>2. CASE k # n
                    <6>1. k \in 0..n - 1 /\ (k # 0 => k - 1 \in 0..n /\ k - 1 # n)
                        BY <2>3, <5>2
                    <6>2. /\ g[k] = f[k]
                          /\ f[k] = IF k = 0 THEN <<>> ELSE
                                IF s[k].fit \in kinds THEN Append(f[k - 1], s[k]) ELSE f[k - 1]
                        BY <3>3, <5>2, <6>1
                    <6>3. k # 0 => g[k - 1] = f[k - 1]
                        BY <6>1
                    <6> QED BY <6>2, <6>3
                <5> QED BY <5>1, <5>2
            <4> HIDE DEF Is
            <4>2. g = [k \in 0..n |-> g[k]]
                OBVIOUS
            <4> HIDE DEF g
            <4> QED BY <4>1, <4>2 DEF Is
        <3> QED BY <2>3, <3>4
    <2> QED BY <2>4, <2>5
<1>2. \E f : Is(f, Len(s))
    BY <1>1
<1>3. Firsts(s, kinds) = CHOOSE f : Is(f, Len(s))
    BY DEF Firsts
<1>4. Is(Firsts(s, kinds), Len(s))
    <2> HIDE DEF Is
    <2> QED BY <1>2, <1>3
<1> QED BY <1>4

\* What is selected of the first rows: the selection grows by the row or not at all.
LEMMA FirstsGrow ==
    ASSUME NEW R, NEW s \in Seq(R), NEW kinds
    PROVE  /\ Firsts(s, kinds)[0] = <<>>
           /\ \A n \in 1..Len(s) : Firsts(s, kinds)[n] =
                IF s[n].fit \in kinds THEN Append(Firsts(s, kinds)[n - 1], s[n])
                ELSE Firsts(s, kinds)[n - 1]
           /\ \A n \in 0..Len(s) : Firsts(s, kinds)[n] \in Seq(R)
<1> DEFINE f == Firsts(s, kinds)
           bad == {k \in 0..Len(s) : f[k] \notin Seq(R)}
<1>1. Len(s) \in Nat /\ \A k \in 1..Len(s) : s[k] \in R
    OBVIOUS
<1>2. f = [n \in 0..Len(s) |-> IF n = 0 THEN <<>> ELSE
            IF s[n].fit \in kinds THEN Append(f[n - 1], s[n]) ELSE f[n - 1]]
    BY <1>1, FirstsAre
<1> HIDE DEF f
<1>3. /\ f[0] = <<>>
      /\ \A n \in 1..Len(s) : f[n] = IF s[n].fit \in kinds THEN Append(f[n - 1], s[n]) ELSE f[n - 1]
    <2>1. \A n \in 0..Len(s) : f[n] = IF n = 0 THEN <<>> ELSE
            IF s[n].fit \in kinds THEN Append(f[n - 1], s[n]) ELSE f[n - 1]
        BY <1>2, Zenon
    <2>2. 0 \in 0..Len(s) /\ \A k \in 1..Len(s) : k \in 0..Len(s) /\ k # 0
        BY <1>1
    <2> QED BY <2>1, <2>2, Zenon
<1>4. ASSUME bad # {} PROVE FALSE
    <2>1. bad \in SUBSET Nat
        OBVIOUS
    <2>2. PICK k \in bad : \A m \in bad : k <= m
        <3> HIDE DEF bad
        <3> QED BY <1>4, <2>1, LeastOf
    <2>3. k \in 0..Len(s) /\ f[k] \notin Seq(R)
        OBVIOUS
    <2>4. k # 0
        <3>1. <<>> \in Seq(R)
            OBVIOUS
        <3> QED BY <1>3, <2>3, <3>1
    <2>5. k \in 1..Len(s) /\ k - 1 \in 0..Len(s) /\ ~(k <= k - 1)
        BY <1>1, <2>3, <2>4
    <2>6. k - 1 \notin bad
        <3> HIDE DEF bad
        <3> QED BY <2>2, <2>5
    <2>7. f[k - 1] \in Seq(R) /\ s[k] \in R
        BY <1>1, <2>5, <2>6
    <2>8. f[k] = Append(f[k - 1], s[k]) \/ f[k] = f[k - 1]
        BY <1>3, <2>5
    <2>9. Append(f[k - 1], s[k]) \in Seq(R)
        BY <2>7
    <2> QED BY <2>3, <2>7, <2>8, <2>9
<1> QED BY <1>3, <1>4 DEF f

\* What is selected are rows.
LEMMA SelectIsOfRows ==
    ASSUME NEW R, NEW s \in Seq(R), NEW kinds
    PROVE  F!Select(s, kinds) \in Seq(R)
<1>1. Len(s) \in 0..Len(s)
    OBVIOUS
<1> QED BY <1>1, FirstsGrow, SelectIsTheLast

\* Nothing is selected of nothing.
LEMMA SelectOfNothing ==
    ASSUME NEW kinds
    PROVE  F!Select(<<>>, kinds) = <<>>
<1> DEFINE s == <<>>
           R == {}
<1>0. s \in Seq(R)
    OBVIOUS
<1>1. Len(s) = 0 /\ s = <<>>
    OBVIOUS
<1> HIDE DEF s, R
<1>2. Firsts(s, kinds)[0] = <<>>
    BY <1>0, FirstsGrow
<1>3. F!Select(s, kinds) = Firsts(s, kinds)[0]
    BY <1>1, SelectIsTheLast
<1> QED BY <1>1, <1>2, <1>3

\* Sequences of the same length, alike at each place, are the same.
LEMMA SameItems ==
    ASSUME NEW R, NEW u \in Seq(R), NEW v \in Seq(R), Len(u) = Len(v),
           \A k \in 1..Len(u) : u[k] = v[k]
    PROVE  u = v
<1>1. DOMAIN u = 1..Len(u) /\ DOMAIN v = 1..Len(u)
    OBVIOUS
<1>2. u = [k \in DOMAIN u |-> u[k]] /\ v = [k \in DOMAIN v |-> v[k]]
    OBVIOUS
<1> QED BY <1>1, <1>2

\* To append is to concatenate, and concatenation is associative.
LEMMA AppendIsConcat ==
    ASSUME NEW R, NEW u \in Seq(R), NEW item \in R
    PROVE  Append(u, item) = u \o <<item>>
<1> DEFINE x == Append(u, item)
           y == u \o <<item>>
<1>1. x \in Seq(R) /\ y \in Seq(R) /\ Len(x) = Len(y) /\ \A k \in 1..Len(x) : x[k] = y[k]
    OBVIOUS
<1> HIDE DEF x, y
<1>2. x = y
    BY <1>1, SameItems
<1> QED BY <1>2 DEF x, y

LEMMA ConcatAssociative ==
    ASSUME NEW R, NEW u \in Seq(R), NEW v \in Seq(R), NEW w \in Seq(R)
    PROVE  (u \o v) \o w = u \o (v \o w)
<1> DEFINE x == (u \o v) \o w
           y == u \o (v \o w)
<1>1. x \in Seq(R) /\ y \in Seq(R) /\ Len(x) = Len(y)
    OBVIOUS
<1>2. ASSUME NEW k \in 1..Len(x) PROVE x[k] = y[k]
    OBVIOUS
<1> HIDE DEF x, y
<1>3. x = y
    BY <1>1, <1>2, SameItems
<1> QED BY <1>3 DEF x, y

\* What is selected of two sequences one after the other.
LEMMA SelectOfBoth ==
    ASSUME NEW R, NEW s \in Seq(R), NEW t \in Seq(R), NEW kinds
    PROVE  F!Select(s \o t, kinds) = F!Select(s, kinds) \o F!Select(t, kinds)
<1> DEFINE u == s \o t
           f == Firsts(s, kinds)
           g == Firsts(t, kinds)
           h == Firsts(u, kinds)
           m == Len(s)
           low == {n \in 0..m : h[n] # f[n]}
           high == {n \in 0..Len(t) : h[m + n] # f[m] \o g[n]}
<1>1. /\ u \in Seq(R) /\ m \in Nat /\ Len(t) \in Nat /\ Len(u) = m + Len(t)
      /\ \A n \in 1..m : u[n] = s[n]
      /\ \A n \in 1..Len(t) : u[m + n] = t[n]
    OBVIOUS
<1>2. /\ f[0] = <<>>
      /\ \A n \in 1..m : f[n] = IF s[n].fit \in kinds THEN Append(f[n - 1], s[n]) ELSE f[n - 1]
      /\ \A n \in 0..m : f[n] \in Seq(R)
    BY FirstsGrow
<1>3. /\ g[0] = <<>>
      /\ \A n \in 1..Len(t) : g[n] = IF t[n].fit \in kinds THEN Append(g[n - 1], t[n]) ELSE g[n - 1]
      /\ \A n \in 0..Len(t) : g[n] \in Seq(R)
    BY FirstsGrow
<1>4. /\ h[0] = <<>>
      /\ \A n \in 1..Len(u) : h[n] = IF u[n].fit \in kinds THEN Append(h[n - 1], u[n]) ELSE h[n - 1]
    <2> HIDE DEF u
    <2>1. u \in Seq(R)
        BY <1>1
    <2> QED BY <2>1, FirstsGrow
<1>5. F!Select(s, kinds) = f[m] /\ F!Select(t, kinds) = g[Len(t)] /\ F!Select(u, kinds) = h[Len(u)]
    BY SelectIsTheLast
<1> HIDE DEF f, g, h, u, m
<1>6. ASSUME low # {} PROVE FALSE
    <2>1. low \in SUBSET Nat
        BY <1>1
    <2>2. PICK n \in low : \A l \in low : n <= l
        <3> HIDE DEF low
        <3> QED BY <1>6, <2>1, LeastOf
    <2>3. n \in 0..m /\ h[n] # f[n]
        OBVIOUS
    <2>4. n # 0
        BY <1>2, <1>4, <2>3
    <2>5. n \in 1..m /\ n \in 1..Len(u) /\ n - 1 \in 0..m /\ ~(n <= n - 1)
        BY <1>1, <2>3, <2>4
    <2>6. n - 1 \notin low
        <3> HIDE DEF low
        <3> QED BY <2>2, <2>5
    <2>7. h[n - 1] = f[n - 1] /\ u[n] = s[n]
        BY <1>1, <2>5, <2>6
    <2> QED BY <1>2, <1>4, <2>3, <2>5, <2>7
<1>7. h[m] = f[m]
    <2>1. m \in 0..m /\ m \notin low
        BY <1>1, <1>6
    <2> QED BY <2>1
<1>8. ASSUME high # {} PROVE FALSE
    <2>1. high \in SUBSET Nat
        <3>1. 0..Len(t) \subseteq Nat
            BY <1>1
        <3> QED BY <3>1, Zenon
    <2>2. PICK n \in high : \A l \in high : n <= l
        <3> HIDE DEF high
        <3> QED BY <1>8, <2>1, LeastOf
    <2>3. n \in 0..Len(t) /\ h[m + n] # f[m] \o g[n]
        OBVIOUS
    <2>0. f[m] \in Seq(R)
        BY <1>1, <1>2
    <2>4. n # 0
        <3> SUFFICES ASSUME n = 0 PROVE FALSE
            OBVIOUS
        <3>1. m + n = m
            BY <1>1
        <3>2. f[m] \o <<>> = f[m]
            BY <2>0
        <3> QED BY <1>3, <1>7, <2>3, <3>1, <3>2
    <2>5. /\ n \in 1..Len(t) /\ n - 1 \in 0..Len(t) /\ ~(n <= n - 1)
          /\ m + n \in 1..Len(u) /\ (m + n) - 1 = m + (n - 1)
        BY <1>1, <2>3, <2>4
    <2>6. n - 1 \notin high
        <3> HIDE DEF high
        <3> QED BY <2>2, <2>5
    <2>7. h[m + (n - 1)] = f[m] \o g[n - 1] /\ u[m + n] = t[n]
        BY <1>1, <2>5, <2>6
    <2>8. h[m + n] = IF t[n].fit \in kinds THEN Append(f[m] \o g[n - 1], t[n]) ELSE f[m] \o g[n - 1]
        BY <1>4, <2>5, <2>7
    <2>9. g[n] = IF t[n].fit \in kinds THEN Append(g[n - 1], t[n]) ELSE g[n - 1]
        BY <1>3, <2>5
    <2>10. Append(f[m] \o g[n - 1], t[n]) = f[m] \o Append(g[n - 1], t[n])
        <3> DEFINE left == f[m]
                   right == g[n - 1]
                   e == t[n]
        <3>1. left \in Seq(R) /\ right \in Seq(R) /\ e \in R
            BY <1>3, <2>0, <2>5
        <3> HIDE DEF left, right, e
        <3>2. Append(left \o right, e) = left \o Append(right, e)
            <4>1. left \o right \in Seq(R) /\ <<e>> \in Seq(R)
                BY <3>1
            <4>2. Append(left \o right, e) = (left \o right) \o <<e>>
                BY <3>1, <4>1, AppendIsConcat
            <4>3. Append(right, e) = right \o <<e>>
                BY <3>1, AppendIsConcat
            <4> QED BY <3>1, <4>1, <4>2, <4>3, ConcatAssociative
        <3> QED BY <3>2 DEF left, right, e
    <2> QED BY <2>3, <2>8, <2>9, <2>10
<1>9. h[m + Len(t)] = f[m] \o g[Len(t)]
    <2>1. Len(t) \in 0..Len(t)
        BY <1>1
    <2>2. Len(t) \notin high
        <3> HIDE DEF high
        <3> QED BY <1>8, Zenon
    <2> QED BY <2>1, <2>2, Zenon
<1> QED BY <1>1, <1>5, <1>9 DEF u

\* Rows of two sorts are as many as the rows.
LEMMA SelectSplits ==
    ASSUME NEW R, NEW s \in Seq(R), NEW K, NEW M, K \cap M = {},
           \A n \in 1..Len(s) : s[n].fit \in K \cup M
    PROVE  Len(F!Select(s, K)) + Len(F!Select(s, M)) = Len(s)
<1> DEFINE f == Firsts(s, K)
           g == Firsts(s, M)
           bad == {n \in 0..Len(s) : Len(f[n]) + Len(g[n]) # n}
<1>0. Len(s) \in Nat /\ \A n \in 1..Len(s) : s[n] \in R
    OBVIOUS
<1>1. /\ f[0] = <<>>
      /\ \A n \in 1..Len(s) : f[n] = IF s[n].fit \in K THEN Append(f[n - 1], s[n]) ELSE f[n - 1]
      /\ \A n \in 0..Len(s) : f[n] \in Seq(R)
    BY FirstsGrow
<1>2. /\ g[0] = <<>>
      /\ \A n \in 1..Len(s) : g[n] = IF s[n].fit \in M THEN Append(g[n - 1], s[n]) ELSE g[n - 1]
      /\ \A n \in 0..Len(s) : g[n] \in Seq(R)
    BY FirstsGrow
<1>3. F!Select(s, K) = f[Len(s)] /\ F!Select(s, M) = g[Len(s)]
    BY SelectIsTheLast
<1> HIDE DEF f, g
<1>4. ASSUME bad # {} PROVE FALSE
    <2>1. bad \in SUBSET Nat
        <3>1. 0..Len(s) \subseteq Nat
            BY <1>0
        <3> QED BY <3>1, Zenon
    <2>2. PICK n \in bad : \A l \in bad : n <= l
        <3> HIDE DEF bad
        <3> QED BY <1>4, <2>1, LeastOf
    <2>3. n \in 0..Len(s) /\ Len(f[n]) + Len(g[n]) # n
        OBVIOUS
    <2>4. n # 0
        <3> SUFFICES ASSUME n = 0 PROVE FALSE
            OBVIOUS
        <3>1. Len(<<>>) = 0
            OBVIOUS
        <3>2. Len(f[n]) = 0 /\ Len(g[n]) = 0
            BY <1>1, <1>2, <3>1
        <3> HIDE DEF bad
        <3> QED BY <2>3, <3>2
    <2>5. n \in 1..Len(s) /\ n - 1 \in 0..Len(s) /\ ~(n <= n - 1)
        BY <1>0, <2>3, <2>4
    <2>6. n - 1 \notin bad
        <3> HIDE DEF bad
        <3> QED BY <2>2, <2>5
    <2>7. Len(f[n - 1]) + Len(g[n - 1]) = n - 1
        BY <2>5, <2>6
    <2>8. f[n - 1] \in Seq(R) /\ g[n - 1] \in Seq(R) /\ s[n] \in R
        BY <1>0, <1>1, <1>2, <2>5
    <2>9. /\ Len(f[n - 1]) \in Nat /\ Len(g[n - 1]) \in Nat
          /\ Len(Append(f[n - 1], s[n])) = Len(f[n - 1]) + 1
          /\ Len(Append(g[n - 1], s[n])) = Len(g[n - 1]) + 1
        BY <2>8
    <2>10. \/ s[n].fit \in K /\ s[n].fit \notin M
           \/ s[n].fit \notin K /\ s[n].fit \in M
        BY <2>5
    <2>11. \/ f[n] = Append(f[n - 1], s[n]) /\ g[n] = g[n - 1]
           \/ f[n] = f[n - 1] /\ g[n] = Append(g[n - 1], s[n])
        BY <1>1, <1>2, <2>5, <2>10
    <2> DEFINE x == Len(f[n - 1])
               y == Len(g[n - 1])
               p == Len(f[n])
               q == Len(g[n])
    <2>12. x \in Nat /\ y \in Nat /\ x + y = n - 1 /\ n \in Nat /\ p + q # n
        <3>1. n \in Nat
            BY <1>0, <2>5
        <3> HIDE DEF bad
        <3> QED BY <2>3, <2>7, <2>9, <3>1
    <2>13. (p = x + 1 /\ q = y) \/ (p = x /\ q = y + 1)
        BY <2>9, <2>11
    <2> HIDE DEF bad, x, y, p, q
    <2> QED BY <2>12, <2>13
<1>5. Len(f[Len(s)]) + Len(g[Len(s)]) = Len(s)
    <2>1. Len(s) \in 0..Len(s)
        BY <1>0
    <2>2. Len(s) \notin bad
        <3> HIDE DEF bad
        <3> QED BY <1>4, Zenon
    <2> QED BY <2>1, <2>2, Zenon
<1> QED BY <1>3, <1>5

-----------------------------------------------------------------------------
(* Items, rows and counts. *)

\* The states of the two slots differ.
LEMMA FitItems ==
    /\ F!No.is = "none" /\ F!Old.is = "old" /\ F!Running.is = "running" /\ F!Waiting.is = "waiting"
    /\ F!Raised.is = "raised" /\ F!End.is = "end"
    /\ \A rows : F!Batch(rows).is = "batch" /\ F!Batch(rows).rows = rows
    /\ \A rows : F!File(rows).is = "file" /\ F!File(rows).rows = rows
    /\ F!Next1 \in {F!Running, F!Waiting}
BY DEF F!No, F!Old, F!Running, F!Waiting, F!Raised, F!End, F!Batch, F!File, F!Next1

\* What is counted are the first rows of a batch, and all of them if none ends the fit.
LEMMA CountedAreFirst ==
    ASSUME NEW R, NEW rows \in Seq(R)
    PROVE  /\ F!Counted(rows) \in Seq(R)
           /\ \A i \in 1..Len(F!Counted(rows)) : F!Counted(rows)[i] \in R
           /\ (\A i \in DOMAIN rows : ~F!Unfit(rows[i])) => F!Counted(rows) = rows
<1> DEFINE bad == {i \in DOMAIN rows : F!Unfit(rows[i])}
           end == IF bad = {} THEN Len(rows) ELSE CHOOSE i \in bad : \A j \in bad : i <= j
<1>1. F!Counted(rows) = SubSeq(rows, 1, end)
    BY DEF F!Counted
<1>2. DOMAIN rows = 1..Len(rows) /\ Len(rows) \in Nat
    OBVIOUS
<1>3. end \in 0..Len(rows)
    <2>1. CASE bad = {}
        BY <1>2, <2>1
    <2>2. CASE bad # {}
        <3>1. bad \in SUBSET Nat
            BY <1>2
        <3>2. bad \subseteq 1..Len(rows)
            BY <1>2
        <3> HIDE DEF bad
        <3>3. \E i \in bad : \A j \in bad : i <= j
            BY <2>2, <3>1, LeastOf
        <3>4. end \in bad
            BY <2>2, <3>3
        <3> HIDE DEF end
        <3>5. end \in 1..Len(rows)
            BY <3>2, <3>4
        <3> QED BY <1>2, <3>5
    <2> QED BY <2>1, <2>2
<1> HIDE DEF end
<1>4. /\ F!Counted(rows) \in Seq(R) /\ Len(F!Counted(rows)) = end
      /\ \A i \in 1..end : F!Counted(rows)[i] = rows[i]
    BY <1>1, <1>2, <1>3
<1>5. (\A i \in DOMAIN rows : ~F!Unfit(rows[i])) => F!Counted(rows) = rows
    <2> SUFFICES ASSUME \A i \in DOMAIN rows : ~F!Unfit(rows[i]) PROVE F!Counted(rows) = rows
        OBVIOUS
    <2>1. end = Len(rows)
        <3>1. bad = {}
            OBVIOUS
        <3> QED BY <3>1 DEF end
    <2> QED BY <1>2, <1>4, <2>1
<1>6. \A i \in 1..Len(F!Counted(rows)) : F!Counted(rows)[i] \in R
    BY <1>2, <1>3, <1>4
<1> QED BY <1>4, <1>5, <1>6

\* Every row that is counted is canonical or was skipped, but for one that ends the fit.
LEMMA TallyAddsUp ==
    ASSUME NEW R, NEW rows \in Seq(R),
           \A r \in R : r.fit \in {"fitted", "no_data", "skipped", "rejected", "invalid"},
           fSummary.source \in Nat, fSummary.canonical \in Nat, fSummary.skipped \in Int, NEW ends \in BOOLEAN
    PROVE  LET total == F!Tally(rows, ends) IN
           /\ total.source \in Nat /\ total.source = fSummary.source + Len(rows)
           /\ total.canonical \in Nat /\ total.canonical = fSummary.canonical + Len(F!Canonical(rows))
           /\ total.skipped \in Int
           /\ total.source - (total.canonical + total.skipped)
                = fSummary.source - (fSummary.canonical + fSummary.skipped) + (IF ends THEN 1 ELSE 0)
<1> DEFINE K == {"fitted", "no_data"}
           M == {"skipped", "rejected", "invalid"}
           total == F!Tally(rows, ends)
           k == Len(F!Select(rows, K))
           m == Len(F!Select(rows, M))
           one == IF ends THEN 1 ELSE 0
<1>1. K \cap M = {} /\ \A n \in 1..Len(rows) : rows[n].fit \in K \cup M
    OBVIOUS
<1>2. k + m = Len(rows)
    <2> HIDE DEF K, M
    <2> QED BY <1>1, SelectSplits
<1>3. k \in Nat /\ m \in Nat /\ Len(rows) \in Nat /\ one \in Int
    BY SelectIsOfRows
<1>4. /\ total.source = fSummary.source + Len(rows) /\ total.canonical = fSummary.canonical + k
      /\ total.skipped = fSummary.skipped + m - one
    BY DEF F!Tally, F!HowMany
<1>5. k = Len(F!Canonical(rows))
    BY DEF F!Canonical
<1> DEFINE s == fSummary.source
           c == fSummary.canonical
           o == fSummary.skipped
           l == Len(rows)
<1>6. s \in Nat /\ c \in Nat /\ o \in Int
    OBVIOUS
<1>7. (s + l) - ((c + k) + (o + m - one)) = s - (c + o) + one /\ s + l \in Nat /\ c + k \in Nat /\ o + m - one \in Int
    <2> HIDE DEF s, c, o, l, k, m, one
    <2>1. l = k + m
        BY <1>2 DEF l
    <2>2. l \in Nat
        BY <1>3 DEF l
    <2> QED BY <1>3, <1>6, <2>1, <2>2
<1>8. total.source - (total.canonical + total.skipped) = s - (c + o) + one
    <2> HIDE DEF total, k, m, one
    <2>1. total.source - (total.canonical + total.skipped) = (s + l) - ((c + k) + (o + m - one))
        BY <1>4, Zenon
    <2> QED BY <1>7, <2>1
<1>9. total.source \in Nat /\ total.canonical \in Nat /\ total.skipped \in Int
    BY <1>4, <1>7
<1> HIDE DEF total, k, m
<1> QED BY <1>4, <1>5, <1>8, <1>9 DEF total

\* The rows of a source, and what of it is fitted.
LEMMA FittedAreFirst ==
    ASSUME F!IInv
    PROVE  /\ fSource \in Seq(Seq(F!RowsIn(fSource))) /\ Len(fSource) \in Nat
           /\ \A r \in F!RowsIn(fSource) : r.fit \in {"fitted", "no_data", "skipped", "rejected", "invalid"}
           /\ F!Taken \in 0..Len(fSource) /\ F!FittedRows \in Seq(F!RowsIn(fSource))
           /\ fPulled.is = "batch" =>
                /\ fPulled.rows \in Seq(F!RowsIn(fSource))
                /\ F!FirstRows(fSource)[fRead] = F!FittedRows \o fPulled.rows
           /\ fPulled.is # "batch" => F!Taken = fRead
           /\ fPulled = F!End => F!FittedRows = F!Rows(fSource)
<1> DEFINE R == F!RowsIn(fSource)
<1>1. fSource \in Seq(Seq(R)) /\ \A r \in R : r.fit \in {"fitted", "no_data", "skipped", "rejected", "invalid"}
    BY Assumptions DEF F!FitStreamAssumption, F!IInv, F!ReaderOK
<1> HIDE DEF R
<1>2. Len(fSource) \in Nat /\ \A k \in 1..Len(fSource) : fSource[k] \in Seq(R)
    BY <1>1
<1>3. /\ \A k \in 1..Len(fSource) : F!FirstRows(fSource)[k] = F!FirstRows(fSource)[k - 1] \o fSource[k]
      /\ \A k \in 0..Len(fSource) : F!FirstRows(fSource)[k] \in Seq(R)
    BY <1>1, FirstRowsGrow
<1>4. fRead \in 0..Len(fSource) /\ (fPulled.is = "batch" => fRead > 0 /\ fPulled.rows = fSource[fRead])
    BY FitItems DEF F!IInv, F!ReaderOK
<1>5. /\ F!Taken \in 0..Len(fSource) /\ (fPulled.is # "batch" => F!Taken = fRead)
      /\ fPulled.is = "batch" => F!Taken = fRead - 1 /\ fRead \in 1..Len(fSource)
    BY <1>2, <1>4 DEF F!Taken
<1>6. fPulled = F!End => F!Taken = Len(fSource)
    BY <1>5, FitItems DEF F!IInv, F!ReaderOK
<1> QED BY <1>1, <1>2, <1>3, <1>4, <1>5, <1>6 DEF F!FittedRows, F!Rows, R

-----------------------------------------------------------------------------
(* One lemma for each step. *)

LEMMA FitInit == F!Init => F!IInv
<1> SUFFICES ASSUME F!Init PROVE F!IInv
    OBVIOUS
<1> DEFINE R == F!RowsIn(fSource)
<1>1. fSource \in Seq(Seq(R))
    BY Assumptions DEF F!FitStreamAssumption, F!Init
<1> HIDE DEF R
<1>2. F!FirstRows(fSource)[0] = <<>> /\ Len(fSource) \in Nat
    <2>1. Len(fSource) \in Nat
        BY <1>1
    <2> QED BY <1>1, <2>1, FirstRowsGrow
<1>3. F!Taken = 0 /\ F!FittedRows = <<>>
    BY <1>2, FitItems DEF F!Init, F!Taken, F!FittedRows
<1>4. F!ReaderOK
    <2>1. 0 \in 0..Len(fSource)
        BY <1>2
    <2> QED BY <2>1, FitItems DEF F!Init, F!ReaderOK
<1>5. F!FitterOK
    BY FitItems DEF F!Init, F!FitterOK
<1>6. F!SummaryOK
    <2>1. F!Canonical(<<>>) = <<>>
        BY SelectOfNothing DEF F!Canonical
    <2> QED BY <1>3, <2>1 DEF F!Init, F!SummaryOK
<1>7. F!WriterOK
    <2>1. F!Canonical(<<>>) = <<>>
        BY SelectOfNothing DEF F!Canonical
    <2>2. F!Offered = <<>>
        BY FitItems DEF F!Init, F!Offered
    <2>3. fStaged \o F!Offered = F!Canonical(F!FittedRows)
        BY <1>3, <2>1, <2>2 DEF F!Init
    <2> QED BY <2>3 DEF F!Init, F!WriterOK
<1> QED BY <1>4, <1>5, <1>6, <1>7 DEF F!IInv

LEMMA FitPullStep == F!IInv /\ F!Pull => F!IInv'
<1> SUFFICES ASSUME F!IInv, F!Pull PROVE F!IInv'
    OBVIOUS
<1> USE DEF F!reader, F!fitter, F!writer
<1>1. /\ UNCHANGED <<fSource, fPolicy, fFit, fSummary, fPartial, fSidecar, fFitted, fPc, fStaged, fOutput>>
      /\ fPulled = F!Running
    BY DEF F!Pull
<1>2. fRead \in 0..Len(fSource) /\ Len(fSource) \in Nat
    BY FittedAreFirst DEF F!IInv, F!ReaderOK
<1>3. /\ fRead' \in 0..Len(fSource)
      /\ \/ fRead' = fRead /\ fPulled' = F!Raised
         \/ fRead' = fRead /\ fPulled' = F!End /\ fRead = Len(fSource)
         \/ fRead' = fRead + 1 /\ fPulled' = F!Batch(fSource[fRead'])
    BY <1>2 DEF F!Pull
<1>4. F!Taken' = fRead /\ F!Taken = fRead
    <2>1. fPulled.is # "batch"
        BY <1>1, FitItems
    <2>2. CASE fRead' = fRead /\ fPulled' \in {F!Raised, F!End}
        <3>1. fPulled'.is # "batch"
            BY <2>2, FitItems
        <3> QED BY <2>1, <2>2, <3>1 DEF F!Taken
    <2>3. CASE fRead' = fRead + 1 /\ fPulled' = F!Batch(fSource[fRead'])
        <3>1. fPulled'.is = "batch"
            BY <2>3, FitItems
        <3>2. fRead' - 1 = fRead
            BY <1>2, <2>3
        <3> QED BY <2>1, <3>1, <3>2 DEF F!Taken
    <2> QED BY <1>3, <2>2, <2>3
<1>5. F!FittedRows' = F!FittedRows
    BY <1>1, <1>4 DEF F!FittedRows
<1>6. fFit \notin {"idle", "ended"}
    BY <1>1, FitItems DEF F!IInv, F!FitterOK
<1>7. F!ReaderOK'
    BY <1>1, <1>2, <1>3, FitItems DEF F!IInv, F!ReaderOK
<1>8. F!FitterOK'
    <2>1. F!RowsIn(fSource)' = F!RowsIn(fSource) /\ F!Rows(fSource)' = F!Rows(fSource)
        BY <1>1
    <2>2. F!Writing' = F!Writing
        BY <1>1 DEF F!Writing
    <2> QED BY <1>1, <1>5, <1>6, <2>1, <2>2 DEF F!IInv, F!FitterOK
<1>9. F!SummaryOK'
    BY <1>1, <1>5 DEF F!IInv, F!SummaryOK
<1>10. F!WriterOK'
    BY <1>1, <1>5, <1>6 DEF F!IInv, F!WriterOK, F!Writing, F!Offered
<1> QED BY <1>7, <1>8, <1>9, <1>10 DEF F!IInv

LEMMA FitBeginsStep == F!IInv /\ F!StartFit => F!IInv'
<1> SUFFICES ASSUME F!IInv, F!StartFit PROVE F!IInv'
    OBVIOUS
<1> USE DEF F!reader, F!fitter, F!writer
<1>1. /\ UNCHANGED <<fSource, fPolicy, fRead, fSummary, fSidecar, fFitted, fPc, fStaged, fOutput>>
      /\ fFitted = F!Running /\ fFit = "idle" /\ fFit' = "running" /\ fPartial' = F!File(<<>>)
      /\ fPulled' = F!Running
    BY DEF F!StartFit
<1>2. fRead = 0 /\ fPulled = F!Waiting
    BY <1>1 DEF F!IInv, F!FitterOK
<1>3. F!FirstRows(fSource)[0] = <<>>
    <2>1. fSource \in Seq(Seq(F!RowsIn(fSource)))
        BY FittedAreFirst
    <2> QED BY <2>1, FirstRowsGrow
<1>4. F!FittedRows' = F!FittedRows /\ F!FittedRows = <<>>
    BY <1>1, <1>2, <1>3, FitItems DEF F!FittedRows, F!Taken
<1>5. F!ReaderOK'
    BY <1>1, <1>2, FitItems DEF F!IInv, F!ReaderOK
<1>6. F!FitterOK'
    BY <1>1, <1>4, FitItems DEF F!IInv, F!FitterOK
<1>7. F!SummaryOK'
    BY <1>1, <1>4 DEF F!IInv, F!SummaryOK
<1>8. F!WriterOK'
    BY <1>1, <1>4, FitItems DEF F!IInv, F!WriterOK, F!Writing, F!Offered
<1> QED BY <1>5, <1>6, <1>7, <1>8 DEF F!IInv

LEMMA FitAskStep == F!IInv /\ F!Ask => F!IInv'
<1> SUFFICES ASSUME F!IInv, F!Ask PROVE F!IInv'
    OBVIOUS
<1> USE DEF F!reader, F!fitter, F!writer
<1>1. /\ UNCHANGED <<fSource, fPolicy, fRead, fFit, fSummary, fPartial, fSidecar, fFitted, fPc, fStaged, fOutput>>
      /\ fFitted = F!Running /\ fFit = "running" /\ fPulled = F!Waiting /\ fPulled' = F!Running
    BY DEF F!Ask
<1>2. F!FittedRows' = F!FittedRows
    BY <1>1, FitItems DEF F!FittedRows, F!Taken
<1>3. F!ReaderOK'
    BY <1>1, FitItems DEF F!IInv, F!ReaderOK
<1>4. F!FitterOK'
    BY <1>1, <1>2 DEF F!IInv, F!FitterOK
<1>5. F!SummaryOK'
    BY <1>1, <1>2 DEF F!IInv, F!SummaryOK
<1>6. F!WriterOK'
    BY <1>1, <1>2 DEF F!IInv, F!WriterOK, F!Writing, F!Offered
<1> QED BY <1>3, <1>4, <1>5, <1>6 DEF F!IInv

\* A running fit that fails with the same counts, or one row more.
LEMMA FitFails ==
    ASSUME F!IInv, fFitted = F!Running, fFit = "running",
           UNCHANGED <<fSource, fRead, fPc, fStaged, fOutput>>,
           fPulled' \in {fPulled, F!Running, F!Waiting},
           fFit' = "failed", fFitted' = F!Raised, fSidecar' = fSidecar,
           fSummary'.source \in Nat, fSummary'.canonical \in Nat, fSummary'.skipped \in Int,
           fSummary'.source - (fSummary'.canonical + fSummary'.skipped) \in {0, 1}
    PROVE  F!IInv'
<1>1. F!ReaderOK'
    BY FitItems DEF F!IInv, F!ReaderOK
<1>2. F!FitterOK'
    BY FitItems DEF F!IInv, F!FitterOK
<1>3. F!SummaryOK'
    BY DEF F!SummaryOK
<1>4. F!WriterOK'
    BY FitItems DEF F!IInv, F!WriterOK, F!Writing
<1> QED BY <1>1, <1>2, <1>3, <1>4 DEF F!IInv

LEMMA FitSourceFailsStep == F!IInv /\ F!SourceFails => F!IInv'
<1> SUFFICES ASSUME F!IInv, F!SourceFails PROVE F!IInv'
    OBVIOUS
<1>1. /\ UNCHANGED <<fSource, fRead, fPulled, fSummary, fSidecar, fPc, fStaged, fOutput>>
      /\ fFitted = F!Running /\ fFit = "running" /\ fFit' = "failed" /\ fFitted' = F!Raised
    BY DEF F!SourceFails, F!FitEnds, F!Abort, F!reader, F!writer
<1>2. /\ fSummary.source \in Nat /\ fSummary.canonical \in Nat /\ fSummary.skipped \in Int
      /\ fSummary.source - (fSummary.canonical + fSummary.skipped) \in {0, 1}
    BY <1>1 DEF F!IInv, F!SummaryOK
<1> QED BY <1>1, <1>2, FitFails

\* The rows of a batch that is fitted move from what was pulled to what is offered, the
\* sidecar and the summary.
LEMMA FitBatchStep == F!IInv /\ F!FitBatch => F!IInv'
<1> SUFFICES ASSUME F!IInv, F!FitBatch PROVE F!IInv'
    OBVIOUS
<1> DEFINE R == F!RowsIn(fSource)
           rows == fPulled.rows
           counted == F!Counted(rows)
           ends == \E i \in DOMAIN rows : F!Unfit(rows[i])
           total == F!Tally(counted, ends)
           items == F!Canonical(rows)
<1>1. /\ UNCHANGED <<fSource, fRead, fPc, fStaged, fOutput>>
      /\ fFitted = F!Running /\ fFit = "running" /\ fPulled.is = "batch"
      /\ fPulled' = F!Next1 /\ fSummary' = total
    BY DEF F!FitBatch, F!writer
<1>2. \/ fFit' = "failed" /\ fFitted' = F!Raised /\ fSidecar' = fSidecar
      \/ /\ ~ends /\ fPartial' = F!File(fPartial.rows \o rows) /\ UNCHANGED <<fFit, fSidecar>>
         /\ fFitted' = IF items = <<>> THEN F!Running ELSE F!Batch(items)
    BY DEF F!FitBatch, F!FitEnds, F!Abort
<1>3. /\ \A r \in R : r.fit \in {"fitted", "no_data", "skipped", "rejected", "invalid"}
      /\ F!FittedRows \in Seq(R) /\ rows \in Seq(R)
      /\ F!FirstRows(fSource)[fRead] = F!FittedRows \o rows
    BY <1>1, FittedAreFirst
<1>4. /\ fSummary.source = Len(F!FittedRows) /\ fSummary.canonical = Len(F!Canonical(F!FittedRows))
      /\ fSummary.source \in Nat /\ fSummary.canonical \in Nat /\ fSummary.skipped \in Int
      /\ fSummary.source - (fSummary.canonical + fSummary.skipped) = 0
    BY <1>1 DEF F!IInv, F!SummaryOK
<1>5. counted \in Seq(R) /\ (~ends => counted = rows)
    BY <1>3, CountedAreFirst
<1>6. /\ total.source \in Nat /\ total.source = fSummary.source + Len(counted)
      /\ total.canonical \in Nat /\ total.canonical = fSummary.canonical + Len(F!Canonical(counted))
      /\ total.skipped \in Int
      /\ total.source - (total.canonical + total.skipped)
            = fSummary.source - (fSummary.canonical + fSummary.skipped) + (IF ends THEN 1 ELSE 0)
    <2>1. ends \in BOOLEAN
        OBVIOUS
    <2> HIDE DEF ends, counted, R
    <2> QED BY <1>3, <1>4, <1>5, <2>1, TallyAddsUp
<1> HIDE DEF R, rows, counted, total, items
<1>7. F!Next1 \in {F!Running, F!Waiting}
    BY FitItems
<1>8. CASE fFit' = "failed" /\ fFitted' = F!Raised /\ fSidecar' = fSidecar
    <2>1. total.source - (total.canonical + total.skipped) \in {0, 1}
        BY <1>4, <1>6
    <2> HIDE DEF ends
    <2> QED BY <1>1, <1>6, <1>7, <1>8, <2>1, FitFails
<1>9. CASE /\ ~ends /\ fPartial' = F!File(fPartial.rows \o rows) /\ UNCHANGED <<fFit, fSidecar>>
           /\ fFitted' = IF items = <<>> THEN F!Running ELSE F!Batch(items)
    <2> HIDE DEF ends
    <2>1. F!FittedRows' = F!FittedRows \o rows
        BY <1>1, <1>3, <1>7, FitItems DEF F!FittedRows, F!Taken
    <2>2. items \in Seq(R) /\ F!Canonical(F!FittedRows) \in Seq(R)
        BY <1>3, SelectIsOfRows DEF items, F!Canonical
    <2>3. F!Canonical(F!FittedRows)' = F!Canonical(F!FittedRows) \o items
        BY <1>3, <2>1, SelectOfBoth DEF items, F!Canonical
    <2>4. F!Offered' = items /\ F!Offered = <<>>
        BY <1>1, <1>9, FitItems DEF F!Offered
    <2>5. F!ReaderOK'
        BY <1>1, <1>7, FitItems DEF F!IInv, F!ReaderOK
    <2>6. fPartial' = F!File(F!FittedRows')
        BY <1>1, <1>9, <2>1, FitItems DEF F!IInv, F!FitterOK
    <2>7. \/ fFitted' = F!Running
          \/ fFitted' = F!Batch(fFitted.rows)' /\ fFitted'.rows \in Seq(F!RowsIn(fSource))'
        BY <1>1, <1>9, <2>2, FitItems DEF F!Batch, R
    <2>8. fFitted' \notin {F!End, F!Raised}
        BY <1>9, FitItems
    <2>9. F!FitterOK'
        BY <1>1, <1>9, <2>6, <2>7, <2>8, FitItems DEF F!IInv, F!FitterOK
    <2>10. /\ total.source = Len(F!FittedRows') /\ total.canonical = Len(F!Canonical(F!FittedRows)')
           /\ total.source - (total.canonical + total.skipped) = 0
        BY <1>3, <1>4, <1>5, <1>6, <1>9, <2>1, <2>2, <2>3 DEF items
    <2>11. F!SummaryOK'
        BY <1>1, <1>6, <1>9, <2>10 DEF F!SummaryOK
    <2>12. F!Writing => fStaged \o items = F!Canonical(F!FittedRows)'
        <3> SUFFICES ASSUME F!Writing PROVE fStaged \o items = F!Canonical(F!FittedRows)'
            OBVIOUS
        <3>1. fStaged \o <<>> = F!Canonical(F!FittedRows) /\ fStaged \in Seq(R)
            BY <1>1, <2>4 DEF F!IInv, F!WriterOK, R
        <3>2. fStaged = F!Canonical(F!FittedRows)
            BY <3>1
        <3> QED BY <2>3, <3>2
    <2>13. F!WriterOK'
        <3>1. fPc \notin {"start", "check", "done"}
            BY <1>1, FitItems DEF F!IInv, F!WriterOK
        <3> QED BY <1>1, <2>4, <2>12, <3>1 DEF F!IInv, F!WriterOK, F!Writing
    <2> QED BY <2>5, <2>9, <2>11, <2>13 DEF F!IInv
<1> QED BY <1>2, <1>8, <1>9

LEMMA FitCompleteStep == F!IInv /\ F!Complete => F!IInv'
<1> SUFFICES ASSUME F!IInv, F!Complete PROVE F!IInv'
    OBVIOUS
<1>1. /\ UNCHANGED <<fSource, fRead, fPulled, fSummary, fPc, fStaged, fOutput>>
      /\ fFitted = F!Running /\ fFit = "running" /\ fPulled = F!End
      /\ \/ fFit' = "failed" /\ fFitted' = F!Raised /\ fSidecar' = fSidecar
         \/ fFit' = "ended" /\ fFitted' = F!End /\ fSidecar' = fPartial
    BY DEF F!Complete, F!FitEnds, F!Abort, F!reader, F!writer
<1>2. /\ fSummary.source \in Nat /\ fSummary.canonical \in Nat /\ fSummary.skipped \in Int
      /\ fSummary.source - (fSummary.canonical + fSummary.skipped) = 0
    BY <1>1 DEF F!IInv, F!SummaryOK
<1>3. CASE fFit' = "failed" /\ fFitted' = F!Raised /\ fSidecar' = fSidecar
    BY <1>1, <1>2, <1>3, FitFails
<1>4. CASE fFit' = "ended" /\ fFitted' = F!End /\ fSidecar' = fPartial
    <2>1. F!FittedRows' = F!FittedRows /\ F!FittedRows = F!Rows(fSource)
        BY <1>1, FittedAreFirst DEF F!FittedRows, F!Taken
    <2>2. fPartial = F!File(F!Rows(fSource))
        BY <1>1, <2>1 DEF F!IInv, F!FitterOK
    <2>3. F!ReaderOK'
        BY <1>1 DEF F!IInv, F!ReaderOK
    <2>4. F!FitterOK'
        BY <1>1, <1>4, <2>2, FitItems DEF F!FitterOK
    <2>5. F!SummaryOK'
        BY <1>1, <1>4, <2>1 DEF F!IInv, F!SummaryOK
    <2>6. F!Offered' = F!Offered /\ fPc \notin {"start", "check", "done"}
        BY <1>1, <1>4, FitItems DEF F!Offered, F!IInv, F!WriterOK
    <2>7. F!WriterOK'
        BY <1>1, <1>4, <2>1, <2>6 DEF F!IInv, F!WriterOK, F!Writing
    <2> QED BY <2>3, <2>4, <2>5, <2>7 DEF F!IInv
<1> QED BY <1>1, <1>3, <1>4

LEMMA FitCloseStep == F!IInv /\ F!Close => F!IInv'
<1> SUFFICES ASSUME F!IInv, F!Close PROVE F!IInv'
    OBVIOUS
<1>1. /\ UNCHANGED <<fSource, fRead, fPulled, fFitted, fSummary, fSidecar, fPc, fStaged, fOutput>>
      /\ fFit = "running" /\ fFit' = "failed" /\ fPc = "failed"
    BY DEF F!Close, F!Abort, F!reader, F!writer
<1>2. F!ReaderOK'
    BY <1>1 DEF F!IInv, F!ReaderOK
<1>3. F!FitterOK'
    BY <1>1, FitItems DEF F!IInv, F!FitterOK, F!Writing
<1>4. F!SummaryOK'
    BY <1>1 DEF F!IInv, F!SummaryOK
<1>5. F!WriterOK'
    BY <1>1 DEF F!IInv, F!WriterOK, F!Writing
<1> QED BY <1>2, <1>3, <1>4, <1>5 DEF F!IInv

\* Steps of the writer leave the reader, and the fit but for its future.
LEMMA FitWriterKeeps ==
    ASSUME F!IInv, UNCHANGED <<fSource, fPolicy, F!reader, F!fitter>>, fFitted' = fFitted \/
              (fFitted \notin {F!End, F!Raised} /\ fFitted' \in {F!Running, F!Waiting}),
           fFit = "failed" => fFitted' = fFitted \/ ~F!Writing', F!Writing' => F!Writing
    PROVE  F!ReaderOK' /\ F!FitterOK' /\ F!SummaryOK' /\ F!FittedRows' = F!FittedRows
<1> USE DEF F!reader, F!fitter
<1>1. F!FittedRows' = F!FittedRows
    BY DEF F!FittedRows, F!Taken
<1>2. F!ReaderOK'
    BY DEF F!IInv, F!ReaderOK
<1>3. F!SummaryOK'
    BY <1>1 DEF F!IInv, F!SummaryOK
<1>4. F!FitterOK'
    BY <1>1, FitItems DEF F!IInv, F!FitterOK
<1> QED BY <1>1, <1>2, <1>3, <1>4

LEMMA FitStartStep == F!IInv /\ F!Start => F!IInv'
<1> SUFFICES ASSUME F!IInv, F!Start PROVE F!IInv'
    OBVIOUS
<1>1. /\ UNCHANGED <<fSource, fPolicy, F!reader, F!fitter, fStaged, fOutput>> /\ fPc = "start"
      /\ fFitted = F!Waiting /\ fFit = "idle"
      /\ \/ fPc' = "failed" /\ UNCHANGED fFitted
         \/ fPc' = "next" /\ fFitted' = F!Running
    BY DEF F!Start, F!IInv, F!WriterOK
<1>2. F!ReaderOK' /\ F!FitterOK' /\ F!SummaryOK' /\ F!FittedRows' = F!FittedRows
    BY <1>1, FitItems, FitWriterKeeps DEF F!Writing
<1>3. F!Offered' = F!Offered
    BY <1>1, FitItems DEF F!Offered
<1>4. F!WriterOK'
    BY <1>1, <1>2, <1>3 DEF F!IInv, F!WriterOK, F!Writing, F!fitter
<1> QED BY <1>2, <1>4 DEF F!IInv

\* What the writer takes moves from the offered rows to the staged ones.
LEMMA FitTakeStep == F!IInv /\ F!Take => F!IInv'
<1> SUFFICES ASSUME F!IInv, F!Take PROVE F!IInv'
    OBVIOUS
<1> USE DEF F!fitter
<1>1. /\ UNCHANGED <<fSource, fPolicy, F!reader, F!fitter, fOutput>> /\ fPc = "next" /\ F!Writing
      /\ fPc' \in {"write", "check", "failed"}
    BY DEF F!Take, F!Writing
<1>2. CASE fFitted.is = "batch" /\ fStaged' = fStaged \o fFitted.rows /\ fFitted' = F!Next1 /\ fPc' = "write"
    <2>1. fFit # "failed" /\ fFitted \notin {F!End, F!Raised} /\ fFitted.rows \in Seq(F!RowsIn(fSource))
        BY <1>1, <1>2, FitItems DEF F!IInv, F!FitterOK
    <2>2. fFitted' \in {F!Running, F!Waiting}
        BY <1>2, FitItems
    <2>3. F!ReaderOK' /\ F!FitterOK' /\ F!SummaryOK' /\ F!FittedRows' = F!FittedRows
        BY <1>1, <2>1, <2>2, FitWriterKeeps
    <2>4. fStaged \o fFitted.rows = F!Canonical(F!FittedRows) /\ fStaged \in Seq(F!RowsIn(fSource))
        BY <1>1, <1>2, <2>1 DEF F!IInv, F!WriterOK, F!Offered
    <2>5. F!Offered' = <<>> /\ fStaged' \in Seq(F!RowsIn(fSource))
        <3>1. fFitted'.is # "batch"
            BY <2>2, FitItems
        <3>2. F!Offered' = <<>>
            BY <3>1 DEF F!Offered
        <3>3. fStaged \o fFitted.rows \in Seq(F!RowsIn(fSource))
            <4> DEFINE X == F!RowsIn(fSource)
            <4>1. fStaged \in Seq(X) /\ fFitted.rows \in Seq(X)
                BY <2>1, <2>4
            <4> HIDE DEF X
            <4>2. fStaged \o fFitted.rows \in Seq(X)
                BY <4>1
            <4> QED BY <4>2 DEF X
        <3> QED BY <1>2, <3>2, <3>3
    <2>6. fStaged' \o <<>> = fStaged'
        BY <2>5
    <2>7. F!WriterOK'
        BY <1>1, <1>2, <2>2, <2>3, <2>4, <2>5, <2>6, FitItems DEF F!IInv, F!WriterOK
    <2> QED BY <2>3, <2>7 DEF F!IInv
<1>3. CASE fFitted = F!End /\ fPc' = "check" /\ UNCHANGED <<fFitted, fStaged>>
    <2>1. F!ReaderOK' /\ F!FitterOK' /\ F!SummaryOK' /\ F!FittedRows' = F!FittedRows
        BY <1>1, <1>3, FitWriterKeeps
    <2>2. F!WriterOK'
        BY <1>1, <1>3, <2>1 DEF F!IInv, F!WriterOK, F!Writing, F!Offered
    <2> QED BY <2>1, <2>2 DEF F!IInv
<1>4. CASE fFitted = F!Raised /\ fPc' = "failed" /\ fStaged' = <<>> /\ UNCHANGED fFitted
    <2>1. F!ReaderOK' /\ F!FitterOK' /\ F!SummaryOK' /\ F!FittedRows' = F!FittedRows
        BY <1>1, <1>4, FitWriterKeeps
    <2>2. F!WriterOK'
        BY <1>1, <1>4, <2>1 DEF F!IInv, F!WriterOK, F!Writing
    <2> QED BY <2>1, <2>2 DEF F!IInv
<1> QED BY <1>2, <1>3, <1>4 DEF F!Take

LEMMA FitWriteStep == F!IInv /\ F!Write => F!IInv'
<1> SUFFICES ASSUME F!IInv, F!Write PROVE F!IInv'
    OBVIOUS
<1>1. /\ UNCHANGED <<fSource, fPolicy, F!reader, F!fitter, fStaged, fOutput>> /\ fPc = "write" /\ fPc' = "next"
      /\ fFitted' = IF fFitted = F!Waiting THEN F!Running ELSE fFitted
    BY DEF F!Write
<1>2. /\ fFitted' = fFitted \/ (fFitted \notin {F!End, F!Raised} /\ fFitted' \in {F!Running, F!Waiting})
      /\ fFit = "failed" => fFitted' = fFitted
    BY <1>1, FitItems DEF F!IInv, F!FitterOK, F!Writing
<1>3. F!ReaderOK' /\ F!FitterOK' /\ F!SummaryOK' /\ F!FittedRows' = F!FittedRows
    BY <1>1, <1>2, FitWriterKeeps DEF F!Writing
<1>4. F!Offered' = F!Offered
    BY <1>1, FitItems DEF F!Offered
<1>5. F!WriterOK'
    BY <1>1, <1>3, <1>4 DEF F!IInv, F!WriterOK, F!Writing, F!fitter
<1> QED BY <1>3, <1>5 DEF F!IInv

\* As many keys as rows are keys that differ.
LEMMA KeysAreInjective ==
    ASSUME NEW R, NEW rows \in Seq(R), Cardinality({rows[i].key : i \in DOMAIN rows}) = Len(rows)
    PROVE  F!IsInjective([i \in DOMAIN rows |-> rows[i].key])
<1> DEFINE S == DOMAIN rows
           Values == {rows[i].key : i \in DOMAIN rows}
           f == [i \in S |-> rows[i].key]
<1>1. S = 1..Len(rows) /\ Len(rows) \in Nat
    OBVIOUS
<1>2. IsFiniteSet(S) /\ Cardinality(S) = Len(rows)
    <2> DEFINE n == Len(rows)
    <2>1. IsFiniteSet(1..n) /\ Cardinality(1..n) = IF 1 > n THEN 0 ELSE n - 1 + 1
        <3>0. n \in Nat
            BY <1>1
        <3>1. 1 \in Int /\ n \in Int
            <4> HIDE DEF n
            <4> QED BY <3>0
        <3> HIDE DEF n
        <3> QED BY <3>1, FS_Interval
    <2>2. n \in Nat /\ S = 1..n
        BY <1>1
    <2> HIDE DEF n, S
    <2>3. Cardinality(1..n) = n
        BY <2>1, <2>2
    <2> QED BY <2>1, <2>2, <2>3 DEF n
<1>3. f \in Surjection(S, Values)
    BY DEF Surjection
<1>4. f \in Injection(S, Values)
    <2> HIDE DEF f, S
    <2> QED BY <1>2, <1>3, FS_Surjection
<1> QED BY <1>4 DEF Injection, IsInjective, F!IsInjective

\* A file is published when its source is at its end and its keys are distinct.
LEMMA FitPublishStep == F!IInv /\ F!Publish => F!IInv'
<1> SUFFICES ASSUME F!IInv, F!Publish PROVE F!IInv'
    OBVIOUS
<1> USE DEF F!reader, F!fitter
<1>1. /\ UNCHANGED <<fSource, fPolicy, F!reader, F!fitter, fFitted>> /\ fPc = "check" /\ fStaged' = <<>>
      /\ \/ Cardinality(F!Keys) = Len(fStaged) /\ fPc' = "done" /\ fOutput' = F!File(fStaged)
         \/ fPc' = "failed" /\ UNCHANGED fOutput
    BY FitSets DEF F!Publish
<1>2. F!ReaderOK' /\ F!FitterOK' /\ F!SummaryOK' /\ F!FittedRows' = F!FittedRows
    BY <1>1, FitWriterKeeps DEF F!Writing
<1>3. fFitted = F!End /\ fFit = "ended"
    BY <1>1 DEF F!IInv, F!WriterOK, F!FitterOK
<1>4. fPulled = F!End /\ F!FittedRows = F!Rows(fSource)
    BY <1>3, FittedAreFirst DEF F!IInv, F!FitterOK
<1>5. fStaged = F!Canonical(F!Rows(fSource)) /\ fStaged \in Seq(F!RowsIn(fSource))
    <2>1. F!Writing /\ F!Offered = <<>>
        BY <1>1, <1>3, FitItems DEF F!Writing, F!Offered
    <2>2. fStaged \o <<>> = F!Canonical(F!Rows(fSource)) /\ fStaged \in Seq(F!RowsIn(fSource))
        BY <1>3, <1>4, <2>1 DEF F!IInv, F!WriterOK
    <2> QED BY <2>2
<1>6. Cardinality(F!Keys) = Len(fStaged) => F!IsInjective([i \in DOMAIN fStaged |-> fStaged[i].key])
    BY <1>5, KeysAreInjective DEF F!Keys
<1>7. F!WriterOK'
    <2>1. CASE fPc' = "failed" /\ UNCHANGED fOutput
        BY <1>1, <2>1 DEF F!IInv, F!WriterOK, F!Writing
    <2>2. CASE Cardinality(F!Keys) = Len(fStaged) /\ fPc' = "done" /\ fOutput' = F!File(fStaged)
        <3>1. fOutput'.rows = fStaged
            BY <2>2, FitItems
        <3>2. F!IsInjective([i \in DOMAIN fOutput'.rows |-> fOutput'.rows[i].key])
            BY <1>6, <2>2, <3>1
        <3> QED BY <1>1, <1>3, <1>5, <2>2, <3>2 DEF F!WriterOK, F!Writing
    <2> QED BY <1>1, <2>1, <2>2
<1> QED BY <1>2, <1>7 DEF F!IInv

LEMMA FitWriterFailsStep == F!IInv /\ F!WriterFails => F!IInv'
<1> SUFFICES ASSUME F!IInv, F!WriterFails PROVE F!IInv'
    OBVIOUS
<1>1. /\ UNCHANGED <<fSource, fPolicy, F!reader, F!fitter, fFitted, fOutput>> /\ fPc \in {"write", "check"}
      /\ fPc' = "failed" /\ fStaged' = <<>>
    BY DEF F!WriterFails
<1>2. F!ReaderOK' /\ F!FitterOK' /\ F!SummaryOK' /\ F!FittedRows' = F!FittedRows
    BY <1>1, FitWriterKeeps DEF F!Writing
<1>3. F!WriterOK'
    BY <1>1 DEF F!IInv, F!WriterOK, F!Writing
<1> QED BY <1>2, <1>3 DEF F!IInv

LEMMA FitWait == F!IInv /\ UNCHANGED F!vars => F!IInv'
BY DEF F!vars, F!IInv, F!ReaderOK, F!FitterOK, F!SummaryOK, F!WriterOK, F!Writing, F!Offered, F!FittedRows, F!Taken

LEMMA FitInvariance == F!Spec => []F!IInv
<1>1. F!Init => F!IInv
    BY FitInit
<1>2. F!IInv /\ [F!Next]_(F!vars) => F!IInv'
    BY FitPullStep, FitBeginsStep, FitAskStep, FitSourceFailsStep, FitBatchStep, FitCompleteStep, FitCloseStep,
       FitStartStep, FitTakeStep, FitWriteStep, FitPublishStep, FitWriterFailsStep, FitWait DEF F!Next
<1> QED BY <1>1, <1>2, PTL DEF F!Spec

\* The invariant is enough: what is published is all of the canonical rows.
LEMMA SoundFitIsWhole == F!IInv => F!SidecarIsWhole /\ F!OutputIsWhole
<1> SUFFICES ASSUME F!IInv PROVE F!SidecarIsWhole /\ F!OutputIsWhole
    OBVIOUS
<1>1. F!SidecarIsWhole
    BY DEF F!IInv, F!FitterOK, F!SidecarIsWhole
<1>2. ASSUME fOutput \notin {F!No, F!Old}
      PROVE  /\ fOutput = F!File(F!Canonical(F!Rows(fSource)))
             /\ F!IsInjective([i \in DOMAIN fOutput.rows |-> fOutput.rows[i].key])
             /\ fFit = "ended" /\ fPulled = F!End /\ fSidecar = F!File(F!Rows(fSource))
             /\ fSummary.source = Len(F!Rows(fSource)) /\ fSummary.canonical = Len(fOutput.rows)
    <2>1. fPc = "done"
        BY <1>2 DEF F!IInv, F!WriterOK
    <2>2. /\ fFit = "ended" /\ fOutput = F!File(F!Canonical(F!Rows(fSource)))
          /\ F!IsInjective([i \in DOMAIN fOutput.rows |-> fOutput.rows[i].key])
        BY <2>1 DEF F!IInv, F!WriterOK
    <2>3. fPulled = F!End /\ fSidecar = F!File(F!Rows(fSource)) /\ F!FittedRows = F!Rows(fSource)
        BY <2>2, FittedAreFirst DEF F!IInv, F!FitterOK
    <2>4. fOutput.rows = F!Canonical(F!Rows(fSource))
        BY <2>2, FitItems
    <2> QED BY <2>2, <2>3, <2>4 DEF F!IInv, F!SummaryOK
<1>3. fSummary.source - (fSummary.canonical + fSummary.skipped) \in IF fFit = "failed" THEN {0, 1} ELSE {0}
    BY DEF F!IInv, F!SummaryOK
<1> QED BY <1>1, <1>2, <1>3 DEF F!OutputIsWhole

LEMMA FitsAreKeptWhole == F!Spec => [](F!SidecarIsWhole /\ F!OutputIsWhole)
BY FitInvariance, SoundFitIsWhole, PTL

-----------------------------------------------------------------------------
(***************************************************************************)
(* The machines together.                                                  *)
(***************************************************************************)

\* A behaviour of the sum is a behaviour of each of its components.
LEMMA SumIsOfComponents ==
    OutputsSpec => Spec /\ F!Spec /\ T!Spec /\ J!Spec /\ B!Spec /\ A!Spec
<1>1. OutputsInit => Init /\ F!Init /\ T!Init /\ J!Init /\ B!Init /\ A!Init
    BY DEF OutputsInit
<1>2. ASSUME [OutputsNext]_<<topic, vars, fits, tiles, crops, own, archives>>
      PROVE  /\ [Next]_vars /\ [F!Next]_(F!vars) /\ [T!Next]_(T!vars)
             /\ [J!Next]_(J!vars) /\ [B!Next]_(B!vars) /\ [A!Next]_(A!vars)
    <2>1. UNCHANGED own => UNCHANGED B!vars
        BY DEF own, B!vars
    <2>2. UNCHANGED crops => UNCHANGED J!vars
        BY DEF crops, J!vars, J!disk
    <2>3. UNCHANGED fits => UNCHANGED F!vars
        BY DEF fits, F!vars
    <2>4. UNCHANGED tiles => UNCHANGED T!vars
        BY DEF tiles, T!vars, T!call
    <2>5. UNCHANGED archives => UNCHANGED A!vars
        BY DEF archives, A!vars
    <2> QED BY <1>2, <2>1, <2>2, <2>3, <2>4, <2>5 DEF OutputsNext
<1> QED BY <1>1, <1>2, PTL DEF OutputsSpec, Spec, F!Spec, T!Spec, J!Spec, B!Spec, A!Spec

\* A plan over the user's data gets what was read for its area, policy and files,
\* whoever filled the cache; of a source that has a stamp or is hashed, and of any
\* that is read anew, nothing from before the call, and nothing torn while the user
\* leaves it alone (byo.py:111-346).
THEOREM OutputsStayOfTheirPlan == OutputsSpec => []OutputsAreOfTheirPlan
<1>1. B!IInv => OutputsAreOfTheirPlan
    BY SoundIsOfItsPlan DEF OutputsAreOfTheirPlan
<1> QED BY <1>1, OwnInvariance, SumIsOfComponents, PTL

\* JRC and EDO: a call that prepared its files alone left a record that names every
\* file of its plan with the bytes it has, damaged by nothing but a race of two calls
\* at one raster; its output was made of them (jrc.py:240-417, edo.py:83-276).
THEOREM CropsStayHonest == OutputsSpec => []CropsAreHonest
<1>1. J!IInv => CropsAreHonest
    BY Assumptions, SoundCropsAreHonest DEF CropsAreHonest
<1> QED BY <1>1, CropsInvariance, SumIsOfComponents, PTL

\* Every cell and polygon that overlap have one row with their share, from the file
\* of their kind, wherever the parents hold their children; whatever step of an
\* earlier call failed, the next one collides with nothing; and the nested lookup
\* says of each cell what its rows say (coverage.py:170-486, admin.py:248-356).
THEOREM CoverageStaysHonest == OutputsSpec => []CoverageIsHonest
<1>1. CoverageIsExact /\ NoCollision /\ LookupAgrees <=> CoverageIsHonest
    BY DEF CoverageIsHonest
<1>2. Spec => [](CoverageIsExact /\ NoCollision /\ LookupAgrees)
    BY SoundCoverage
<1> QED BY <1>1, <1>2, SumIsOfComponents, PTL

\* The shards of a run that is done partition the pixels whose centres lie in its
\* area, whichever tiles failed before and in whatever order the workers ended; the
\* sidecar of a run of one tile is that tile's (tiling.py:60-330).
THEOREM TilesStayPartitioned == OutputsSpec => []TilesPartitionPixels
<1>1. T!ShardsPartitionPixels /\ T!SidecarOfOneTile <=> TilesPartitionPixels
    BY DEF TilesPartitionPixels
<1>2. T!Spec => [](T!ShardsPartitionPixels /\ T!SidecarOfOneTile)
    BY SoundTiles
<1> QED BY <1>1, <1>2, SumIsOfComponents, PTL

\* A PMTiles archive is made of the rows and columns its layers ask for, on the zooms
\* each asks for; and builds at one time whose shares of the disk add up to no more
\* than it holds do not fill it (_build.py, budget.py).
THEOREM ArchivesStayHonest == OutputsSpec => []ArchivesAreHonest
<1>1. A!ArchiveIsOfItsLayers /\ A!SharesAddUp <=> ArchivesAreHonest
    BY DEF ArchivesAreHonest
<1>2. A!Spec => [](A!ArchiveIsOfItsLayers /\ A!SharesAddUp)
    BY SoundArchives, PTL
<1> QED BY <1>1, <1>2, SumIsOfComponents, PTL

\* Whichever thread fails and whenever: a sidecar that is there has a row for each row
\* of the source, and a published file has its canonical rows, each key once, in their
\* order, with the sidecar there before it and the counts of the summary right
\* (fitting/workflows.py, connectors/parquet.py).
THEOREM FitsStayWhole == OutputsSpec => []FitsAreWhole
<1>1. F!SidecarIsWhole /\ F!OutputIsWhole <=> FitsAreWhole
    BY DEF FitsAreWhole
<1>2. F!Spec => [](F!SidecarIsWhole /\ F!OutputIsWhole)
    BY FitsAreKeptWhole
<1> QED BY <1>1, <1>2, SumIsOfComponents, PTL
=============================================================================
