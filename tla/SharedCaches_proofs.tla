------------------------- MODULE SharedCaches_proofs -------------------------
(***************************************************************************)
(* The caches that processes share.  First, the pointer of the NOAA        *)
(* water-level cache names a complete snapshot for any number of readers,  *)
(* resources and snapshots, as long as one process at most fills and       *)
(* refreshes the cache.  Then the caches together: a behaviour of their    *)
(* sum is one of each of them, so that what YearCache_proofs and           *)
(* StationCache_proofs prove holds of it.  The station catalogue and the   *)
(* single-object snapshots are proved about here, where they are           *)
(* instantiated.                                                           *)
(***************************************************************************)
EXTENDS MCSharedCaches, Integers, Sequences, FiniteSetTheorems, TLAPS

\* Two processes that are filling or refreshing the cache are the same one.
LEMMA OneAtATime ==
    ASSUME OneWriter, IInv, NEW p \in Proc, NEW q \in Proc,
           pc[p] \in Writing, pc[q] \in Writing
    PROVE  p = q
<1>1. /\ pc[p] # "idle" /\ pc[q] # "idle"
  BY DEF Writing
<1>2. /\ mode[p] \in Modes[p] /\ mode[p] # "offline"
      /\ mode[q] \in Modes[q] /\ mode[q] # "offline"
  BY <1>1 DEF IInv
<1>3. QED
  BY <1>2 DEF OneWriter

\* Every cache a process can find at first satisfies the invariant.
LEMMA InitIInv == Init => IInv
<1> SUFFICES ASSUME Init PROVE IInv
  OBVIOUS
<1>1. TypeOK
  BY DEF Init, TypeOK, Phase, Directory
<1>2. PointerIsWhole
  BY DEF Init, PointerIsWhole
<1>3. QED
  BY <1>1, <1>2 DEF Init, IInv, Writing

\* Every step of every process preserves it.
LEMMA StepIInv == OneWriter /\ IInv /\ [Next]_vars => IInv'
<1> SUFFICES ASSUME OneWriter, IInv, [Next]_vars PROVE IInv'
  OBVIOUS
<1> USE SnapshotPointerAssumption DEF Writing
<1>0. TypeOK /\ PointerIsWhole
  BY DEF IInv
<1>1. ASSUME NEW p \in Proc, Start(p) PROVE IInv'
  BY <1>0, <1>1 DEF Start, Go, IInv, TypeOK, Phase, Directory, PointerIsWhole
<1>2. ASSUME NEW p \in Proc, Check(p) PROVE IInv'
  <2> DEFINE next == pc'[p]
  <2>1. /\ pc[p] = "check"
        /\ pc' = [pc EXCEPT ![p] = next]
        /\ next \in {"fetch", "verify", "incomplete"}
        /\ next = "fetch" => mode[p] # "offline"
        /\ UNCHANGED <<pointer, files, used, mode, base, sweep>>
    BY <1>0, <1>2 DEF Check, Go, TypeOK
  <2>2. TypeOK' /\ PointerIsWhole'
    BY <1>0, <2>1 DEF TypeOK, Phase, PointerIsWhole
  <2>3. QED
    BY <1>0, <2>1, <2>2 DEF IInv, TypeOK
<1>3. ASSUME NEW p \in Proc, Verify(p) PROVE IInv'
  BY <1>0, <1>3 DEF Verify, Go, IInv, TypeOK, Phase, PointerIsWhole
<1>4. ASSUME NEW p \in Proc, Fetch(p) \/ FetchFails(p) PROVE IInv'
  BY <1>0, <1>4 DEF Fetch, FetchFails, Go, IInv, TypeOK, Phase, PointerIsWhole
<1>5. ASSUME NEW p \in Proc, Rename(p) PROVE IInv'
  BY <1>0, <1>5 DEF Rename, Go, IInv, TypeOK, Phase, Directory, PointerIsWhole
<1>6. ASSUME NEW p \in Proc, Point(p) PROVE IInv'
  <2>1. base[p] \in Snapshot /\ files[base[p]] = Resource /\ sweep[p] = {}
    BY <1>6 DEF Point, IInv
  <2>2. ASSUME NEW q \in Proc, q # p PROVE pc[q] \notin Writing
    BY <1>6, <2>2, OneAtATime DEF Point
  <2>3. TypeOK' /\ PointerIsWhole'
    BY <1>0, <1>6, <2>1 DEF Point, Go, TypeOK, Phase, PointerIsWhole
  <2>4. ASSUME NEW q \in Proc PROVE sweep[q] = {}
    BY <2>1, <2>2 DEF IInv
  <2>5. QED
    BY <1>0, <1>6, <2>1, <2>2, <2>3, <2>4 DEF Point, Go, IInv, TypeOK
<1>7. ASSUME NEW p \in Proc, List(p) PROVE IInv'
  BY <1>0, <1>7 DEF List, Go, IInv, TypeOK, Phase, PointerIsWhole
<1>8. ASSUME NEW p \in Proc, Remove(p) PROVE IInv'
  <2>1. PICK s \in sweep[p] :
            IF files[s] = {}
            THEN sweep' = [sweep EXCEPT ![p] = @ \ {s}] /\ UNCHANGED files
            ELSE \E r \in files[s] :
                    files' = [files EXCEPT ![s] = @ \ {r}] /\ UNCHANGED sweep
    BY <1>8 DEF Remove
  <2>2. s \in Snapshot /\ pointer # s
    BY <1>0, <2>1 DEF IInv, TypeOK
  <2>3. ASSUME NEW q \in Proc, pc[q] = "renamed" PROVE FALSE
    BY <1>8, <2>3, OneAtATime DEF Remove
  <2>4. TypeOK'
    BY <1>0, <1>8, <2>1, <2>2 DEF Remove, TypeOK, Directory
  <2>5. PointerIsWhole'
    BY <1>0, <1>8, <2>1, <2>2 DEF Remove, TypeOK, Directory, PointerIsWhole
  <2>6. ASSUME NEW q \in Proc PROVE sweep'[q] \subseteq sweep[q]
    BY <1>0, <2>1 DEF TypeOK
  <2>7. QED
    BY <1>8, <2>3, <2>4, <2>5, <2>6 DEF Remove, IInv
<1>9. ASSUME NEW p \in Proc, RemoveFails(p) PROVE IInv'
  BY <1>0, <1>9 DEF RemoveFails, IInv, TypeOK, PointerIsWhole
<1>10. ASSUME NEW p \in Proc, Swept(p) PROVE IInv'
  BY <1>0, <1>10 DEF Swept, Go, IInv, TypeOK, Phase, PointerIsWhole
<1>11. ASSUME NEW p \in Proc, Read(p) PROVE IInv'
  BY <1>0, <1>11 DEF Read, Go, IInv, TypeOK, Phase, PointerIsWhole
<1>12. ASSUME NEW p \in Proc, Return(p) \/ Crash(p) PROVE IInv'
  BY <1>0, <1>12 DEF Return, Crash, Reset, IInv, TypeOK, Phase, Directory, PointerIsWhole
<1>13. CASE UNCHANGED vars
  BY <1>0, <1>13 DEF vars, IInv, TypeOK, PointerIsWhole
<1>14. QED
  BY <1>1, <1>2, <1>3, <1>4, <1>5, <1>6, <1>7, <1>8, <1>9, <1>10, <1>11, <1>12, <1>13
     DEF Next, Main

\* With at most one process that fills and refreshes the cache, the pointer
\* names a complete snapshot at every moment, whatever crashes and however many
\* processes read (noaa_water_levels.py:191-210).
THEOREM PointerStaysWhole == OneWriter => (Spec => []PointerIsWhole)
<1> SUFFICES ASSUME OneWriter PROVE Spec => []PointerIsWhole
  OBVIOUS
<1>1. Init => IInv
  BY InitIInv
<1>2. IInv /\ [Next]_vars => IInv'
  BY StepIInv
<1>3. IInv => PointerIsWhole
  BY DEF IInv
<1>4. QED
  BY <1>1, <1>2, <1>3, PTL DEF Spec

\* The responses an earlier version of the package left are never removed, and
\* a pointer is never withdrawn.
LEMMA RootAndPointerStay ==
    ASSUME IInv, [Next]_vars
    PROVE  /\ files'[Root] = files[Root]
           /\ pointer' = NoSnapshot => pointer = NoSnapshot
<1> USE SnapshotPointerAssumption
<1>1. ASSUME NEW p \in Proc, Rename(p) PROVE files'[Root] = files[Root]
  BY <1>1 DEF Rename, IInv, TypeOK, Directory
<1>2. ASSUME NEW p \in Proc, Remove(p) PROVE files'[Root] = files[Root]
  BY <1>2 DEF Remove, IInv, TypeOK, Directory
<1>3. ASSUME NEW p \in Proc, Point(p) PROVE pointer' # NoSnapshot
  BY <1>3 DEF Point, IInv
<1>4. QED
  BY <1>1, <1>2, <1>3
     DEF Next, Main, Start, Check, Verify, Fetch, FetchFails, Rename, Point, List,
         Remove, RemoveFails, Swept, Read, Return, Crash, Reset, vars

\* With at most one process that fills and refreshes the cache, a cache that was
\* filled once stays usable: no step leaves it without a complete snapshot where
\* the next call looks (noaa_water_levels.py:109-119, 191-210).
THEOREM FilledCacheStaysUsable == OneWriter => (Spec => FilledStaysUsable)
<1> SUFFICES ASSUME OneWriter PROVE Spec => FilledStaysUsable
  OBVIOUS
<1>1. Init => IInv
  BY InitIInv
<1>2. IInv /\ [Next]_vars => IInv'
  BY StepIInv
<1>3. IInv /\ [Next]_vars /\ Filled =>
        files'[IF pointer' = NoSnapshot THEN Root ELSE pointer'] = Resource
  <2> SUFFICES ASSUME IInv, [Next]_vars, Filled
               PROVE  files'[IF pointer' = NoSnapshot THEN Root ELSE pointer'] = Resource
    OBVIOUS
  <2>1. PointerIsWhole'
    BY <1>2 DEF IInv
  <2>2. CASE pointer' = NoSnapshot
    BY <2>2, RootAndPointerStay DEF Filled
  <2>3. CASE pointer' # NoSnapshot
    BY <2>1, <2>3 DEF PointerIsWhole
  <2>4. QED
    BY <2>2, <2>3
<1>4. QED
  BY <1>1, <1>2, <1>3, PTL DEF Spec, FilledStaysUsable


-----------------------------------------------------------------------------
(***************************************************************************)
(* The station catalogue.                                                  *)
(***************************************************************************)

LEMMA VersionsAreNumbered ==
    ASSUME C!StationCatalogueAssumption
    PROVE  C!Version \subseteq Nat \ {0} /\ 1 \in C!Version /\ None \notin C!Version
           /\ \A v \in C!Version : 1..v \subseteq C!Version
BY DEF C!StationCatalogueAssumption, C!Version

\* The rows that a plan selects are those that its wishes describe.
LEMMA SelectedIsRight ==
    ASSUME C!StationCatalogueAssumption, NEW wanted \in C!Wanted, NEW v \in C!Version
    PROVE  C!Selected(wanted, v) =
             {row \in Catalogue[v] :
               /\ row.station \in wanted.stations \/ \E area \in wanted.areas : row.at \in area
               /\ wanted.years # C!NoPeriod =>
                    \E y \in wanted.years[1]..wanted.years[2] :
                       (row.start = None \/ row.start <= y) /\ (row.end = None \/ y <= row.end)}
<1> SUFFICES ASSUME NEW row \in Catalogue[v]
             PROVE  /\ (IF wanted.stations # {} THEN row.station \in wanted.stations
                        ELSE \E area \in wanted.areas : row.at \in area)
                       <=> (row.station \in wanted.stations \/ \E area \in wanted.areas : row.at \in area)
                    /\ C!InYears(row, wanted.years) <=>
                         (wanted.years # C!NoPeriod =>
                            \E y \in wanted.years[1]..wanted.years[2] :
                               (row.start = None \/ row.start <= y) /\ (row.end = None \/ y <= row.end))
  BY DEF C!Selected
<1>1. wanted.areas = {} \/ wanted.stations = {}
  BY DEF C!Wanted
<1>2. CASE wanted.years = C!NoPeriod
  BY <1>1, <1>2 DEF C!InYears
<1>3. CASE wanted.years # C!NoPeriod
  <2> DEFINE a == wanted.years[1]
             b == wanted.years[2]
             s == row.start
             e == row.end
             y == IF s # None /\ s >= a THEN s ELSE a
  <2>1. wanted.years \in Periods
    BY <1>3 DEF C!Wanted
  <2>2. a \in Int /\ b \in Int /\ a <= b
    BY <2>1 DEF C!StationCatalogueAssumption
  <2>3. row \in C!Rows
    BY DEF C!Rows
  <2>4. {s, e} \subseteq Int \cup {None} /\ (None \notin {s, e} => s <= e)
    BY <2>3 DEF C!StationCatalogueAssumption
  <2>5. None \notin Int
    BY DEF C!StationCatalogueAssumption
  <2>6. C!InYears(row, wanted.years) <=> (s # None => s <= b) /\ (e # None => e >= a)
    BY <1>3 DEF C!InYears
  <2> HIDE DEF a, b, s, e
  <2>7. (s # None => s <= b) /\ (e # None => e >= a) <=>
        \E z \in a..b : (s = None \/ s <= z) /\ (e = None \/ z <= e)
    <3>1. ASSUME s # None => s <= b, e # None => e >= a
          PROVE  y \in a..b /\ (s = None \/ s <= y) /\ (e = None \/ y <= e)
      BY <2>2, <2>4, <2>5, <3>1
    <3>2. ASSUME NEW z \in a..b, s = None \/ s <= z, e = None \/ z <= e
          PROVE  (s # None => s <= b) /\ (e # None => e >= a)
      BY <2>2, <2>4, <2>5, <3>2
    <3> QED BY <3>1, <3>2
  <2> QED BY <1>1, <1>3, <2>6, <2>7 DEF a, b, s, e
<1> QED BY <1>2, <1>3

LEMMA CatalogueInit == C!StationCatalogueAssumption /\ C!Init => C!IInv
<1> SUFFICES ASSUME C!StationCatalogueAssumption, C!Init PROVE C!IInv
  OBVIOUS
<1>1. C!NoCall \in C!Call
  BY DEF C!NoCall, C!Call, C!Wanted
<1>2. C!TypeOK
  BY <1>1, VersionsAreNumbered DEF C!Init, C!TypeOK
<1> QED BY <1>2 DEF C!Init, C!IInv, C!CallIsServed, C!AloneIsUndisturbed

\* A cCall that is as it was stays sound while others take steps: what they put in
\* place it would have had to overlap.
LEMMA OtherSelectionsStay ==
    ASSUME C!StationCatalogueAssumption, C!IInv, C!TypeOK', NEW p \in Proc, NEW q \in Proc, q # p,
           cRemote' = cRemote, cPc'[q] = cPc[q],
           cCall'[q] = cCall[q] \/ cCall'[q] = [cCall[q] EXCEPT !.alone = FALSE],
           cCall'[q].alone /\ cPc'[p] \in C!Running => cPc[p] \in C!Running,
           \A r \in Proc \ {p} : cPc'[r] = cPc[r],
           cFile' = cFile \/ (cPc[p] \in C!Running /\ cFile' # None),
           cEntry' = cEntry \/ cPc[p] \in C!Running
    PROVE  (C!CallIsServed(q) /\ C!AloneIsUndisturbed(q))'
<1>1. C!CallIsServed(q) /\ C!AloneIsUndisturbed(q) /\ C!TypeOK
  BY DEF C!IInv
<1>2. /\ cCall'[q].mode = cCall[q].mode /\ cCall'[q].seen = cCall[q].seen
      /\ cCall'[q].table = cCall[q].table /\ cCall'[q].first = cCall[q].first
      /\ cCall'[q].rows = cCall[q].rows /\ cCall'[q].wanted = cCall[q].wanted
      /\ cCall'[q].alone => cCall[q].alone
  <2>1. cCall[q] \in C!Call
    BY <1>1 DEF C!TypeOK
  <2> QED BY <2>1 DEF C!Call
<1>3. C!RightRows(q) => C!RightRows(q)'
  BY <1>2 DEF C!RightRows
<1>4. C!CallIsServed(q)'
  BY <1>1, <1>2, <1>3 DEF C!CallIsServed
<1>5. ASSUME cCall'[q].alone, cPc'[q] # "idle"
      PROVE  /\ cFile' = cFile /\ cEntry' = cEntry
             /\ \A r \in Proc \ {q} : cPc'[r] \notin C!Running
  <2>1. \A r \in Proc \ {q} : cPc[r] \notin C!Running
    BY <1>1, <1>2, <1>5 DEF C!AloneIsUndisturbed
  <2>2. cPc[p] \notin C!Running
    BY <2>1
  <2> QED BY <1>5, <2>1, <2>2
<1> QED BY <1>1, <1>2, <1>4, <1>5 DEF C!AloneIsUndisturbed

LEMMA SelectionStarts ==
    ASSUME C!StationCatalogueAssumption, C!IInv, NEW p \in Proc, C!Start(p)
    PROVE  C!IInv'
<1>1. PICK how \in {"reuse", "offline", "refresh"}, wanted \in C!Wanted :
         cCall' = [q \in Proc |->
                IF q = p THEN [C!NoCall EXCEPT !.mode = how, !.wanted = wanted, !.first = cRemote,
                                             !.alone = \A r \in Proc \ {p} : cPc[r] \notin C!Running]
                ELSE [cCall[q] EXCEPT !.alone = FALSE]]
  BY DEF C!Start
<1>2. C!TypeOK /\ cPc[p] = "idle" /\ cPc' = [cPc EXCEPT ![p] = "look"]
      /\ UNCHANGED <<cRemote, cFile, cEntry>>
  BY DEF C!Start, C!Goto, C!IInv
<1>3. \A q \in Proc : cCall[q] \in C!Call
  BY <1>2 DEF C!TypeOK
<1>4. C!TypeOK'
  <2>1. cCall'[p] \in C!Call
    BY <1>1, <1>2 DEF C!Call, C!NoCall, C!TypeOK
  <2>2. \A q \in Proc \ {p} : cCall'[q] \in C!Call
    BY <1>1, <1>3 DEF C!Call
  <2>3. cCall' \in [Proc -> C!Call]
    BY <1>1, <2>1, <2>2
  <2> QED BY <1>2, <2>3 DEF C!TypeOK, C!Running
<1>5. C!CallIsServed(p)' /\ C!AloneIsUndisturbed(p)'
  <2>1. cPc'[p] = "look" /\ \A q \in Proc \ {p} : cPc'[q] = cPc[q]
    BY <1>2 DEF C!TypeOK
  <2>2. cCall'[p].first = cRemote /\ (cCall'[p].alone <=> \A r \in Proc \ {p} : cPc[r] \notin C!Running)
    BY <1>1 DEF C!NoCall
  <2>3. cRemote \in Nat \ {0}
    BY <1>2, VersionsAreNumbered DEF C!TypeOK
  <2> QED BY <1>2, <2>1, <2>2, <2>3 DEF C!CallIsServed, C!AloneIsUndisturbed
<1>6. ASSUME NEW q \in Proc \ {p} PROVE (C!CallIsServed(q) /\ C!AloneIsUndisturbed(q))'
  <2>1. cCall'[q] = [cCall[q] EXCEPT !.alone = FALSE] /\ cCall[q] \in C!Call
    BY <1>1, <1>3
  <2>2. ~ cCall'[q].alone
    BY <2>1 DEF C!Call
  <2> QED BY <1>2, <1>4, <2>1, <2>2, OtherSelectionsStay DEF C!TypeOK
<1> QED BY <1>4, <1>5, <1>6 DEF C!IInv

\* A step that only ends a cCall.
LEMMA SelectionEnds ==
    ASSUME C!StationCatalogueAssumption, C!IInv, NEW p \in Proc, C!Raise(p), UNCHANGED <<cRemote, cFile, cEntry>>
    PROVE  C!IInv'
<1>1. C!TypeOK /\ cPc' = [cPc EXCEPT ![p] = "idle"] /\ cCall' = [cCall EXCEPT ![p] = C!NoCall]
  BY DEF C!IInv, C!Raise, C!Goto
<1>2. C!NoCall \in C!Call
  BY DEF C!NoCall, C!Call, C!Wanted
<1>3. C!TypeOK'
  BY <1>1, <1>2 DEF C!TypeOK
<1>4. C!CallIsServed(p)' /\ C!AloneIsUndisturbed(p)'
  BY <1>1 DEF C!TypeOK, C!CallIsServed, C!AloneIsUndisturbed
<1>5. ASSUME NEW q \in Proc \ {p} PROVE (C!CallIsServed(q) /\ C!AloneIsUndisturbed(q))'
  BY <1>1, <1>3, OtherSelectionsStay DEF C!TypeOK, C!Running
<1> QED BY <1>3, <1>4, <1>5 DEF C!IInv

\* A step inside a cCall: it is enough that the cCall itself stays sound.
LEMMA SelectionGoesOn ==
    ASSUME C!StationCatalogueAssumption, C!IInv, C!TypeOK', NEW p \in Proc, cPc[p] \in C!Running,
           NEW l \in C!Running \cup {"done"}, cPc' = [cPc EXCEPT ![p] = l],
           NEW c \in C!Call, cCall' = [cCall EXCEPT ![p] = c], cRemote' = cRemote,
           cFile' = cFile \/ cFile' # None,
           c.alone = cCall[p].alone, C!CallIsServed(p)',
           cCall[p].alone => C!AloneIsUndisturbed(p)'
    PROVE  C!IInv'
<1>1. ASSUME NEW q \in Proc \ {p} PROVE (C!CallIsServed(q) /\ C!AloneIsUndisturbed(q))'
  BY OtherSelectionsStay DEF C!IInv, C!TypeOK
<1>2. C!AloneIsUndisturbed(p)'
  BY DEF C!AloneIsUndisturbed, C!IInv, C!TypeOK
<1> QED BY <1>1, <1>2 DEF C!IInv

LEMMA SelectionSteps ==
    ASSUME C!StationCatalogueAssumption, C!IInv, NEW p \in Proc,
           C!Look(p) \/ C!Verify(p) \/ C!Open(p) \/ C!Fetch(p) \/ C!Replace(p) \/ C!Record(p) \/ C!SelectRows(p)
    PROVE  C!IInv'
<1> DEFINE c == cCall[p]
<1>1. C!TypeOK /\ C!CallIsServed(p) /\ C!AloneIsUndisturbed(p)
  BY DEF C!IInv
<1>2. c \in C!Call /\ cFile \in C!Version \cup {None} /\ cEntry \in C!Version \cup {None} /\ cRemote \in C!Version
  BY <1>1 DEF C!TypeOK
<1>3. cRemote \in Nat \ {0} /\ None \notin C!Version /\ C!Version \subseteq Nat \ {0}
  BY <1>2, VersionsAreNumbered
<1>4. cCall = [cCall EXCEPT ![p] = c]
  BY <1>1 DEF C!TypeOK
<1> HIDE DEF c
<1>5. ASSUME C!Look(p) PROVE C!IInv'
  <2> DEFINE d == [c EXCEPT !.seen = cEntry]
  <2>1. cPc[p] = "look" /\ cPc' = [cPc EXCEPT ![p] = "verify"] /\ cCall' = [cCall EXCEPT ![p] = d]
        /\ UNCHANGED <<cRemote, cFile, cEntry>>
    BY <1>5 DEF C!Look, C!Goto, c
  <2>2. d \in C!Call /\ d.alone = c.alone /\ d.seen = cEntry /\ d.first = c.first
    BY <1>2 DEF C!Call
  <2> HIDE DEF d
  <2>3. C!TypeOK' /\ cPc'[p] = "verify" /\ cCall'[p] = d /\ \A q \in Proc \ {p} : cPc'[q] = cPc[q]
    BY <1>1, <2>1, <2>2 DEF C!TypeOK, C!Running
  <2>4. C!CallIsServed(p)'
    BY <1>1, <2>1, <2>2, <2>3 DEF C!CallIsServed, c
  <2>5. c.alone => C!AloneIsUndisturbed(p)'
    BY <1>1, <2>1, <2>2, <2>3 DEF C!AloneIsUndisturbed, c
  <2> QED BY <2>1, <2>2, <2>3, <2>4, <2>5, SelectionGoesOn DEF c, C!Running
<1>6. ASSUME C!Verify(p) PROVE C!IInv'
  <2>1. CASE C!Raise(p)
    BY <1>6, <2>1, SelectionEnds DEF C!Verify
  <2>2. CASE ~ C!Raise(p)
    <3> DEFINE l == IF C!Verified(p) /\ c.mode # "refresh" THEN "open" ELSE "fetch"
    <3>1. cPc[p] = "verify" /\ cPc' = [cPc EXCEPT ![p] = l] /\ cCall' = [cCall EXCEPT ![p] = c]
          /\ UNCHANGED <<cRemote, cFile, cEntry, cCall>>
      BY <1>4, <1>6, <2>2 DEF C!Verify, C!Goto, c
    <3>2. l \in {"open", "fetch"} /\ (l = "open" => c.mode # "refresh" /\ c.seen # None /\ cFile = c.seen)
      BY DEF C!Verified, c
    <3> HIDE DEF l
    <3>3. C!TypeOK' /\ cPc'[p] = l /\ cCall'[p] = c /\ \A q \in Proc \ {p} : cPc'[q] = cPc[q]
      BY <1>1, <3>1, <3>2 DEF C!TypeOK, C!Running, c
    <3>4. C!CallIsServed(p)'
      BY <1>1, <1>3, <3>1, <3>2, <3>3 DEF C!CallIsServed, c
    <3>5. c.alone => C!AloneIsUndisturbed(p)'
      BY <1>1, <3>1, <3>2, <3>3 DEF C!AloneIsUndisturbed, c
    <3> QED BY <1>2, <3>1, <3>2, <3>3, <3>4, <3>5, SelectionGoesOn DEF c, C!Running
  <2> QED BY <2>1, <2>2
<1>7. ASSUME C!Open(p) PROVE C!IInv'
  <2> DEFINE d == [c EXCEPT !.table = cFile]
  <2>1. cPc[p] = "open" /\ cPc' = [cPc EXCEPT ![p] = "select"] /\ cCall' = [cCall EXCEPT ![p] = d]
        /\ UNCHANGED <<cRemote, cFile, cEntry>>
    BY <1>7 DEF C!Open, C!Goto, c
  <2>2. d \in C!Call /\ d.alone = c.alone /\ d.seen = c.seen /\ d.first = c.first /\ d.table = cFile
        /\ d.mode = c.mode
    BY <1>2 DEF C!Call
  <2> HIDE DEF d
  <2>3. C!TypeOK' /\ cPc'[p] = "select" /\ cCall'[p] = d /\ \A q \in Proc \ {p} : cPc'[q] = cPc[q]
    BY <1>1, <2>1, <2>2 DEF C!TypeOK, C!Running
  <2>4. C!CallIsServed(p)'
    BY <1>1, <1>2, <2>1, <2>2, <2>3 DEF C!CallIsServed, c
  <2>5. c.alone => C!AloneIsUndisturbed(p)'
    BY <1>1, <2>1, <2>2, <2>3 DEF C!AloneIsUndisturbed, c
  <2> QED BY <2>1, <2>2, <2>3, <2>4, <2>5, SelectionGoesOn DEF c, C!Running
<1>8. ASSUME C!Fetch(p) PROVE C!IInv'
  <2>1. CASE C!Raise(p)
    BY <1>8, <2>1, SelectionEnds DEF C!Fetch
  <2>2. CASE ~ C!Raise(p)
    <3> DEFINE d == [c EXCEPT !.table = cRemote, !.seen = cRemote]
    <3>1. cPc[p] = "fetch" /\ cPc' = [cPc EXCEPT ![p] = "replace"] /\ cCall' = [cCall EXCEPT ![p] = d]
          /\ UNCHANGED <<cRemote, cFile, cEntry>>
      BY <1>8, <2>2 DEF C!Fetch, C!Goto, c
    <3>2. d \in C!Call /\ d.alone = c.alone /\ d.seen = cRemote /\ d.first = c.first /\ d.table = cRemote
          /\ d.mode = c.mode
      BY <1>2 DEF C!Call
    <3> HIDE DEF d
    <3>3. C!TypeOK' /\ cPc'[p] = "replace" /\ cCall'[p] = d /\ \A q \in Proc \ {p} : cPc'[q] = cPc[q]
      BY <1>1, <3>1, <3>2 DEF C!TypeOK, C!Running
    <3>4. C!CallIsServed(p)'
      BY <1>1, <1>2, <1>3, <3>1, <3>2, <3>3 DEF C!CallIsServed, c
    <3>5. c.alone => C!AloneIsUndisturbed(p)'
      BY <1>1, <3>1, <3>2, <3>3 DEF C!AloneIsUndisturbed, c
    <3> QED BY <3>1, <3>2, <3>3, <3>4, <3>5, SelectionGoesOn DEF c, C!Running
  <2> QED BY <2>1, <2>2
<1>9. ASSUME C!Replace(p) PROVE C!IInv'
  <2>1. cPc[p] = "replace" /\ cPc' = [cPc EXCEPT ![p] = "record"] /\ cCall' = [cCall EXCEPT ![p] = c]
        /\ UNCHANGED <<cRemote, cEntry, cCall>> /\ cFile' = c.table
    BY <1>4, <1>9 DEF C!Replace, C!Goto, c
  <2>2. c.table \in C!Version
    BY <1>1, <2>1 DEF C!CallIsServed, c
  <2>3. C!TypeOK' /\ cPc'[p] = "record" /\ cCall'[p] = c /\ \A q \in Proc \ {p} : cPc'[q] = cPc[q]
    BY <1>1, <2>1, <2>2 DEF C!TypeOK, C!Running, c
  <2>4. C!CallIsServed(p)'
    BY <1>1, <2>1, <2>2, <2>3 DEF C!CallIsServed, c
  <2>5. c.alone => C!AloneIsUndisturbed(p)'
    BY <1>1, <2>1, <2>3 DEF C!AloneIsUndisturbed, c
  <2> QED BY <1>2, <1>3, <2>1, <2>2, <2>3, <2>4, <2>5, SelectionGoesOn DEF c, C!Running
<1>10. ASSUME C!Record(p) PROVE C!IInv'
  <2>1. cPc[p] = "record" /\ cPc' = [cPc EXCEPT ![p] = "select"] /\ cCall' = [cCall EXCEPT ![p] = c]
        /\ UNCHANGED <<cRemote, cFile, cCall>> /\ cEntry' = c.table
    BY <1>4, <1>10 DEF C!Record, C!Goto, c
  <2>2. c.table \in C!Version
    BY <1>1, <2>1 DEF C!CallIsServed, c
  <2>3. C!TypeOK' /\ cPc'[p] = "select" /\ cCall'[p] = c /\ \A q \in Proc \ {p} : cPc'[q] = cPc[q]
    BY <1>1, <2>1, <2>2 DEF C!TypeOK, C!Running, c
  <2>4. C!CallIsServed(p)'
    BY <1>1, <2>1, <2>2, <2>3 DEF C!CallIsServed, c
  <2>5. c.alone => C!AloneIsUndisturbed(p)'
    BY <1>1, <2>1, <2>3 DEF C!AloneIsUndisturbed, c
  <2> QED BY <1>2, <2>1, <2>2, <2>3, <2>4, <2>5, SelectionGoesOn DEF c, C!Running
<1>11. ASSUME C!SelectRows(p) PROVE C!IInv'
  <2>1. CASE C!Raise(p)
    BY <1>11, <2>1, SelectionEnds DEF C!SelectRows
  <2>2. CASE ~ C!Raise(p)
    <3> DEFINE rows == C!Selected(c.wanted, c.table)
               d == [c EXCEPT !.rows = rows]
    <3>1. cPc[p] = "select" /\ cPc' = [cPc EXCEPT ![p] = "done"] /\ cCall' = [cCall EXCEPT ![p] = d]
          /\ UNCHANGED <<cRemote, cFile, cEntry>>
      BY <1>11, <2>2 DEF C!SelectRows, C!Goto, c
    <3>2. c.table \in C!Version /\ c.wanted \in C!Wanted
      BY <1>1, <1>2, <3>1 DEF C!CallIsServed, C!Call, c
    <3>3. rows \in SUBSET C!Rows
      BY <3>2 DEF C!Selected, C!Rows
    <3>4. d \in C!Call /\ d.alone = c.alone /\ d.seen = c.seen /\ d.first = c.first /\ d.table = c.table
          /\ d.mode = c.mode /\ d.rows = rows /\ d.wanted = c.wanted
      BY <1>2, <3>3 DEF C!Call
    <3> HIDE DEF d
    <3>5. C!TypeOK' /\ cPc'[p] = "done" /\ cCall'[p] = d /\ \A q \in Proc \ {p} : cPc'[q] = cPc[q]
      BY <1>1, <3>1, <3>4 DEF C!TypeOK, C!Running
    <3>6. C!RightRows(p)'
      BY <3>2, <3>4, <3>5, SelectedIsRight DEF C!RightRows
    <3>7. C!CallIsServed(p)'
      BY <1>1, <3>1, <3>2, <3>4, <3>5, <3>6 DEF C!CallIsServed, c
    <3>8. c.alone => C!AloneIsUndisturbed(p)'
      BY <1>1, <3>1, <3>4, <3>5 DEF C!AloneIsUndisturbed, c
    <3> QED BY <3>1, <3>4, <3>5, <3>7, <3>8, SelectionGoesOn DEF c, C!Running
  <2> QED BY <2>1, <2>2
<1> QED BY <1>5, <1>6, <1>7, <1>8, <1>9, <1>10, <1>11

\* The provider serves another catalogue, or nothing happens.
LEMMA CatalogueWaits ==
    ASSUME C!StationCatalogueAssumption, C!IInv, C!Update \/ UNCHANGED C!vars
    PROVE  C!IInv'
<1>1. UNCHANGED <<cFile, cEntry, cPc, cCall>> /\ cRemote' \in C!Version /\ cRemote' >= cRemote
      /\ cRemote \in Nat
  BY VersionsAreNumbered DEF C!Update, C!vars, C!IInv, C!TypeOK
<1>2. C!TypeOK'
  BY <1>1 DEF C!IInv, C!TypeOK
<1>3. ASSUME NEW p \in Proc PROVE (C!CallIsServed(p) /\ C!AloneIsUndisturbed(p))'
  <2>1. cRemote' \in Nat
    BY <1>1, VersionsAreNumbered
  <2> QED BY <1>1, <2>1 DEF C!IInv, C!CallIsServed, C!AloneIsUndisturbed, C!RightRows
<1> QED BY <1>2, <1>3 DEF C!IInv

\* A selection names the catalogue it is of.
LEMMA SelectionsStayOfTheirCatalogue == C!Spec => []C!SelectionsAreOfTheirCatalogue
<1>1. C!Init => C!IInv
  BY Assumptions, CatalogueInit
<1>2. C!IInv /\ [C!Next]_(C!vars) => C!IInv'
  <2> SUFFICES ASSUME C!IInv, C!Next PROVE C!IInv'
    BY Assumptions, CatalogueWaits
  <2>1. ASSUME NEW p \in Proc, C!Return(p) \/ C!Die(p) PROVE C!IInv'
    BY Assumptions, <2>1, SelectionEnds DEF C!Return, C!Die
  <2> QED BY Assumptions, <2>1, SelectionStarts, SelectionSteps, CatalogueWaits DEF C!Next
<1>3. C!IInv => C!SelectionsAreOfTheirCatalogue
  BY DEF C!IInv, C!CallIsServed, C!AloneIsUndisturbed, C!SelectionsAreOfTheirCatalogue
<1> QED BY <1>1, <1>2, <1>3, PTL DEF C!Spec

-----------------------------------------------------------------------------
(***************************************************************************)
(* The single-object snapshots, for any processes, years and versions: a   *)
(* call that is alone reads what it verified and leaves what it can be     *)
(* repeated from, whatever earlier calls left.                             *)
(***************************************************************************)

\* SnapshotCache speaks of the cardinalities of the library's theorems.
LEMMA SnapshotCardinality ==
  \A x : O!Cardinality(x) = Cardinality(x) /\ (O!IsFiniteSet(x) <=> IsFiniteSet(x))
BY DEF O!Cardinality, Cardinality, O!IsFiniteSet, IsFiniteSet

\* The directories of a plan are numbered from 1.
LEMMA SnapshotDirsAreNumbered ==
    ASSUME O!SnapshotCacheAssumption
    PROVE  /\ O!Last \in Nat /\ O!Last >= 1 /\ O!Dirs = 1..O!Last /\ O!Dirs \subseteq Years
           /\ 1 \in Years /\ Years \subseteq Nat \ {0} /\ O!Last \in O!Dirs
           /\ oPlan # "GeoMet" => O!Last = 1
<1>1. O!Cardinality(Years) \in Nat /\ O!Cardinality({1}) = 1
  BY SnapshotCardinality, FS_CardinalityType, FS_Singleton DEF O!SnapshotCacheAssumption
<1>2. Years = 1..O!Cardinality(Years) /\ O!Cardinality(Years) >= 1
  BY <1>1 DEF O!SnapshotCacheAssumption
<1>3. CASE oPlan = "GeoMet"
  <2>1. O!Dirs = Years
    BY <1>3 DEF O!Dirs
  <2> QED BY <1>1, <1>2, <1>3, <2>1 DEF O!Last
<1>4. CASE oPlan # "GeoMet"
  <2>1. O!Dirs = {1} /\ O!Last = 1
    BY <1>1, <1>4 DEF O!Dirs, O!Last
  <2> QED BY <1>1, <1>2, <2>1
<1> QED BY <1>3, <1>4

LEMMA NoSnapshotCall == O!SnapshotCacheAssumption => O!NoCall \in O!Call
  BY SnapshotDirsAreNumbered DEF O!NoCall, O!Call, O!Mode, O!Pin, O!Kept

LEMMA SnapshotsInit == O!SnapshotCacheAssumption /\ O!Init => O!IInv
<1> SUFFICES ASSUME O!SnapshotCacheAssumption, O!Init PROVE O!IInv
  OBVIOUS
<1>1. O!TypeOK
  BY NoSnapshotCall DEF O!Init, O!TypeOK, O!Kept, O!Version, O!SnapshotCacheAssumption
<1>2. O!RetainedIsWhole
  BY SnapshotDirsAreNumbered DEF O!Init, O!RetainedIsWhole
<1>3. ASSUME NEW p \in Proc PROVE O!CallIsSound(p)
  BY SnapshotDirsAreNumbered
     DEF O!Init, O!NoCall, O!CallIsSound, O!CallIsOfThePlan, O!StagedIsRetained, O!AloneIsAlone,
         O!AloneFindsThePair, O!AlonePrepares, O!AloneReads, O!Running, O!Dirs
<1> QED BY <1>1, <1>2, <1>3 DEF O!IInv

\* A step of one call that is under way, or that ends or touches no file, leaves
\* the invariant of every other call alone.
LEMMA OtherSnapshotsStaySound ==
    ASSUME O!IInv, NEW p \in Proc, NEW q \in Proc, q # p, UNCHANGED oPlan,
           oPc'[q] = oPc[q], oCall'[q] = oCall[q],
           \A r \in Proc \ {p} : oPc'[r] = oPc[r],
           \/ oPc[p] \in O!Running
           \/ UNCHANGED <<oFile, oManifest>> /\ oPc'[p] \notin O!Running
    PROVE  O!CallIsSound(q)'
<1>1. O!CallIsSound(q)
  BY DEF O!IInv
<1>2. O!CallIsOfThePlan(q)' /\ O!StagedIsRetained(q)'
  BY <1>1 DEF O!CallIsSound, O!CallIsOfThePlan, O!StagedIsRetained, O!Dirs, O!Last, O!Retains,
              O!NOAARetains, O!CHIRPSRetains, O!IBTrACSRetains, O!PagesRetained, O!PinOf, O!Dir
<1>3. O!AloneIsAlone(q)'
  BY <1>1 DEF O!CallIsSound, O!AloneIsAlone
<1>4. O!AloneReads(q)'
  BY <1>1 DEF O!CallIsSound, O!AloneReads
<1>5. O!AloneFindsThePair(q)' /\ O!AlonePrepares(q)'
  <2>1. CASE UNCHANGED <<oFile, oManifest>>
    BY <1>1, <2>1 DEF O!CallIsSound, O!AloneFindsThePair, O!AlonePrepares, O!Passed, O!Dir
  <2>2. CASE oPc[p] \in O!Running
    BY <1>1, <2>2 DEF O!CallIsSound, O!AloneIsAlone, O!AloneFindsThePair, O!AlonePrepares, O!Running
  <2> QED BY <2>1, <2>2
<1> QED BY <1>2, <1>3, <1>4, <1>5 DEF O!CallIsSound

\* Such a step preserves the invariant if its own call stays sound.
LEMMA OneSnapshotStep ==
    ASSUME O!IInv, NEW p \in Proc, UNCHANGED oPlan,
           \A r \in Proc \ {p} : oPc'[r] = oPc[r] /\ oCall'[r] = oCall[r],
           \/ oPc[p] \in O!Running
           \/ UNCHANGED <<oFile, oManifest>> /\ oPc'[p] \notin O!Running,
           O!TypeOK', O!RetainedIsWhole', O!CallIsSound(p)'
    PROVE  O!IInv'
<1>1. ASSUME NEW q \in Proc, q # p PROVE O!CallIsSound(q)'
  BY <1>1, OtherSnapshotsStaySound
<1> QED BY <1>1 DEF O!IInv

\* A call that begins makes every other one a call that was not alone.
LEMMA SnapshotStarts ==
    ASSUME O!SnapshotCacheAssumption, O!IInv, NEW p \in Proc, O!Start(p)
    PROVE  O!IInv'
<1> DEFINE nobody == \A r \in Proc \ {p} : oPc[r] \notin O!Running
           first(how, reads, pin) ==
               [O!NoCall EXCEPT !.mode = how, !.reads = reads, !.pin = pin, !.alone = nobody]
           other(q) == [oCall[q] EXCEPT !.alone = FALSE, !.found = O!NoCall.found,
                                       !.got = O!NoCall.got, !.read = O!NoCall.read]
<1>1. PICK how \in O!PlanModes, reads \in BOOLEAN, pin \in O!PinsOf :
        /\ p \in Refreshers => how = "refresh" /\ ~reads /\ pin = O!NoCall.pin
        /\ how = "stream" => reads /\ pin = O!NoCall.pin
        /\ oCall' = [q \in Proc |-> IF q = p THEN first(how, reads, pin) ELSE other(q)]
        /\ O!Goto(p, IF how = "stream" THEN "prepared" ELSE "look")
  BY Zenon DEF O!Start
<1>2. UNCHANGED <<oPlan, oRemote, oFile, oManifest>>
  BY DEF O!Start
<1>3. how \in O!Mode /\ (how = "stream" => oPlan = "CHIRPS")
  BY DEF O!PlanModes, O!Mode
<1>4. pin \in [Years -> O!Pin]
  BY DEF O!PinsOf, O!Pin
<1>5. nobody \in BOOLEAN
  OBVIOUS
<1>6. /\ O!NoCall \in O!Call /\ O!NoCall.dir = 1 /\ O!NoCall.read = <<>>
      /\ O!NoCall.got = [d \in Years |-> None]
  BY NoSnapshotCall DEF O!NoCall
<1>7. /\ first(how, reads, pin) \in O!Call /\ first(how, reads, pin).mode = how
      /\ first(how, reads, pin).dir = 1 /\ first(how, reads, pin).read = <<>>
      /\ first(how, reads, pin).got = [d \in Years |-> None]
      /\ first(how, reads, pin).alone => nobody
  <2> HIDE DEF nobody
  <2> QED BY <1>3, <1>4, <1>5, <1>6 DEF O!Call
<1>8. ASSUME NEW q \in Proc
      PROVE  /\ other(q) \in O!Call /\ ~other(q).alone /\ other(q).dir = oCall[q].dir
             /\ other(q).mode = oCall[q].mode /\ other(q).staged = oCall[q].staged
             /\ other(q).pin = oCall[q].pin
  BY <1>6, <1>8 DEF O!Call, O!IInv, O!TypeOK
<1>9. /\ oPc'[p] = IF how = "stream" THEN "prepared" ELSE "look"
      /\ \A q \in Proc \ {p} : oPc'[q] = oPc[q]
      /\ oCall'[p] = first(how, reads, pin)
      /\ \A q \in Proc \ {p} : oCall'[q] = other(q)
  <2> HIDE DEF first, other
  <2> QED BY <1>1 DEF O!IInv, O!TypeOK, O!Goto
<1> HIDE DEF first, other
<1>10. O!TypeOK'
  <2>1. oCall' \in [Proc -> O!Call]
    BY <1>1, <1>7, <1>8
  <2> QED BY <1>1, <1>2, <2>1 DEF O!IInv, O!TypeOK, O!Goto
<1>11. O!RetainedIsWhole'
  BY <1>2 DEF O!IInv, O!RetainedIsWhole, O!Dirs
<1>12. ASSUME NEW q \in Proc, q # p PROVE O!CallIsSound(q)'
  <2>1. /\ ~oCall'[q].alone /\ oCall'[q].dir = oCall[q].dir /\ oCall'[q].mode = oCall[q].mode
        /\ oCall'[q].staged = oCall[q].staged /\ oCall'[q].pin = oCall[q].pin /\ oPc'[q] = oPc[q]
    BY <1>12, <1>8, <1>9
  <2>2. O!CallIsSound(q)
    BY DEF O!IInv
  <2>3. O!CallIsOfThePlan(q)'
    BY <1>2, <2>1, <2>2 DEF O!CallIsSound, O!CallIsOfThePlan, O!Dirs, O!Last
  <2>4. O!StagedIsRetained(q)'
    BY <1>2, <2>1, <2>2
       DEF O!CallIsSound, O!StagedIsRetained, O!PinOf, O!Dir, O!Retains,
           O!NOAARetains, O!CHIRPSRetains, O!IBTrACSRetains, O!PagesRetained
  <2>5. O!AloneIsAlone(q)' /\ O!AloneFindsThePair(q)' /\ O!AlonePrepares(q)' /\ O!AloneReads(q)'
    BY <2>1 DEF O!AloneIsAlone, O!AloneFindsThePair, O!AlonePrepares, O!AloneReads
  <2> QED BY <2>3, <2>4, <2>5 DEF O!CallIsSound
<1>13. O!CallIsSound(p)'
  <2>1. O!CallIsOfThePlan(p)'
    BY <1>2, <1>3, <1>7, <1>9, SnapshotDirsAreNumbered DEF O!CallIsOfThePlan, O!Dirs
  <2>2. O!AloneIsAlone(p)'
    BY <1>7, <1>9 DEF O!AloneIsAlone
  <2>3. O!AlonePrepares(p)'
    BY <1>7, <1>9, SnapshotDirsAreNumbered DEF O!AlonePrepares, O!Passed, O!Dir
  <2>4. O!AloneReads(p)'
    BY <1>7, <1>9 DEF O!AloneReads
  <2>5. O!StagedIsRetained(p)' /\ O!AloneFindsThePair(p)'
    BY <1>9 DEF O!StagedIsRetained, O!AloneFindsThePair
  <2> QED BY <2>1, <2>2, <2>3, <2>4, <2>5 DEF O!CallIsSound
<1> QED BY <1>10, <1>11, <1>12, <1>13 DEF O!IInv

\* A call that raises, returns or is killed forgets all it knew.
LEMMA SnapshotEnds ==
    ASSUME O!SnapshotCacheAssumption, O!IInv, NEW p \in Proc,
           UNCHANGED <<oPlan, oRemote, oFile, oManifest>>,
           oCall' = [oCall EXCEPT ![p] = O!NoCall],
           \E l \in {"idle", "failed"} : oPc' = [oPc EXCEPT ![p] = l]
    PROVE  O!IInv'
<1>1. O!TypeOK' /\ O!RetainedIsWhole'
  BY NoSnapshotCall DEF O!IInv, O!TypeOK, O!RetainedIsWhole, O!Dirs
<1>2. oCall'[p] = O!NoCall /\ oPc'[p] \in {"idle", "failed"}
  BY DEF O!IInv, O!TypeOK
<1>3. O!CallIsSound(p)'
  BY <1>2, SnapshotDirsAreNumbered
     DEF O!NoCall, O!CallIsSound, O!CallIsOfThePlan, O!StagedIsRetained, O!AloneIsAlone,
         O!AloneFindsThePair, O!AlonePrepares, O!AloneReads, O!Running, O!Dirs
<1>4. \A r \in Proc \ {p} : oPc'[r] = oPc[r] /\ oCall'[r] = oCall[r]
  BY DEF O!IInv, O!TypeOK
<1> QED BY <1>1, <1>2, <1>3, <1>4, OneSnapshotStep DEF O!Running

\* A call that has the pair of a directory, which nobody else touched if it is
\* alone, goes on soundly.
LEMMA SnapshotHasPrepared ==
    ASSUME O!SnapshotCacheAssumption, O!IInv, NEW p \in Proc, oPc[p] \in {"verify", "record"},
           NEW m \in O!Body, O!HasPrepared(p, m), O!Pinned(m, O!PinOf(p)),
           UNCHANGED <<oPlan, oRemote, oFile>>, oManifest' \in [Years -> O!Kept],
           \A d \in Years \ {O!Dir(p)} : oManifest'[d] = oManifest[d],
           oCall[p].alone => oFile[O!Dir(p)] = m /\ oManifest'[O!Dir(p)] = m
    PROVE  O!IInv'
<1> DEFINE c == oCall[p]
           next == [c EXCEPT !.seen = None, !.staged = None, !.found = O!NoCall.found,
                             !.got[O!Dir(p)] = IF c.alone THEN m ELSE None,
                             !.dir = IF ~c.reads /\ O!Dir(p) < O!Last THEN O!Dir(p) + 1 ELSE O!Dir(p)]
           label == IF c.reads THEN "prepared" ELSE IF O!Dir(p) < O!Last THEN "look" ELSE "done"
<1>1. c \in O!Call /\ O!CallIsSound(p) /\ m # None
  BY DEF O!IInv, O!TypeOK, O!SnapshotCacheAssumption
<1>2. oCall' = [oCall EXCEPT ![p] = next] /\ oPc' = [oPc EXCEPT ![p] = label]
  BY Zenon DEF O!HasPrepared, O!Goto
<1>3. c.mode # "stream" /\ O!Dir(p) \in O!Dirs /\ O!Dir(p) \in Years
  BY <1>1, SnapshotDirsAreNumbered DEF O!CallIsSound, O!CallIsOfThePlan, O!Dir
<1>4. /\ next.mode = c.mode /\ next.reads = c.reads /\ next.pin = c.pin /\ next.read = c.read
      /\ next.alone <=> c.alone
      /\ next.got = [c.got EXCEPT ![O!Dir(p)] = IF c.alone THEN m ELSE None]
      /\ next.dir = IF ~c.reads /\ O!Dir(p) < O!Last THEN O!Dir(p) + 1 ELSE O!Dir(p)
      /\ next.seen = None /\ next.staged = None /\ next.found = <<None, None>>
  BY <1>1 DEF O!Call, O!Dir, O!NoCall
<1>5. next.dir \in O!Dirs /\ next.dir \in Years
  BY <1>3, <1>4, SnapshotDirsAreNumbered
<1>6. next \in O!Call
  BY <1>1, <1>3, <1>5 DEF O!Call, O!Kept, O!NoCall, O!Dir
<1>7. /\ oCall'[p] = next /\ oPc'[p] = label
      /\ \A q \in Proc \ {p} : oPc'[q] = oPc[q] /\ oCall'[q] = oCall[q]
  <2> HIDE DEF next, label
  <2> QED BY <1>2 DEF O!IInv, O!TypeOK
<1> HIDE DEF next
<1>8. O!TypeOK'
  BY <1>2, <1>6 DEF O!IInv, O!TypeOK
<1>9. O!RetainedIsWhole'
  BY DEF O!IInv, O!RetainedIsWhole, O!Dirs
<1>10. O!CallIsOfThePlan(p)'
  <2>1. oPc'[p] = "done" => next.dir = O!Last
    BY <1>3, <1>4, <1>7, SnapshotDirsAreNumbered
  <2> QED BY <1>3, <1>4, <1>5, <1>7, <2>1 DEF O!CallIsOfThePlan, O!Dirs, O!Last
<1>11. O!AloneIsAlone(p)'
  BY <1>1, <1>4, <1>7 DEF O!CallIsSound, O!AloneIsAlone, O!Running
<1>12. O!AlonePrepares(p)'
  <2> SUFFICES ASSUME c.alone, NEW d \in Years
               PROVE  /\ next.got[d] # None <=> O!Passed(p, d)'
                      /\ next.got[d] # None =>
                         /\ O!Pinned(next.got[d], next.pin[d])
                         /\ oFile[d] = next.got[d] /\ oManifest'[d] = next.got[d]
    BY <1>4, <1>7 DEF O!AlonePrepares, O!Pinned
  <2>1. /\ c.got[d] # None <=> d < O!Dir(p)
        /\ c.got[d] # None => /\ O!Pinned(c.got[d], c.pin[d])
                              /\ oFile[d] = c.got[d] /\ oManifest[d] = c.got[d]
    BY <1>1, <1>3 DEF O!CallIsSound, O!AlonePrepares, O!Passed, O!Running
  <2>2. O!Passed(p, d)' <=> d <= O!Dir(p)
    BY <1>3, <1>4, <1>7, SnapshotDirsAreNumbered DEF O!Passed, O!Dir
  <2>3. CASE d = O!Dir(p)
    BY <1>1, <1>3, <1>4, <2>2, <2>3, SnapshotDirsAreNumbered DEF O!Call, O!PinOf, O!Dir
  <2>4. CASE d # O!Dir(p)
    BY <1>1, <1>3, <1>4, <2>1, <2>2, <2>4, SnapshotDirsAreNumbered DEF O!Call
  <2> QED BY <2>3, <2>4
<1>13. O!AloneReads(p)'
  <2>1. ASSUME c.alone, NEW i \in DOMAIN c.read
        PROVE  /\ c.read[i][2] # None /\ c.read[i][2] = next.got[c.read[i][1]]
               /\ O!Pinned(c.read[i][2], next.pin[c.read[i][1]])
    <3>1. /\ c.read[i][2] # None /\ c.read[i][2] = c.got[c.read[i][1]]
          /\ O!Pinned(c.read[i][2], c.pin[c.read[i][1]])
      BY <1>1, <1>3, <2>1 DEF O!CallIsSound, O!AloneReads
    <3>2. c.got[O!Dir(p)] = None
      BY <1>1, <1>3, <2>1, SnapshotDirsAreNumbered DEF O!CallIsSound, O!AlonePrepares, O!Passed, O!Running
    <3>3. c.read[i][1] \in Years
      BY <1>1, <2>1 DEF O!Call
    <3> QED BY <1>1, <1>4, <3>1, <3>2, <3>3 DEF O!Call, O!Pinned
  <2>2. c.alone => \A i \in DOMAIN next.read :
            /\ next.read[i][2] # None /\ next.read[i][2] = next.got[next.read[i][1]]
            /\ O!Pinned(next.read[i][2], next.pin[next.read[i][1]])
    BY <1>4, <2>1
  <2> QED BY <1>4, <1>7, <2>2 DEF O!AloneReads, O!Pinned
<1>14. O!StagedIsRetained(p)' /\ O!AloneFindsThePair(p)'
  BY <1>7 DEF O!StagedIsRetained, O!AloneFindsThePair
<1> QED BY <1>7, <1>8, <1>9, <1>10, <1>11, <1>12, <1>13, <1>14, OneSnapshotStep
           DEF O!CallIsSound, O!Running

\* A call on its way to the pair of a directory keeps what it has of the others.
LEMMA SnapshotOnTheWay ==
    ASSUME O!SnapshotCacheAssumption, O!IInv, NEW p \in Proc, NEW c \in O!Call,
           NEW l \in {"verify", "fetch", "replace", "record", "rejected"},
           oPc[p] \in {"look", "verify", "fetch", "replace"},
           oCall' = [oCall EXCEPT ![p] = c], oPc' = [oPc EXCEPT ![p] = l],
           c.mode = oCall[p].mode, c.reads = oCall[p].reads, c.pin = oCall[p].pin,
           c.dir = oCall[p].dir, c.got = oCall[p].got, c.read = oCall[p].read,
           c.alone <=> oCall[p].alone,
           UNCHANGED <<oPlan, oRemote, oManifest>>, oFile' \in [Years -> O!Kept],
           \A d \in Years \ {O!Dir(p)} : oFile'[d] = oFile[d],
           O!RetainedIsWhole', O!StagedIsRetained(p)', O!AloneFindsThePair(p)'
    PROVE  O!IInv'
<1>1. O!CallIsSound(p) /\ oCall[p] \in O!Call
  BY DEF O!IInv, O!TypeOK
<1>2. /\ oCall'[p] = c /\ oPc'[p] = l
      /\ \A q \in Proc \ {p} : oPc'[q] = oPc[q] /\ oCall'[q] = oCall[q]
  BY DEF O!IInv, O!TypeOK
<1>3. O!TypeOK'
  BY DEF O!IInv, O!TypeOK
<1>4. O!CallIsOfThePlan(p)'
  BY <1>1, <1>2 DEF O!CallIsSound, O!CallIsOfThePlan, O!Dirs
<1>5. O!AloneIsAlone(p)'
  BY <1>1, <1>2 DEF O!CallIsSound, O!AloneIsAlone, O!Running
<1>6. O!AlonePrepares(p)'
  <2> SUFFICES ASSUME oCall[p].alone, NEW d \in Years
               PROVE  /\ c.got[d] # None <=> d < O!Dir(p)
                      /\ c.got[d] # None =>
                         /\ O!Pinned(c.got[d], c.pin[d])
                         /\ oFile'[d] = c.got[d] /\ oManifest[d] = c.got[d]
    BY <1>2 DEF O!AlonePrepares, O!Pinned, O!Passed, O!Dir
  <2>1. /\ c.got[d] # None <=> d < O!Dir(p)
        /\ c.got[d] # None => /\ O!Pinned(c.got[d], c.pin[d])
                              /\ oFile[d] = c.got[d] /\ oManifest[d] = c.got[d]
    BY <1>1 DEF O!CallIsSound, O!CallIsOfThePlan, O!AlonePrepares, O!Passed, O!Running
  <2>2. d < O!Dir(p) => d # O!Dir(p)
    BY <1>1, SnapshotDirsAreNumbered DEF O!CallIsSound, O!CallIsOfThePlan, O!Dir
  <2> QED BY <2>1, <2>2
<1>7. O!AloneReads(p)'
  BY <1>1, <1>2 DEF O!CallIsSound, O!AloneReads, O!Pinned
<1> QED BY <1>2, <1>3, <1>4, <1>5, <1>6, <1>7, OneSnapshotStep DEF O!CallIsSound, O!Running

\* Reading the manifest.
LEMMA SnapshotLooks ==
    ASSUME O!SnapshotCacheAssumption, O!IInv, NEW p \in Proc, O!Look(p)
    PROVE  O!IInv'
<1> DEFINE d == oCall[p].dir
           found == IF oCall[p].alone THEN <<oFile[d], oManifest[d]>> ELSE oCall[p].found
           c == [oCall[p] EXCEPT !.seen = oManifest[d], !.found = found]
<1>1. oCall[p] \in O!Call /\ d \in Years /\ oFile[d] \in O!Kept /\ oManifest[d] \in O!Kept
  BY DEF O!IInv, O!TypeOK, O!Call
<1>2. found \in O!Kept \X O!Kept
  BY <1>1 DEF O!Call
<1>3. /\ c \in O!Call /\ c.mode = oCall[p].mode /\ c.reads = oCall[p].reads /\ c.pin = oCall[p].pin
      /\ c.dir = oCall[p].dir /\ c.got = oCall[p].got /\ c.read = oCall[p].read
      /\ c.alone <=> oCall[p].alone
      /\ c.seen = oManifest[d] /\ c.found = found
  <2> HIDE DEF found
  <2> QED BY <1>1, <1>2 DEF O!Call
<1>4. /\ oPc[p] = "look" /\ oPc' = [oPc EXCEPT ![p] = "verify"]
      /\ UNCHANGED <<oPlan, oRemote, oFile, oManifest>>
  BY DEF O!Look, O!Goto
<1>5. oCall' = [oCall EXCEPT ![p] = c]
  BY DEF O!Look, O!Dir, O!IInv, O!TypeOK, O!Call
<1> HIDE DEF c
<1>6. oCall'[p] = c /\ oPc'[p] = "verify"
  BY <1>4, <1>5 DEF O!IInv, O!TypeOK
<1>7. O!AloneFindsThePair(p)' /\ O!StagedIsRetained(p)'
  BY <1>3, <1>4, <1>6 DEF O!AloneFindsThePair, O!StagedIsRetained, O!Dir
<1>8. O!RetainedIsWhole' /\ oFile' \in [Years -> O!Kept]
  BY <1>4 DEF O!IInv, O!RetainedIsWhole, O!TypeOK, O!Dirs
<1> QED BY <1>3, <1>4, <1>5, <1>7, <1>8, SnapshotOnTheWay

\* Comparing the file with it.
LEMMA SnapshotVerifies ==
    ASSUME O!SnapshotCacheAssumption, O!IInv, NEW p \in Proc, O!Verify(p)
    PROVE  O!IInv'
<1> DEFINE m == oCall[p].seen
           c == [oCall[p] EXCEPT !.seen = None]
<1>1. oPc[p] = "verify" /\ UNCHANGED <<oPlan, oRemote, oFile, oManifest>>
  BY DEF O!Verify
<1>2. \/ O!Raise(p)
      \/ m # None /\ m = oFile[O!Dir(p)] /\ O!Pinned(m, O!PinOf(p)) /\ O!HasPrepared(p, m)
      \/ O!Goto(p, "rejected") /\ UNCHANGED oCall
      \/ O!Goto(p, "fetch") /\ oCall' = [oCall EXCEPT ![p].seen = None]
  BY Zenon DEF O!Verify
<1>3. oCall[p] \in O!Call /\ O!CallIsSound(p) /\ oCall \in [Proc -> O!Call]
  BY DEF O!IInv, O!TypeOK
<1>4. O!RetainedIsWhole' /\ oFile' \in [Years -> O!Kept] /\ oManifest' \in [Years -> O!Kept]
  BY <1>1 DEF O!IInv, O!RetainedIsWhole, O!TypeOK, O!Dirs
<1>5. CASE O!Raise(p)
  BY <1>1, <1>5, SnapshotEnds DEF O!Raise, O!Goto
<1>6. CASE m # None /\ m = oFile[O!Dir(p)] /\ O!Pinned(m, O!PinOf(p)) /\ O!HasPrepared(p, m)
  <2>1. m \in O!Body
    BY <1>3, <1>6 DEF O!Call, O!Kept
  <2>2. oCall[p].alone => oFile[O!Dir(p)] = m /\ oManifest'[O!Dir(p)] = m
    BY <1>1, <1>3, <1>6 DEF O!CallIsSound, O!AloneFindsThePair
  <2> QED BY <1>1, <1>4, <1>6, <2>1, <2>2, SnapshotHasPrepared
<1>7. CASE O!Goto(p, "rejected") /\ UNCHANGED oCall
  <2> DEFINE same == oCall[p]
  <2>1. oCall'[p] = same /\ oPc'[p] = "rejected"
    BY <1>3, <1>7 DEF O!Goto, O!IInv, O!TypeOK
  <2>2. O!AloneFindsThePair(p)' /\ O!StagedIsRetained(p)'
    BY <1>1, <1>3, <2>1 DEF O!CallIsSound, O!AloneFindsThePair, O!StagedIsRetained, O!Dir
  <2>3. oCall' = [oCall EXCEPT ![p] = same] /\ oPc' = [oPc EXCEPT ![p] = "rejected"]
    BY <1>3, <1>7 DEF O!Goto
  <2>4. /\ same \in O!Call /\ same.mode = oCall[p].mode /\ same.reads = oCall[p].reads
        /\ same.pin = oCall[p].pin /\ same.dir = oCall[p].dir /\ same.got = oCall[p].got
        /\ same.read = oCall[p].read /\ (same.alone <=> oCall[p].alone)
    BY <1>3
  <2> HIDE DEF same
  <2> QED BY <1>1, <1>4, <2>2, <2>3, <2>4, SnapshotOnTheWay
<1>8. CASE O!Goto(p, "fetch") /\ oCall' = [oCall EXCEPT ![p].seen = None]
  <2>1. /\ c \in O!Call /\ c.mode = oCall[p].mode /\ c.reads = oCall[p].reads /\ c.pin = oCall[p].pin
        /\ c.dir = oCall[p].dir /\ c.got = oCall[p].got /\ c.read = oCall[p].read
        /\ c.alone <=> oCall[p].alone
        /\ c.found = oCall[p].found
    BY <1>3 DEF O!Call, O!Kept
  <2>2. oCall' = [oCall EXCEPT ![p] = c]
    BY <1>8
  <2> HIDE DEF c
  <2>3. oCall'[p] = c /\ oPc'[p] = "fetch"
    BY <1>3, <1>8, <2>2 DEF O!Goto, O!IInv, O!TypeOK
  <2>4. O!AloneFindsThePair(p)' /\ O!StagedIsRetained(p)'
    BY <1>1, <1>3, <2>1, <2>3 DEF O!CallIsSound, O!AloneFindsThePair, O!StagedIsRetained, O!Dir
  <2> QED BY <1>1, <1>4, <1>8, <2>1, <2>2, <2>4, SnapshotOnTheWay DEF O!Goto
<1> QED BY <1>2, <1>5, <1>6, <1>7, <1>8

\* What is downloaded is staged if the plan retains it.
LEMMA SnapshotDownloads ==
    ASSUME O!SnapshotCacheAssumption, O!IInv, NEW p \in Proc, O!Download(p)
    PROVE  O!IInv'
<1>1. oPc[p] = "fetch" /\ UNCHANGED <<oPlan, oRemote, oFile, oManifest>>
  BY DEF O!Download
<1>2. PICK fault \in O!Fault :
        \/ /\ O!Retains([version |-> oRemote[O!Dir(p)], fault |-> fault], O!PinOf(p))
           /\ O!Goto(p, "replace")
           /\ oCall' = [oCall EXCEPT ![p].staged = [version |-> oRemote[O!Dir(p)], fault |-> fault]]
        \/ O!Goto(p, "rejected") /\ UNCHANGED oCall
  BY Zenon DEF O!Download, O!Fault
<1> DEFINE body == [version |-> oRemote[O!Dir(p)], fault |-> fault]
           c == [oCall[p] EXCEPT !.staged = body]
<1>3. oCall[p] \in O!Call /\ O!CallIsSound(p) /\ oCall \in [Proc -> O!Call]
  BY DEF O!IInv, O!TypeOK
<1>4. O!RetainedIsWhole' /\ oFile' \in [Years -> O!Kept]
  BY <1>1 DEF O!IInv, O!RetainedIsWhole, O!TypeOK, O!Dirs
<1>5. CASE O!Goto(p, "rejected") /\ UNCHANGED oCall
  <2> DEFINE same == oCall[p]
  <2>1. oCall'[p] = same /\ oPc'[p] = "rejected"
    BY <1>3, <1>5 DEF O!Goto, O!IInv, O!TypeOK
  <2>2. O!AloneFindsThePair(p)' /\ O!StagedIsRetained(p)'
    BY <1>1, <1>3, <2>1 DEF O!CallIsSound, O!AloneFindsThePair, O!StagedIsRetained, O!Dir
  <2>3. oCall' = [oCall EXCEPT ![p] = same] /\ oPc' = [oPc EXCEPT ![p] = "rejected"]
    BY <1>3, <1>5 DEF O!Goto
  <2>4. /\ same \in O!Call /\ same.mode = oCall[p].mode /\ same.reads = oCall[p].reads
        /\ same.pin = oCall[p].pin /\ same.dir = oCall[p].dir /\ same.got = oCall[p].got
        /\ same.read = oCall[p].read /\ (same.alone <=> oCall[p].alone)
    BY <1>3
  <2> HIDE DEF same
  <2> QED BY <1>1, <1>4, <2>2, <2>3, <2>4, SnapshotOnTheWay
<1>6. CASE /\ O!Retains(body, O!PinOf(p)) /\ O!Goto(p, "replace")
           /\ oCall' = [oCall EXCEPT ![p].staged = body]
  <2>1. body \in O!Body
    BY <1>3 DEF O!IInv, O!TypeOK, O!Body, O!Call, O!Dir
  <2>2. /\ c \in O!Call /\ c.mode = oCall[p].mode /\ c.reads = oCall[p].reads /\ c.pin = oCall[p].pin
        /\ c.dir = oCall[p].dir /\ c.got = oCall[p].got /\ c.read = oCall[p].read
        /\ c.alone <=> oCall[p].alone
        /\ c.found = oCall[p].found /\ c.staged = body
    <3> HIDE DEF body
    <3> QED BY <1>3, <2>1 DEF O!Call, O!Kept
  <2>3. oCall' = [oCall EXCEPT ![p] = c]
    BY <1>6
  <2>4. O!Retains(body, O!PinOf(p))
    BY <1>6
  <2> HIDE DEF c, body
  <2>5. oCall'[p] = c /\ oPc'[p] = "replace"
    BY <1>3, <1>6, <2>3 DEF O!Goto, O!IInv, O!TypeOK
  <2>6. O!AloneFindsThePair(p)'
    BY <1>1, <1>3, <2>2, <2>5 DEF O!CallIsSound, O!AloneFindsThePair, O!Dir
  <2>7. O!StagedIsRetained(p)'
    BY <1>1, <2>1, <2>2, <2>4, <2>5
       DEF O!StagedIsRetained, O!PinOf, O!Dir, O!Retains, O!NOAARetains, O!CHIRPSRetains,
           O!IBTrACSRetains, O!PagesRetained
  <2> QED BY <1>1, <1>4, <1>6, <2>2, <2>3, <2>6, <2>7, SnapshotOnTheWay DEF O!Goto
<1> QED BY <1>2, <1>5, <1>6

\* The staged body was checked when it replaces the file.
LEMMA SnapshotReplaces ==
    ASSUME O!SnapshotCacheAssumption, O!IInv, NEW p \in Proc, O!Replace(p)
    PROVE  O!IInv'
<1>1. /\ oPc[p] = "replace" /\ UNCHANGED <<oPlan, oRemote, oManifest>>
      /\ oFile' = [oFile EXCEPT ![O!Dir(p)] = oCall[p].staged] /\ oPc' = [oPc EXCEPT ![p] = "record"]
  BY DEF O!Replace, O!Goto
<1>2. oCall[p] \in O!Call /\ O!CallIsSound(p) /\ oCall \in [Proc -> O!Call] /\ oFile \in [Years -> O!Kept]
  BY DEF O!IInv, O!TypeOK
<1>3. oCall[p].staged \in O!Body /\ O!Retains(oCall[p].staged, O!PinOf(p)) /\ O!Dir(p) \in Years
  BY <1>1, <1>2 DEF O!CallIsSound, O!StagedIsRetained, O!Call, O!Dir
<1>4. /\ oFile' \in [Years -> O!Kept] /\ oFile'[O!Dir(p)] = oCall[p].staged
      /\ \A d \in Years \ {O!Dir(p)} : oFile'[d] = oFile[d]
  BY <1>1, <1>2, <1>3 DEF O!Kept
<1>0. PICK same \in O!Call : same = oCall[p]
  BY <1>2
<1>5. oCall'[p] = same /\ oPc'[p] = "record" /\ oCall' = [oCall EXCEPT ![p] = same]
  BY <1>0, <1>1, <1>2 DEF O!Replace, O!IInv, O!TypeOK
<1>6. O!RetainedIsWhole'
  <2>1. \/ oCall[p].staged.fault = "none"
        \/ oPlan \in {"CHIRPS", "IBTrACS"} /\ oCall[p].staged.fault = "cut unseen"
        \/ oPlan = "CHIRPS" /\ oCall[p].staged.fault = "malformed"
    BY <1>3 DEF O!Retains, O!NOAARetains, O!CHIRPSRetains, O!IBTrACSRetains, O!PagesRetained, O!Body, O!Fault
  <2>2. O!Dirs' = O!Dirs /\ O!Dirs \subseteq Years
    BY <1>1, SnapshotDirsAreNumbered DEF O!Dirs
  <2> QED BY <1>1, <1>4, <2>1, <2>2 DEF O!IInv, O!RetainedIsWhole
<1>7. O!AloneFindsThePair(p)'
  BY <1>0, <1>4, <1>5 DEF O!AloneFindsThePair, O!Dir
<1>8. O!StagedIsRetained(p)'
  BY <1>0, <1>1, <1>3, <1>5
     DEF O!StagedIsRetained, O!PinOf, O!Dir, O!Retains, O!NOAARetains, O!CHIRPSRetains,
         O!IBTrACSRetains, O!PagesRetained
<1>9. /\ same \in O!Call /\ same.mode = oCall[p].mode /\ same.reads = oCall[p].reads
      /\ same.pin = oCall[p].pin /\ same.dir = oCall[p].dir /\ same.got = oCall[p].got
      /\ same.read = oCall[p].read /\ (same.alone <=> oCall[p].alone)
  BY <1>0
<1> QED BY <1>1, <1>4, <1>5, <1>6, <1>7, <1>8, <1>9, SnapshotOnTheWay

\* The manifest is of the same body, unless another call has replaced the file.
LEMMA SnapshotRecords ==
    ASSUME O!SnapshotCacheAssumption, O!IInv, NEW p \in Proc, O!Record(p)
    PROVE  O!IInv'
<1> DEFINE m == oCall[p].staged
<1>1. /\ oPc[p] = "record" /\ UNCHANGED <<oPlan, oRemote, oFile>>
      /\ oManifest' = [oManifest EXCEPT ![O!Dir(p)] = m] /\ O!HasPrepared(p, m)
  BY DEF O!Record
<1>2. oCall[p] \in O!Call /\ O!CallIsSound(p) /\ oManifest \in [Years -> O!Kept]
  BY DEF O!IInv, O!TypeOK
<1>3. m \in O!Body /\ O!Retains(m, O!PinOf(p)) /\ O!Dir(p) \in Years
  BY <1>1, <1>2 DEF O!CallIsSound, O!StagedIsRetained, O!Call, O!Dir
<1>4. O!Pinned(m, O!PinOf(p))
  BY <1>3 DEF O!Retains, O!NOAARetains, O!CHIRPSRetains, O!IBTrACSRetains, O!PagesRetained
<1>5. /\ oManifest' \in [Years -> O!Kept] /\ oManifest'[O!Dir(p)] = m
      /\ \A d \in Years \ {O!Dir(p)} : oManifest'[d] = oManifest[d]
  BY <1>1, <1>2, <1>3 DEF O!Kept
<1>6. oCall[p].alone => oFile[O!Dir(p)] = m
  BY <1>1, <1>2 DEF O!CallIsSound, O!AloneFindsThePair
<1> QED BY <1>1, <1>3, <1>4, <1>5, <1>6, SnapshotHasPrepared

\* What the reader finds is a body, or nothing.
LEMMA SnapshotFoundIsKept ==
    ASSUME O!SnapshotCacheAssumption, O!IInv, NEW p \in Proc
    PROVE  O!Found(p) \in O!Kept /\ O!Noted(p) \in Seq(Years \X O!Kept)
<1>1. oCall[p] \in O!Call /\ oRemote[1] \in O!Version /\ \A d \in Years : oFile[d] \in O!Kept
  BY SnapshotDirsAreNumbered DEF O!IInv, O!TypeOK
<1>2. O!Found(p) \in O!Kept
  BY <1>1 DEF O!Found, O!Kept, O!Body, O!Fault, O!Dir, O!Call
<1>3. <<O!Dir(p), O!Found(p)>> \in Years \X O!Kept /\ oCall[p].read \in Seq(Years \X O!Kept)
  BY <1>1, <1>2 DEF O!Call, O!Dir
<1>4. O!Noted(p) = Append(oCall[p].read, <<O!Dir(p), O!Found(p)>>) \/ O!Noted(p) = <<>>
  BY DEF O!Noted
<1>5. Append(oCall[p].read, <<O!Dir(p), O!Found(p)>>) \in Seq(Years \X O!Kept)
  <2> DEFINE last == <<O!Dir(p), O!Found(p)>>
  <2> HIDE DEF last
  <2> QED BY <1>3
<1>6. <<>> \in Seq(Years \X O!Kept)
  OBVIOUS
<1>7. O!Noted(p) \in Seq(Years \X O!Kept)
  BY Zenon, <1>4, <1>5, <1>6
<1> QED BY <1>2, <1>7

\* A call that is alone finds what it verified.
LEMMA SnapshotAloneReadsOn ==
    ASSUME O!SnapshotCacheAssumption, O!IInv, NEW p \in Proc, oPc[p] \in {"prepared", "opened"},
           oCall[p].alone, oCall[p].mode # "stream", NEW i \in DOMAIN O!Noted(p)
    PROVE  /\ O!Noted(p)[i][2] # None /\ O!Noted(p)[i][2] = oCall[p].got[O!Noted(p)[i][1]]
           /\ O!Pinned(O!Noted(p)[i][2], oCall[p].pin[O!Noted(p)[i][1]])
<1> DEFINE last == <<O!Dir(p), O!Found(p)>>
<1>1. O!CallIsSound(p) /\ oCall[p] \in O!Call /\ O!Dir(p) \in Years
  BY DEF O!IInv, O!TypeOK, O!Call, O!Dir
<1>2. oCall[p].read \in Seq(Years \X O!Kept) /\ last \in Years \X O!Kept
  BY <1>1, SnapshotFoundIsKept DEF O!Call
<1>3. O!Noted(p) = Append(oCall[p].read, last)
  BY DEF O!Noted
<1>4. /\ last[1] = O!Dir(p) /\ last[2] # None /\ last[2] = oCall[p].got[O!Dir(p)]
      /\ O!Pinned(last[2], oCall[p].pin[O!Dir(p)])
  <2>1. /\ oCall[p].got[O!Dir(p)] # None /\ O!Pinned(oCall[p].got[O!Dir(p)], oCall[p].pin[O!Dir(p)])
        /\ oFile[O!Dir(p)] = oCall[p].got[O!Dir(p)]
    BY <1>1, SnapshotDirsAreNumbered DEF O!CallIsSound, O!AlonePrepares, O!Passed, O!Running
  <2>2. O!Found(p) = oFile[O!Dir(p)]
    BY DEF O!Found
  <2> QED BY <2>1, <2>2
<1> HIDE DEF last
<1>5. CASE i \in DOMAIN oCall[p].read
  <2>1. O!Noted(p)[i] = oCall[p].read[i]
    BY <1>2, <1>3, <1>5
  <2>2. /\ oCall[p].read[i][2] # None /\ oCall[p].read[i][2] = oCall[p].got[oCall[p].read[i][1]]
        /\ O!Pinned(oCall[p].read[i][2], oCall[p].pin[oCall[p].read[i][1]])
    BY <1>1, <1>5 DEF O!CallIsSound, O!AloneReads
  <2> QED BY <2>1, <2>2
<1>6. CASE i \notin DOMAIN oCall[p].read
  <2>1. O!Noted(p)[i] = last
    BY <1>2, <1>3, <1>6
  <2> QED BY <1>4, <2>1
<1> QED BY <1>5, <1>6

\* Reading: a file is opened again, or the call goes on to the next directory.
LEMMA SnapshotReadsOn ==
    ASSUME O!SnapshotCacheAssumption, O!IInv, NEW p \in Proc, oPc[p] \in {"prepared", "opened"},
           UNCHANGED <<oPlan, oRemote, oFile, oManifest>>,
           O!HasRead(p) \/ (oPlan # "CHIRPS" /\ O!OpenAgain(p))
    PROVE  O!IInv'
<1>1. oCall[p] \in O!Call /\ O!CallIsSound(p) /\ oCall \in [Proc -> O!Call] /\ O!Dir(p) \in O!Dirs
  BY DEF O!IInv, O!TypeOK, O!CallIsSound, O!CallIsOfThePlan, O!Dir
<1> DEFINE goes == O!HasRead(p) /\ O!Dir(p) < O!Last
           n == IF goes THEN O!Dir(p) + 1 ELSE O!Dir(p)
           l == IF O!HasRead(p) THEN IF O!Dir(p) < O!Last THEN "look" ELSE "done" ELSE "opened"
           c == [oCall[p] EXCEPT !.read = O!Noted(p), !.dir = n]
<1>2. oCall' = [oCall EXCEPT ![p] = c]
  BY <1>1 DEF O!HasRead, O!OpenAgain, O!Call, O!Dir
<1>3. oPc' = [oPc EXCEPT ![p] = l]
  BY DEF O!HasRead, O!OpenAgain, O!Goto
<1>4. n \in O!Dirs /\ n \in Years
  BY <1>1, SnapshotDirsAreNumbered
<1>5. /\ c \in O!Call /\ c.mode = oCall[p].mode /\ c.pin = oCall[p].pin
      /\ c.got = oCall[p].got /\ c.read = O!Noted(p) /\ c.dir = n
      /\ c.alone <=> oCall[p].alone
  <2> HIDE DEF n
  <2> QED BY <1>1, <1>4, SnapshotFoundIsKept DEF O!Call
<1>6. /\ l \in {"look", "done", "opened"}
      /\ l = "done" => n = O!Last
      /\ oCall[p].mode = "stream" => l = "done"
  BY <1>1, SnapshotDirsAreNumbered DEF O!CallIsSound, O!CallIsOfThePlan
<1>7. ASSUME NEW d \in Years
      PROVE  (IF l \in {"prepared", "opened", "done"} THEN d <= n ELSE d < n) <=> d <= O!Dir(p)
  BY <1>1, <1>7, SnapshotDirsAreNumbered
<1> HIDE DEF c, l, n, goes
<1>8. /\ oCall'[p] = c /\ oPc'[p] = l
      /\ \A q \in Proc \ {p} : oPc'[q] = oPc[q] /\ oCall'[q] = oCall[q]
  BY <1>2, <1>3 DEF O!IInv, O!TypeOK
<1>9. O!TypeOK' /\ O!RetainedIsWhole'
  BY <1>1, <1>2, <1>3, <1>5, <1>6 DEF O!IInv, O!TypeOK, O!RetainedIsWhole, O!Dirs
<1>10. O!CallIsOfThePlan(p)'
  BY <1>1, <1>4, <1>5, <1>6, <1>8 DEF O!CallIsSound, O!CallIsOfThePlan, O!Dirs, O!Last
<1>11. O!AloneIsAlone(p)'
  BY <1>1, <1>5, <1>6, <1>8 DEF O!CallIsSound, O!AloneIsAlone, O!Running
<1>12. O!AlonePrepares(p)'
  <2>1. ASSUME oCall[p].alone, oCall[p].mode # "stream", NEW d \in Years
        PROVE  /\ c.got[d] # None <=> d <= O!Dir(p)
               /\ c.got[d] # None =>
                  /\ O!Pinned(c.got[d], c.pin[d])
                  /\ oFile[d] = c.got[d] /\ oManifest[d] = c.got[d]
    BY <1>1, <1>5, <2>1 DEF O!CallIsSound, O!AlonePrepares, O!Passed, O!Running
  <2>2. ASSUME NEW d \in Years PROVE O!Passed(p, d)' <=> d <= O!Dir(p)
    BY <1>5, <1>7, <1>8 DEF O!Passed, O!Dir
  <2> QED BY <1>5, <1>8, <2>1, <2>2 DEF O!AlonePrepares, O!Pinned
<1>13. O!AloneReads(p)'
  <2>1. oCall[p].alone /\ oCall[p].mode # "stream" => \A i \in DOMAIN c.read :
            /\ c.read[i][2] # None /\ c.read[i][2] = c.got[c.read[i][1]]
            /\ O!Pinned(c.read[i][2], c.pin[c.read[i][1]])
    BY <1>5, SnapshotAloneReadsOn
  <2> QED BY <1>5, <1>8, <2>1 DEF O!AloneReads, O!Pinned
<1>14. O!StagedIsRetained(p)' /\ O!AloneFindsThePair(p)'
  BY <1>6, <1>8 DEF O!StagedIsRetained, O!AloneFindsThePair
<1> QED BY <1>8, <1>9, <1>10, <1>11, <1>12, <1>13, <1>14, OneSnapshotStep DEF O!CallIsSound, O!Running

\* The steps of a call that is under way.
LEMMA SnapshotSteps ==
    ASSUME O!SnapshotCacheAssumption, O!IInv, NEW p \in Proc, O!Step(p)
    PROVE  O!IInv'
<1>1. CASE O!Read(p)
  <2>1. /\ oPc[p] \in {"prepared", "opened"} /\ UNCHANGED <<oPlan, oRemote, oFile, oManifest>>
        /\ O!HasRead(p) \/ O!Raise(p) \/ (oPlan # "CHIRPS" /\ O!OpenAgain(p))
    BY <1>1 DEF O!Read, O!ReadProjections, O!ReadRaster, O!ReadObservations, O!ReadYear, O!ReadHeader, O!ReadRows
  <2>2. CASE O!Raise(p)
    BY <2>1, <2>2, SnapshotEnds DEF O!Raise, O!Goto
  <2> QED BY <2>1, <2>2, SnapshotReadsOn
<1>2. CASE O!Fails(p)
  BY <1>2, SnapshotEnds DEF O!Fails, O!Raise, O!Goto
<1> QED BY <1>1, <1>2, SnapshotLooks, SnapshotVerifies, SnapshotDownloads, SnapshotReplaces, SnapshotRecords DEF O!Step

\* A call stays sound while nothing of it, of the others and of the files changes.
LEMMA SnapshotSoundStays ==
    ASSUME UNCHANGED <<oPlan, oFile, oManifest, oPc, oCall>>, NEW p \in Proc, O!CallIsSound(p)
    PROVE  O!CallIsSound(p)'
<1>1. O!CallIsOfThePlan(p)' /\ O!StagedIsRetained(p)'
  BY DEF O!CallIsSound, O!CallIsOfThePlan, O!StagedIsRetained, O!Dirs, O!Last, O!Retains,
         O!NOAARetains, O!CHIRPSRetains, O!IBTrACSRetains, O!PagesRetained, O!PinOf, O!Dir
<1>2. O!AloneIsAlone(p)' /\ O!AloneFindsThePair(p)'
  BY DEF O!CallIsSound, O!AloneIsAlone, O!AloneFindsThePair, O!Dir
<1>3. O!AlonePrepares(p)' /\ O!AloneReads(p)'
  BY DEF O!CallIsSound, O!AlonePrepares, O!AloneReads, O!Passed, O!Pinned, O!Dir
<1> QED BY <1>1, <1>2, <1>3 DEF O!CallIsSound

\* The remote object changes, and nothing else.
LEMMA SnapshotRemoteChanges ==
    ASSUME O!SnapshotCacheAssumption, O!IInv, NEW d \in O!Dirs, O!RemoteChange(d)
    PROVE  O!IInv'
<1>1. UNCHANGED <<oPlan, oFile, oManifest, oPc, oCall>> /\ d \in Years
  BY SnapshotDirsAreNumbered DEF O!RemoteChange
<1>2. oRemote' \in [Years -> O!Version]
  BY <1>1 DEF O!RemoteChange, O!IInv, O!TypeOK, O!Version, O!SnapshotCacheAssumption
<1>3. O!TypeOK' /\ O!RetainedIsWhole'
  BY <1>1, <1>2 DEF O!IInv, O!TypeOK, O!RetainedIsWhole, O!Dirs
<1> QED BY <1>1, <1>3, SnapshotSoundStays DEF O!IInv

LEMMA SnapshotsWait == O!IInv /\ UNCHANGED O!vars => O!IInv'
<1> SUFFICES ASSUME O!IInv, UNCHANGED O!vars PROVE O!IInv'
  OBVIOUS
<1>1. O!TypeOK' /\ O!RetainedIsWhole'
  BY DEF O!IInv, O!vars, O!TypeOK, O!RetainedIsWhole, O!Dirs
<1> QED BY <1>1, SnapshotSoundStays DEF O!IInv, O!vars

\* The invariant holds in every state, whatever calls overlap and are killed.
LEMMA SnapshotsInvariance == O!Spec => []O!IInv
<1>0. O!SnapshotCacheAssumption
  BY Assumptions
<1>1. O!Init => O!IInv
  BY <1>0, SnapshotsInit
<1>2. O!IInv /\ [O!Next]_(O!vars) => O!IInv'
  <2> SUFFICES ASSUME O!IInv, O!Next PROVE O!IInv'
    BY SnapshotsWait
  <2>1. ASSUME NEW p \in Proc, O!Return(p) \/ O!Crash(p) PROVE O!IInv'
    BY <1>0, <2>1, SnapshotEnds DEF O!Return, O!Crash, O!Reset, O!Goto
  <2> QED BY <1>0, <2>1, SnapshotStarts, SnapshotSteps, SnapshotRemoteChanges DEF O!Next
<1> QED BY <1>1, <1>2, PTL DEF O!Spec

\* What is retained was received whole, as far as the plan looks; a call without
\* another one around reads what it verified and what was pinned, in every file
\* it opens; it can be repeated offline when it succeeds; and a download that is
\* rejected leaves the pair as it was (_noaa.py, ibtracs.py, chirps.py, _geomet.py).
LEMMA SnapshotsStayHonest == O!Spec => []SnapshotsAreHonest
<1>1. ASSUME O!IInv PROVE O!ReadsWhatItVerified
  BY <1>1 DEF O!IInv, O!CallIsSound, O!AloneReads, O!ReadsWhatItVerified
<1>2. ASSUME O!IInv PROVE O!SucceededAloneIsReproducible
  <2> SUFFICES ASSUME NEW p \in Proc, oPc[p] = "done", oCall[p].alone,
                      oCall[p].mode # "stream", NEW d \in O!Dirs
               PROVE  /\ oCall[p].got[d] # None
                      /\ oFile[d] = oCall[p].got[d] /\ oManifest[d] = oCall[p].got[d]
    BY DEF O!SucceededAloneIsReproducible
  <2>1. d \in Years /\ d <= O!Last
    BY Assumptions, SnapshotDirsAreNumbered
  <2> QED BY <1>2, <2>1 DEF O!IInv, O!CallIsSound, O!CallIsOfThePlan, O!AlonePrepares, O!Passed, O!Dir
<1>3. ASSUME O!IInv PROVE O!RejectionKeepsCache
  BY <1>3 DEF O!IInv, O!CallIsSound, O!AloneFindsThePair, O!RejectionKeepsCache
<1>4. O!IInv => O!TypeOK /\ O!RetainedIsWhole
  BY DEF O!IInv
<1>5. O!IInv => SnapshotsAreHonest
  BY <1>1, <1>2, <1>3, <1>4 DEF SnapshotsAreHonest
<1> QED BY <1>5, SnapshotsInvariance, PTL

-----------------------------------------------------------------------------
(***************************************************************************)
(* The caches together.                                                    *)
(***************************************************************************)

\* A behaviour of the sum is a behaviour of each of its components.
LEMMA SumIsOfComponents == SharedSpec => Spec /\ Y!Spec /\ S!Spec /\ O!Spec /\ C!Spec
<1>1. SharedInit => Init /\ Y!Init /\ S!Init /\ O!Init /\ C!Init
  BY DEF SharedInit
<1>2. ASSUME [SharedNext]_<<topic, vars, years, stations, objects, catalogues>>
      PROVE  /\ [Next]_vars /\ [Y!Next]_(Y!vars) /\ [S!Next]_(S!vars) /\ [O!Next]_(O!vars)
             /\ [C!Next]_(C!vars)
  <2>1. UNCHANGED years => UNCHANGED Y!vars
    BY DEF years, Y!vars, Y!shared
  <2>2. UNCHANGED stations => UNCHANGED S!vars
    BY DEF stations, S!vars
  <2>3. UNCHANGED objects => UNCHANGED O!vars
    BY DEF objects, O!vars
  <2>4. UNCHANGED catalogues => UNCHANGED C!vars
    BY DEF catalogues, C!vars
  <2>5. QED
    BY <1>2, <2>1, <2>2, <2>3, <2>4 DEF SharedNext
<1>3. QED
  BY <1>1, <1>2, PTL DEF SharedSpec, Spec, Y!Spec, S!Spec, O!Spec, C!Spec

\* Whatever processes do with one cache directory: a call of the ERA5 plan that
\* succeeded alone can be repeated offline (era5.py:284-368).
THEOREM SharedYearsAreReproducible == SharedSpec => []YearsAreReproducible
<1>1. Y!Spec => []Y!YearsAreReproducible
  BY Assumptions, Y!AloneIsReproducible
<1>2. QED
  BY <1>1, SumIsOfComponents, PTL DEF YearsAreReproducible

\* A station entry that verifies is of the file it names, although processes
\* replace each other's files (stations.py:383-471).
THEOREM SharedEntriesStayHonest == SharedSpec => []StationEntriesAreHonest
<1>1. S!Spec => []S!StationEntriesAreHonest
  BY Assumptions, S!EntriesStayHonest
<1>2. QED
  BY <1>1, SumIsOfComponents, PTL DEF StationEntriesAreHonest

\* The single-object plans: what is retained is whole, and a call that is alone
\* reads what it verified, can be repeated offline, and loses nothing when its
\* download is rejected (_noaa.py:36-69, ibtracs.py:111-241, _geomet.py:189-207).
THEOREM SharedSnapshotsAreHonest == SharedSpec => []SnapshotsAreHonest
BY SumIsOfComponents, SnapshotsStayHonest, PTL

\* The stations a plan selects are those of the catalogue its result names, and a
\* call alone leaves the pair of file and entry whole, whatever calls that died
\* have left there before it (stations.py:119-222).
THEOREM SharedSelectionsAreOfTheirCatalogue == SharedSpec => []SelectionsAreOfTheirCatalogue
BY SumIsOfComponents, SelectionsStayOfTheirCatalogue, PTL DEF SelectionsAreOfTheirCatalogue
=============================================================================
