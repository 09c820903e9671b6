-------------------------- MODULE YearCache_proofs --------------------------
(***************************************************************************)
(* Safety of the ERA5 year cache, for any processes, years, releases and   *)
(* pool: a call that succeeds has every year it selected, no thread        *)
(* outlives its call, and a call that had the directory to itself can be   *)
(* repeated offline; and, of a process that always has it to itself, an    *)
(* entry that verifies names a whole year.                                 *)
(***************************************************************************)
EXTENDS YearCache, TLAPS

\* Of the candidates that verify, one is the newest.
LEMMA NewestIsOne ==
    ASSUME YearCacheAssumption, NEW y \in Year, NEW c \in Call \cup {NoCall},
           NEW entries \in [Year -> Entry \cup {NoEntry}],
           NEW S \in SUBSET Candidates(entries, y, c.request), S # {}
    PROVE  Newest(S) \in S
<1>1. S \subseteq {entries[y], Legacy} /\ \A e \in S : e \in Entry
    BY DEF Candidates, Legacy, Entry, Contents, Release, YearCacheAssumption
<1>2. \A e \in S : e.version \in Int
    BY <1>1 DEF Entry, Release, YearCacheAssumption
<1>3. \E e \in S : \A f \in S : f.version <= e.version
    <2>1. PICK e \in S : TRUE
        OBVIOUS
    <2>2. CASE \A f \in S : f.version <= e.version
        BY <2>2
    <2>3. CASE \E f \in S : ~(f.version <= e.version)
        <3>1. PICK f \in S : ~(f.version <= e.version)
            BY <2>3
        <3>2. S \subseteq {e, f}
            BY <1>1, <1>2, <2>1, <3>1
        <3>3. e.version <= f.version /\ f.version <= f.version
            BY <1>2, <2>1, <3>1
        <3> QED BY <3>1, <3>2, <3>3
    <2> QED BY <2>2, <2>3
<1> QED BY <1>3 DEF Newest

\* What a call finds is a candidate that verifies, of a year it asked for.
LEMMA FoundEntries ==
    ASSUME YearCacheAssumption, NEW c \in Call \cup {NoCall},
           NEW entries \in [Year -> Entry \cup {NoEntry}], NEW y \in Year,
           CachedEntries(entries, c)[y] # NoEntry
    PROVE  LET e == CachedEntries(entries, c)[y] IN
           /\ y \in c.years /\ e \in Candidates(entries, y, c.request)
           /\ e \in Entry /\ Valid(e, y) /\ c.request \in {Latest, e.version}
<1> DEFINE e == CachedEntries(entries, c)[y]
           valid == {x \in Candidates(entries, y, c.request) : Valid(x, y)}
<1>1. e = IF y \in c.years /\ valid # {} THEN Newest(valid) ELSE NoEntry
    BY DEF CachedEntries
<1>2. y \in c.years /\ valid # {} /\ e = Newest(valid)
    BY <1>1
<1>3. e \in valid
    BY <1>2, NewestIsOne
<1>4. \A x \in Candidates(entries, y, c.request) : x \in Entry /\ c.request \in {Latest, x.version}
    BY DEF Candidates, Legacy, Entry, Contents, Release, YearCacheAssumption
<1> HIDE DEF e
<1>5. e \in Candidates(entries, y, c.request) /\ Valid(e, y)
    BY <1>3
<1> QED BY <1>2, <1>4, <1>5 DEF e

\* While a process is active, no other call is alone.
LEMMA OnlyOneIsAlone ==
    ASSUME IInv, NEW p \in Proc, Active(p)
    PROVE  \A q \in Proc \ {p} : ~alone[q]
  BY DEF IInv, AloneIsAlone

-----------------------------------------------------------------------------
(***************************************************************************)
(* The inductive invariant.                                                *)
(***************************************************************************)

\* It holds of an empty cache directory.
LEMMA InitIInv == YearCacheAssumption /\ Init => IInv
<1> SUFFICES ASSUME YearCacheAssumption, Init PROVE IInv
    OBVIOUS
<1>1. TypeOK
    BY DEF YearCacheAssumption, Init, TypeOK, NoYears, FetchState, Settled, Contents, Release
<1>2. PoolIsJoined /\ CachedIsAsked /\ MissingIsFetched /\ RenamedIsThere
    BY DEF Init, RenamedIsThere, PoolIsJoined, CachedIsAsked, MissingIsFetched, NoYears, Settled
<1>3. AloneIsAlone /\ AloneFetchesWhole /\ AloneFindsEntries
    BY DEF Init, AloneIsAlone, AloneFetchesWhole, AloneFindsEntries
<1> QED BY <1>1, <1>2, <1>3 DEF IInv

\* A call starts in the state an idle process is in, and is alone if no other
\* call is under way.
LEMMA StartIInv ==
    ASSUME YearCacheAssumption, IInv, NEW p \in Proc, Start(p)
    PROVE  IInv'
<1> USE DEF IInv, TypeOK
<1>1. /\ pc[p] = "idle" /\ pc'[p] \in {"resolve", "verify"}
      /\ pc'[p] = "verify" => snap'[p] = entry
      /\ \A q \in Proc \ {p} : pc'[q] = pc[q] /\ call'[q] = call[q]
      /\ alone' = [q \in Proc |-> IF q = p THEN \A r \in Proc \ {p} : ~Active(r) ELSE FALSE]
      /\ UNCHANGED <<release, object, temp, entry, cached, version, fetch, sum>>
    BY DEF Start, shared
<1>2. TypeOK'
    BY <1>1 DEF Start, NoYears
<1>3. \A y \in Year : fetch[p][y] = "none" /\ cached[p][y] = NoEntry
    BY <1>1 DEF PoolIsJoined, CachedIsAsked
<1>4. PoolIsJoined' /\ CachedIsAsked'
    <2>1. PoolIsJoined'
        BY <1>1, <1>3 DEF PoolIsJoined, Settled
    <2>2. CachedIsAsked'
        BY <1>1, <1>3 DEF CachedIsAsked
    <2> QED BY <2>1, <2>2
<1>5. MissingIsFetched'
    BY <1>1 DEF MissingIsFetched, Missing
<1>6. AloneIsAlone'
    BY <1>1 DEF AloneIsAlone, Active
<1>7. AloneFetchesWhole'
    BY <1>1, <1>3 DEF AloneFetchesWhole
<1>8. AloneFindsEntries'
    BY <1>1, <1>3 DEF AloneFindsEntries
<1>9. RenamedIsThere'
    BY <1>1 DEF RenamedIsThere
<1> QED BY <1>2, <1>4, <1>5, <1>6, <1>7, <1>8, <1>9

\* What is found verifies.
LEMMA VerifyIInv ==
    ASSUME YearCacheAssumption, IInv, NEW p \in Proc, Verify(p)
    PROVE  IInv'
<1> USE DEF IInv, TypeOK
<1> DEFINE found == CachedEntries(snap[p], call[p])
<1>1. /\ pc[p] = "verify" /\ pc'[p] \in {"done", "failed", "resolve"}
      /\ pc'[p] = "done" => \A y \in call[p].years : cached'[p][y] # NoEntry
      /\ cached' = [cached EXCEPT ![p] = found]
      /\ snap' = [snap EXCEPT ![p] = NoYears]
      /\ \A q \in Proc \ {p} : pc'[q] = pc[q] /\ cached'[q] = cached[q]
      /\ UNCHANGED <<release, object, temp, entry, call, version, fetch, sum, alone>>
    BY DEF Verify, shared
<1>2. \A y \in Year : found[y] # NoEntry =>
        /\ y \in call[p].years /\ found[y] \in Candidates(snap[p], y, call[p].request)
        /\ found[y] \in Entry /\ Valid(found[y], y)
        /\ call[p].request \in {Latest, found[y].version}
    BY FoundEntries
<1>3. found \in [Year -> Entry \cup {NoEntry}]
    <2>1. found = [y \in Year |-> found[y]]
        BY DEF CachedEntries
    <2> HIDE DEF found
    <2> QED BY <1>2, <2>1
<1> HIDE DEF found
<1>4. cached'[p] = found
    BY <1>1
<1>5. TypeOK'
    BY <1>1, <1>3 DEF NoYears, Verify
<1>6. \A q \in Proc \ {p} : ~alone'[q]
    BY <1>1, OnlyOneIsAlone DEF Active
<1>7. \A y \in Year : fetch[p][y] = "none"
    BY <1>1 DEF PoolIsJoined
<1>8. PoolIsJoined' /\ CachedIsAsked'
    BY <1>1, <1>2, <1>4, <1>7 DEF PoolIsJoined, CachedIsAsked, Settled
<1>9. MissingIsFetched'
    BY <1>1, <1>7 DEF MissingIsFetched, Missing
<1>10. AloneIsAlone' /\ AloneFetchesWhole'
    BY <1>1, <1>6 DEF AloneIsAlone, AloneFetchesWhole, Active
<1>11. AloneFindsEntries'
    BY <1>1, <1>2, <1>4, <1>6, <1>7 DEF AloneFindsEntries, Candidates, Valid, ContentsOf, Fetched
<1>12. RenamedIsThere'
    BY <1>1 DEF RenamedIsThere
<1> QED BY <1>5, <1>8, <1>9, <1>10, <1>11, <1>12

\* The years that were not found are to do, under the release that was resolved.
LEMMA ResolveIInv ==
    ASSUME YearCacheAssumption, IInv, NEW p \in Proc, Resolve(p)
    PROVE  IInv'
<1> USE DEF IInv, TypeOK
<1>1. /\ pc[p] = "resolve" /\ pc' = [pc EXCEPT ![p] = "fetch"]
      /\ call[p].request \in {Latest, release}
      /\ version' = [version EXCEPT ![p] = release]
      /\ fetch' = [fetch EXCEPT ![p] = [y \in Year |-> IF y \in Missing(p) THEN "todo" ELSE "none"]]
      /\ UNCHANGED <<release, object, temp, entry, call, snap, cached, sum, alone>>
    BY DEF Resolve, shared
<1>2. TypeOK'
    BY <1>1 DEF FetchState, Settled, Release, YearCacheAssumption
<1>3. \A q \in Proc \ {p} : ~alone'[q]
    BY <1>1, OnlyOneIsAlone DEF Active
<1>4. PoolIsJoined'
    BY <1>1 DEF PoolIsJoined
<1>5. CachedIsAsked'
    BY <1>1 DEF CachedIsAsked
<1>6. MissingIsFetched'
    BY <1>1 DEF MissingIsFetched, Missing
<1>7. AloneIsAlone'
    BY <1>1, <1>3 DEF AloneIsAlone, Active
<1>8. AloneFetchesWhole'
    BY <1>1, <1>3 DEF AloneFetchesWhole
<1>9. AloneFindsEntries'
    BY <1>1, <1>3 DEF AloneFindsEntries, Candidates, Valid, ContentsOf
<1>10. RenamedIsThere'
    BY <1>1 DEF RenamedIsThere
<1> QED BY <1>2, <1>4, <1>5, <1>6, <1>7, <1>8, <1>9, <1>10

\* A call that fails changes nothing.
LEMMA FailIInv ==
    ASSUME YearCacheAssumption, IInv, NEW p \in Proc, ResolveFails(p) \/ Raise(p)
    PROVE  IInv'
<1> USE DEF IInv, TypeOK
<1>1. /\ pc[p] \in {"resolve", "fetch"} /\ pc' = [pc EXCEPT ![p] = "failed"]
      /\ \A y \in Year : fetch[p][y] \in Settled
      /\ UNCHANGED <<release, object, temp, entry, call, snap, cached, version, fetch, sum, alone>>
    BY DEF ResolveFails, Raise, shared, AllSettled, PoolIsJoined
<1>2. TypeOK'
    BY <1>1
<1>3. \A q \in Proc \ {p} : ~alone'[q]
    BY <1>1, OnlyOneIsAlone DEF Active
<1>4. PoolIsJoined'
    BY <1>1 DEF PoolIsJoined
<1>5. CachedIsAsked' /\ MissingIsFetched'
    BY <1>1 DEF CachedIsAsked, MissingIsFetched, Missing
<1>6. AloneIsAlone'
    BY <1>1, <1>3 DEF AloneIsAlone, Active
<1>7. AloneFetchesWhole'
    BY <1>1 DEF AloneFetchesWhole
<1>8. AloneFindsEntries'
    BY <1>1, <1>3 DEF AloneFindsEntries, Candidates, Valid, ContentsOf
<1>9. RenamedIsThere'
    BY <1>1 DEF RenamedIsThere
<1> QED BY <1>2, <1>4, <1>5, <1>6, <1>7, <1>8, <1>9

\* The years no thread has started are cancelled.
LEMMA CancelIInv ==
    ASSUME YearCacheAssumption, IInv, NEW p \in Proc, Cancel(p)
    PROVE  IInv'
<1> USE DEF IInv, TypeOK
<1>1. /\ pc[p] = "fetch"
      /\ fetch' = [fetch EXCEPT ![p] = [y \in Year |-> IF @[y] = "todo" THEN "cancelled" ELSE @[y]]]
      /\ UNCHANGED <<release, object, temp, entry, pc, call, snap, cached, version, sum, alone>>
    BY DEF Cancel, shared
<1>2. TypeOK'
    BY <1>1 DEF FetchState, Settled
<1>3. \A q \in Proc : \A y \in Year :
        fetch'[q][y] = fetch[q][y] \/ (q = p /\ fetch[q][y] = "todo" /\ fetch'[q][y] = "cancelled")
    BY <1>1
<1>4. PoolIsJoined' /\ CachedIsAsked' /\ MissingIsFetched'
    BY <1>1, <1>3 DEF PoolIsJoined, CachedIsAsked, MissingIsFetched, Missing
<1>5. AloneIsAlone'
    BY <1>1 DEF AloneIsAlone, Active
<1>6. AloneFetchesWhole'
    BY <1>1, <1>3 DEF AloneFetchesWhole
<1>7. AloneFindsEntries'
    BY <1>1, <1>3 DEF AloneFindsEntries, Candidates, Valid, ContentsOf, Fetched, Result
<1>8. RenamedIsThere'
    BY <1>1, <1>3 DEF RenamedIsThere
<1> QED BY <1>2, <1>4, <1>5, <1>6, <1>7, <1>8

\* What a call found and fetched is what it records.
LEMMA MergeIInv ==
    ASSUME YearCacheAssumption, IInv, NEW p \in Proc, Merge(p)
    PROVE  IInv'
<1> USE DEF IInv, TypeOK
<1>1. /\ pc[p] = "fetch" /\ pc' = [pc EXCEPT ![p] = "done"]
      /\ \A y \in Year : fetch[p][y] \in {"none", "ok"}
      /\ entry' = [y \in Year |-> IF Result(p)[y] # NoEntry THEN Result(p)[y] ELSE entry[y]]
      /\ UNCHANGED <<release, object, temp, call, snap, cached, version, fetch, sum, alone>>
    BY DEF Merge
<1>2. \A y \in Year : /\ Result(p)[y] = IF Fetched(p, y)
                            THEN [version |-> version[p], local |-> "own", sum |-> sum[p][y]]
                            ELSE cached[p][y]
                      /\ Result(p)[y] \in Entry \cup {NoEntry}
                      /\ Fetched(p, y) => Result(p)[y] # NoEntry
    BY DEF Result, Entry, Contents, Release, YearCacheAssumption
<1>3. TypeOK'
    BY <1>1, <1>2
<1>4. \A q \in Proc \ {p} : ~alone'[q]
    BY <1>1, OnlyOneIsAlone DEF Active
<1>5. PoolIsJoined' /\ CachedIsAsked' /\ MissingIsFetched'
    BY <1>1 DEF PoolIsJoined, CachedIsAsked, MissingIsFetched, Missing, Settled
<1>6. AloneIsAlone' /\ AloneFetchesWhole'
    BY <1>1, <1>4 DEF AloneIsAlone, AloneFetchesWhole, Active
<1>7. AloneFindsEntries'
    <2>1. ASSUME alone[p], NEW y \in Year, cached[p][y] # NoEntry
          PROVE  cached[p][y] \in Candidates(entry', y, call[p].request) /\ Valid(cached[p][y], y)'
        <3>1. cached[p][y] \in Candidates(entry, y, call[p].request) /\ Valid(cached[p][y], y)
            BY <2>1 DEF AloneFindsEntries
        <3>2. fetch[p][y] = "none"
            BY <1>1, <2>1 DEF MissingIsFetched, Missing
        <3>3. entry'[y] = cached[p][y]
            BY <1>1, <1>2, <2>1, <3>2 DEF Fetched
        <3> QED BY <1>1, <3>1, <3>3 DEF Candidates, Valid, ContentsOf
    <2>2. \A y \in Year : Fetched(p, y)' => entry'[y] = Result(p)'[y]
        BY <1>1, <1>2 DEF Result, Fetched
    <2>3. pc'[p] # "verify" /\ alone' = alone /\ cached' = cached /\ call' = call
        BY <1>1
    <2> QED BY <1>4, <2>1, <2>2, <2>3 DEF AloneFindsEntries
<1>8. RenamedIsThere'
    BY <1>1 DEF RenamedIsThere
<1> QED BY <1>3, <1>5, <1>6, <1>7, <1>8

\* A call that returned, raised or was killed leaves nothing in memory.
LEMMA ResetIInv ==
    ASSUME YearCacheAssumption, IInv, NEW p \in Proc, Reset(p)
    PROVE  IInv'
<1> USE DEF IInv, TypeOK
<1>1. /\ pc' = [pc EXCEPT ![p] = "idle"] /\ call' = [call EXCEPT ![p] = NoCall]
      /\ snap' = [snap EXCEPT ![p] = NoYears] /\ cached' = [cached EXCEPT ![p] = NoYears]
      /\ version' = [version EXCEPT ![p] = 0]
      /\ fetch' = [fetch EXCEPT ![p] = [y \in Year |-> "none"]]
      /\ sum' = [sum EXCEPT ![p] = [y \in Year |-> Torn]]
      /\ alone' = [alone EXCEPT ![p] = FALSE]
      /\ UNCHANGED <<release, object, temp, entry>>
    BY DEF Reset, shared
<1>2. TypeOK'
    BY <1>1 DEF NoYears, FetchState, Settled, Contents, Release, YearCacheAssumption
<1>3. PoolIsJoined'
    BY <1>1 DEF PoolIsJoined, Settled
<1>4. CachedIsAsked'
    BY <1>1 DEF CachedIsAsked, NoYears
<1>5. MissingIsFetched'
    BY <1>1 DEF MissingIsFetched, Missing
<1>6. AloneIsAlone'
    BY <1>1 DEF AloneIsAlone, Active
<1>7. AloneFetchesWhole'
    BY <1>1 DEF AloneFetchesWhole
<1>8. AloneFindsEntries'
    BY <1>1 DEF AloneFindsEntries, Candidates, Valid, ContentsOf, Fetched, Result
<1>9. RenamedIsThere'
    BY <1>1 DEF RenamedIsThere
<1> QED BY <1>2, <1>3, <1>4, <1>5, <1>6, <1>7, <1>8, <1>9

-----------------------------------------------------------------------------
(***************************************************************************)
(* The worker threads.                                                     *)
(***************************************************************************)

\* A thread only moves fetches that are to do or in flight, of calls in the pool,
\* and none of them back to the start.
LEMMA ThreadMoves ==
    ASSUME YearCacheAssumption, IInv, NEW p \in Proc, NEW y \in Year, Thread(p, y)
    PROVE  /\ fetch' \in [Proc -> [Year -> FetchState]]
           /\ \A q \in Proc, z \in Year :
                \/ fetch'[q][z] = fetch[q][z]
                \/ z = y /\ fetch[q][z] \notin Settled /\ fetch'[q][z] # "none"
           /\ fetch[p][y] \notin Settled /\ pc[p] = "fetch"
           /\ UNCHANGED <<release, entry, pc, call, snap, cached, version, alone>>
<1> USE DEF IInv, TypeOK, FetchState, InFlight, Settled
<1>1. CASE FetchStart(p, y)
    BY <1>1 DEF FetchStart, SetFetch, PoolIsJoined, shared
<1>2. CASE FetchFails(p, y) \/ ReplaceFails(p, y)
    <2>1. fetch[p][y] \in InFlight /\ fetch' = [fetch EXCEPT ![p][y] = "error"]
        BY <1>2 DEF FetchFails, ReplaceFails, SetFetch, Open
    <2>2. UNCHANGED <<release, entry, pc, call, snap, cached, version, alone>>
        BY <1>2 DEF FetchFails, ReplaceFails, shared
    <2> QED BY <2>1, <2>2 DEF PoolIsJoined
<1>3. CASE OpenTemp(p, y) \/ OpenRefused(p, y)
    <2>1. PICK s \in {"openT", "mixT", "error"} : Truncated(p, y, s)
        BY <1>3 DEF OpenTemp, OpenRefused
    <2>2. fetch[p][y] = "reading" /\ \A q \in Others(p, y) : fetch[q][y] \in {"openT", "mixT"}
        BY <1>3 DEF OpenTemp, OpenRefused, Others, OnTemp
    <2>3. UNCHANGED <<release, entry, pc, call, snap, cached, version, alone>>
        BY <1>3 DEF OpenTemp, OpenRefused
    <2> QED BY <2>1, <2>2, <2>3 DEF Truncated, PoolIsJoined
<1>4. CASE CloseTemp(p, y)
    BY <1>4 DEF CloseTemp, SetFetch, Open, PoolIsJoined
<1>5. CASE ReplaceTemp(p, y)
    <2>1. /\ fetch[p][y] = "closed"
          /\ fetch' = [q \in Proc |->
                [fetch[q] EXCEPT ![y] = IF q = p THEN "replaced" ELSE Relinked(@)]]
          /\ UNCHANGED <<release, entry, pc, call, snap, cached, version, alone>>
        BY <1>5 DEF ReplaceTemp
    <2>2. \A f \in FetchState : \/ Relinked(f) = f
                                \/ f \notin Settled /\ Relinked(f) \in {"openO", "mixO", "openG", "mixG"}
        BY DEF Relinked
    <2>3. pc[p] = "fetch" /\ fetch[p][y] \notin Settled /\ "replaced" \in FetchState
        BY <2>1 DEF PoolIsJoined
    <2>4. {"openO", "mixO", "openG", "mixG"} \subseteq FetchState
        OBVIOUS
    <2> HIDE DEF FetchState, InFlight, Settled
    <2>5. \A q \in Proc : \A z \in Year : fetch[q][z] \in FetchState
        OBVIOUS
    <2>6. \A q \in Proc : \A z \in Year :
            fetch'[q][z] = IF z # y THEN fetch[q][z]
                           ELSE IF q = p THEN "replaced" ELSE Relinked(fetch[q][y])
        BY <2>1
    <2>7. ASSUME NEW q \in Proc, NEW z \in Year
          PROVE  /\ fetch'[q][z] \in FetchState
                 /\ \/ fetch'[q][z] = fetch[q][z]
                    \/ z = y /\ fetch[q][z] \notin Settled /\ fetch'[q][z] # "none"
        <3>1. CASE z # y BY <2>5, <2>6, <3>1
        <3>2. CASE z = y /\ q = p BY <2>3, <2>6, <3>2
        <3>3. CASE z = y /\ q # p
            <4>1. fetch'[q][z] = Relinked(fetch[q][y]) /\ fetch[q][y] \in FetchState
                BY <2>5, <2>6, <3>3
            <4>2. CASE Relinked(fetch[q][y]) = fetch[q][y]
                BY <3>3, <4>1, <4>2
            <4>3. CASE /\ fetch[q][y] \notin Settled
                       /\ Relinked(fetch[q][y]) \in {"openO", "mixO", "openG", "mixG"}
                <5>1. Relinked(fetch[q][y]) # "none"
                    BY <4>3
                <5> QED BY <2>4, <3>3, <4>1, <4>3, <5>1
            <4> QED BY <2>2, <4>1, <4>2, <4>3
        <3> QED BY <3>1, <3>2, <3>3
    <2>8. fetch' \in [Proc -> [Year -> FetchState]]
        BY <2>1, <2>7
    <2> QED BY <2>1, <2>3, <2>7, <2>8
<1>6. CASE Checksum(p, y)
    BY <1>6 DEF Checksum, SetFetch, PoolIsJoined, shared
<1> QED BY <1>1, <1>2, <1>3, <1>4, <1>5, <1>6 DEF Thread

\* The files keep their types.
LEMMA ThreadTypes ==
    ASSUME YearCacheAssumption, IInv, NEW p \in Proc, NEW y \in Year, Thread(p, y)
    PROVE  /\ object' \in [Year -> Contents \cup {Absent}]
           /\ temp' \in [Year -> Contents \cup {Absent}]
           /\ sum' \in [Proc -> [Year -> Contents]]
           /\ \A z \in Year : object[z] # Absent => object'[z] # Absent
<1> USE DEF IInv, TypeOK
<1>1. CASE FetchStart(p, y) \/ FetchFails(p, y) \/ ReplaceFails(p, y)
    BY <1>1 DEF FetchStart, FetchFails, ReplaceFails, shared
<1>2. CASE OpenTemp(p, y) \/ OpenRefused(p, y)
    BY <1>2 DEF OpenTemp, OpenRefused, Truncated, Contents
<1>3. CASE CloseTemp(p, y)
    BY <1>3 DEF CloseTemp, Contents, Release, YearCacheAssumption
<1>4. CASE ReplaceTemp(p, y)
    BY <1>4 DEF ReplaceTemp
<1>5. CASE Checksum(p, y)
    <2>1. fetch[p][y] = "replaced" /\ sum' = [sum EXCEPT ![p][y] = object[y]]
          /\ UNCHANGED <<object, temp>>
        BY <1>5 DEF Checksum, shared
    <2>2. object[y] \in Contents
        BY <2>1 DEF RenamedIsThere
    <2> QED BY <2>1, <2>2
<1> QED BY <1>1, <1>2, <1>3, <1>4, <1>5 DEF Thread

\* What a thread renamed into place is there, whoever renames after it.
LEMMA ThreadRenames ==
    ASSUME YearCacheAssumption, IInv, NEW p \in Proc, NEW y \in Year, Thread(p, y)
    PROVE  RenamedIsThere'
<1> USE DEF IInv, TypeOK
<1>1. CASE ReplaceTemp(p, y)
    <2>1. /\ temp[y] # Absent /\ object' = [object EXCEPT ![y] = temp[y]]
          /\ \A q \in Proc : \A z \in Year \ {y} : fetch'[q][z] = fetch[q][z]
        BY <1>1 DEF ReplaceTemp
    <2> QED BY <2>1 DEF RenamedIsThere
<1>2. CASE ~ReplaceTemp(p, y)
    <2>1. ASSUME NEW q \in Proc, NEW z \in Year, fetch'[q][z] = "replaced"
          PROVE  fetch[q][z] = "replaced"
        <3>1. CASE FetchStart(p, y) \/ FetchFails(p, y) \/ ReplaceFails(p, y)
            <4>1. PICK s \in {"reading", "error"} : fetch' = [fetch EXCEPT ![p][y] = s]
                BY <3>1 DEF FetchStart, FetchFails, ReplaceFails, SetFetch
            <4> QED BY <2>1, <4>1
        <3>2. CASE OpenTemp(p, y) \/ OpenRefused(p, y)
            <4>1. PICK s \in {"openT", "mixT", "error"} : Truncated(p, y, s)
                BY <3>2 DEF OpenTemp, OpenRefused
            <4> QED BY <2>1, <4>1 DEF Truncated
        <3>3. CASE CloseTemp(p, y) \/ Checksum(p, y)
            <4>1. PICK s \in {"closed", "ok"} : fetch' = [fetch EXCEPT ![p][y] = s]
                BY <3>3 DEF CloseTemp, Checksum, SetFetch
            <4> QED BY <2>1, <4>1
        <3> QED BY <1>2, <3>1, <3>2, <3>3 DEF Thread
    <2> QED BY <2>1, ThreadTypes DEF RenamedIsThere
<1> QED BY <1>1, <1>2

\* A thread of a call that is alone writes the year it fetches, whole, and
\* nothing else.
LEMMA ThreadOfAlone ==
    ASSUME YearCacheAssumption, IInv, NEW p \in Proc, NEW y \in Year, Thread(p, y)
    PROVE  /\ \A z \in Year \ {y} : /\ object'[z] = object[z] /\ temp'[z] = temp[z]
                                    /\ fetch'[p][z] = fetch[p][z] /\ sum'[p][z] = sum[p][z]
           /\ alone[p] =>
                /\ fetch'[p][y] \notin {"openO", "openG", "mixT", "mixO", "mixG"}
                /\ fetch'[p][y] = "closed" => temp'[y] = version[p]
                /\ fetch'[p][y] \in {"replaced", "ok"} => object'[y] = version[p]
                /\ fetch'[p][y] = "ok" => sum'[p][y] = version[p]
<1> USE DEF IInv, TypeOK
<1>1. alone[p] => Others(p, y) = {}
    <2> SUFFICES ASSUME alone[p], NEW q \in Proc \ {p} PROVE ~OnTemp(fetch[q][y])
        BY DEF Others
    <2>1. pc[q] # "fetch"
        BY DEF AloneIsAlone, Active
    <2> QED BY <2>1 DEF PoolIsJoined, Settled, OnTemp
<1>2. CASE FetchStart(p, y) \/ FetchFails(p, y) \/ ReplaceFails(p, y)
    BY <1>2 DEF FetchStart, FetchFails, ReplaceFails, SetFetch, shared
<1>3. CASE OpenTemp(p, y) \/ OpenRefused(p, y)
    <2>1. PICK s \in {"openT", "mixT", "error"} :
            Truncated(p, y, s) /\ (s = "mixT" => Others(p, y) # {})
        BY <1>3 DEF OpenTemp, OpenRefused
    <2>2. UNCHANGED <<object, sum>>
        BY <1>3 DEF OpenTemp, OpenRefused
    <2>3. fetch'[p] = [fetch[p] EXCEPT ![y] = s] /\ temp' = [temp EXCEPT ![y] = Torn]
        BY <2>1 DEF Truncated
    <2> QED BY <1>1, <2>1, <2>2, <2>3
<1>4. CASE CloseTemp(p, y)
    <2>1. PICK c \in {version[p]} \cup
                (IF fetch[p][y] \in {"mixT", "mixO", "mixG"} THEN {Torn} ELSE {}) :
            /\ temp' = [temp EXCEPT ![y] = IF OnTemp(fetch[p][y]) THEN c ELSE @]
            /\ object' = [object EXCEPT ![y] = IF fetch[p][y] \in {"openO", "mixO"} THEN c ELSE @]
        BY <1>4 DEF CloseTemp
    <2>2. fetch' = [fetch EXCEPT ![p][y] = "closed"] /\ sum' = sum /\ Open(fetch[p][y])
        BY <1>4 DEF CloseTemp, SetFetch
    <2>3. alone[p] => fetch[p][y] = "openT" /\ c = version[p]
        BY <2>1, <2>2 DEF AloneFetchesWhole, Open
    <2> QED BY <2>1, <2>2, <2>3 DEF OnTemp
<1>5. CASE ReplaceTemp(p, y)
    <2>1. /\ fetch[p][y] = "closed" /\ object' = [object EXCEPT ![y] = temp[y]]
          /\ temp' = [temp EXCEPT ![y] = Absent] /\ sum' = sum
          /\ fetch'[p] = [fetch[p] EXCEPT ![y] = "replaced"]
        BY <1>5 DEF ReplaceTemp
    <2> QED BY <2>1 DEF AloneFetchesWhole
<1>6. CASE Checksum(p, y)
    BY <1>6 DEF Checksum, SetFetch, shared, AloneFetchesWhole
<1> QED BY <1>2, <1>3, <1>4, <1>5, <1>6 DEF Thread

\* A thread preserves the invariant.
LEMMA ThreadIInv ==
    ASSUME YearCacheAssumption, IInv, NEW p \in Proc, NEW y \in Year, Thread(p, y)
    PROVE  IInv'
<1> USE DEF IInv
<1>1. /\ fetch' \in [Proc -> [Year -> FetchState]]
      /\ \A q \in Proc, z \in Year :
            \/ fetch'[q][z] = fetch[q][z]
            \/ z = y /\ fetch[q][z] \notin Settled /\ fetch'[q][z] # "none"
      /\ fetch[p][y] \notin Settled /\ pc[p] = "fetch"
      /\ UNCHANGED <<release, entry, pc, call, snap, cached, version, alone>>
    BY ThreadMoves
<1>2. TypeOK'
    BY <1>1, ThreadTypes DEF TypeOK
<1>3. \A q \in Proc \ {p} : ~alone'[q]
    BY <1>1, OnlyOneIsAlone DEF Active
<1>4. PoolIsJoined'
    BY <1>1 DEF PoolIsJoined, Settled
<1>5. CachedIsAsked'
    BY <1>1 DEF CachedIsAsked
<1>6. MissingIsFetched'
    BY <1>1 DEF MissingIsFetched, Missing, Settled
<1>7. AloneIsAlone'
    BY <1>1 DEF AloneIsAlone, Active
<1>8. AloneFetchesWhole'
    BY <1>1, <1>3, ThreadOfAlone DEF AloneFetchesWhole
<1>9. AloneFindsEntries'
    <2>1. \A z \in Year : cached[p][z] # NoEntry => object'[z] = object[z]
        <3> SUFFICES ASSUME NEW z \in Year, cached[p][z] # NoEntry PROVE z # y
            BY ThreadOfAlone
        <3>1. fetch[p][z] = "none"
            BY <1>1 DEF MissingIsFetched, Missing
        <3> QED BY <1>1, <3>1 DEF Settled
    <2>2. \A z \in Year : cached[p][z] # NoEntry /\ Valid(cached[p][z], z) => Valid(cached[p][z], z)'
        BY <1>1, <2>1 DEF Valid, ContentsOf
    <2> QED BY <1>1, <1>3, <2>2 DEF AloneFindsEntries, Candidates
<1>10. RenamedIsThere'
    BY <1>1, ThreadRenames DEF RenamedIsThere
<1> QED BY <1>2, <1>4, <1>5, <1>6, <1>7, <1>8, <1>9, <1>10

-----------------------------------------------------------------------------
(***************************************************************************)
(* The theorems.                                                           *)
(***************************************************************************)

\* The state that is left when only the store publishes.
LEMMA PublishIInv ==
    ASSUME YearCacheAssumption, IInv, Publish
    PROVE  IInv'
<1>1. /\ release' \in 1..MaxRelease
      /\ UNCHANGED <<object, temp, entry, pc, call, snap, cached, version, fetch, sum, alone>>
    BY DEF Publish, IInv, TypeOK, YearCacheAssumption
<1>2. TypeOK'
    BY <1>1 DEF IInv, TypeOK
<1>3. (PoolIsJoined /\ CachedIsAsked /\ MissingIsFetched /\ RenamedIsThere)'
    BY <1>1 DEF IInv, PoolIsJoined, CachedIsAsked, MissingIsFetched, Missing, RenamedIsThere
<1>4. (AloneIsAlone /\ AloneFetchesWhole)'
    BY <1>1 DEF IInv, AloneIsAlone, Active, AloneFetchesWhole
<1>5. AloneFindsEntries'
    BY <1>1 DEF IInv, AloneFindsEntries, Candidates, Valid, ContentsOf, Fetched, Result
<1> QED BY <1>2, <1>3, <1>4, <1>5 DEF IInv

\* Nothing happens.
LEMMA StutterIInv ==
    ASSUME IInv, UNCHANGED vars
    PROVE  IInv'
<1> USE DEF vars
<1>1. TypeOK'
    BY DEF IInv, TypeOK
<1>2. (PoolIsJoined /\ CachedIsAsked /\ MissingIsFetched /\ RenamedIsThere)'
    BY DEF IInv, PoolIsJoined, CachedIsAsked, MissingIsFetched, Missing, RenamedIsThere
<1>3. (AloneIsAlone /\ AloneFetchesWhole)'
    BY DEF IInv, AloneIsAlone, Active, AloneFetchesWhole
<1>4. AloneFindsEntries'
    BY DEF IInv, AloneFindsEntries, Candidates, Valid, ContentsOf, Fetched, Result
<1> QED BY <1>1, <1>2, <1>3, <1>4 DEF IInv

\* Every step preserves the invariant.
LEMMA StepIInv == YearCacheAssumption /\ IInv /\ [Next]_vars => IInv'
<1> SUFFICES ASSUME YearCacheAssumption, IInv, [Next]_vars PROVE IInv'
    OBVIOUS
<1>1. CASE \E p \in Proc : Start(p) BY <1>1, StartIInv
<1>2. CASE \E p \in Proc : Verify(p) BY <1>2, VerifyIInv
<1>3. CASE \E p \in Proc : Resolve(p) BY <1>3, ResolveIInv
<1>4. CASE \E p \in Proc : ResolveFails(p) \/ Raise(p) BY <1>4, FailIInv
<1>5. CASE \E p \in Proc : Cancel(p) BY <1>5, CancelIInv
<1>6. CASE \E p \in Proc : Merge(p) BY <1>6, MergeIInv
<1>7. CASE \E p \in Proc : Reset(p) BY <1>7, ResetIInv
<1>8. CASE \E p \in Proc, y \in Year : Thread(p, y) BY <1>8, ThreadIInv
<1>9. CASE Publish BY <1>9, PublishIInv
<1>10. CASE UNCHANGED vars BY <1>10, StutterIInv
<1> QED BY <1>1, <1>2, <1>3, <1>4, <1>5, <1>6, <1>7, <1>8, <1>9, <1>10
        DEF Next, Main, Return, Crash

\* The inductive invariant holds in every reachable state.
THEOREM Invariance == YearCacheAssumption => (Spec => []IInv)
<1> SUFFICES ASSUME YearCacheAssumption PROVE Spec => []IInv
    OBVIOUS
<1>1. Init => IInv BY InitIInv
<1>2. IInv /\ [Next]_vars => IInv' BY StepIInv
<1> QED BY <1>1, <1>2, PTL DEF Spec

\* A call that succeeds with the directory to itself can be repeated offline,
\* whatever crashed calls, torn files and other processes' years were left there.
THEOREM AloneIsReproducible == YearCacheAssumption => (Spec => []YearsAreReproducible)
<1> SUFFICES ASSUME YearCacheAssumption PROVE Spec => []YearsAreReproducible
    OBVIOUS
<1>1. ASSUME IInv PROVE YearsAreReproducible
    <2> SUFFICES ASSUME NEW p \in Proc, pc[p] = "done", alone[p], NEW y \in call[p].years
                 PROVE  \E e \in Candidates(entry, y, call[p].request) : Valid(e, y)
        BY DEF YearsAreReproducible, Usable
    <2> USE <1>1 DEF IInv
    <2>1. y \in Year
        <3>1. call[p] \in Call \cup {NoCall}
            BY DEF TypeOK
        <3>2. call[p].years \subseteq Year
            BY <3>1 DEF Call, NoCall
        <3> QED BY <3>2
    <2>2. CASE cached[p][y] # NoEntry
        BY <2>1, <2>2 DEF AloneFindsEntries
    <2>3. CASE cached[p][y] = NoEntry
        <3>1. Fetched(p, y) /\ call[p].request \in {Latest, version[p]}
            BY <2>1, <2>3 DEF MissingIsFetched, Missing, Fetched
        <3>2. entry[y] = [version |-> version[p], local |-> "own", sum |-> sum[p][y]]
            BY <2>1, <3>1 DEF AloneFindsEntries, Result
        <3>3. entry[y] \in Entry
            BY <2>1, <3>2 DEF TypeOK, Entry
        <3>4. entry[y] # NoEntry
            BY <3>3 DEF Entry, Contents, Release, YearCacheAssumption
        <3>5. object[y] = sum[p][y]
            BY <2>1, <3>1 DEF AloneFetchesWhole, Fetched
        <3>6. Valid(entry[y], y)
            BY <3>2, <3>4, <3>5 DEF Valid, ContentsOf
        <3>7. entry[y] \in Candidates(entry, y, call[p].request)
            BY <3>1, <3>2, <3>4 DEF Candidates
        <3> QED BY <3>6, <3>7
    <2> QED BY <2>2, <2>3
<1> QED BY <1>1, Invariance, PTL

\* In a shared directory too, a call that succeeds has every year it selected, of
\* the release it asked for, and no thread outlives its call.
THEOREM ResultsAreComplete ==
    YearCacheAssumption => (Spec => [](ResultIsComplete /\ NoThreadOutlivesCall))
<1> SUFFICES ASSUME YearCacheAssumption
             PROVE  Spec => [](ResultIsComplete /\ NoThreadOutlivesCall)
    OBVIOUS
<1>1. IInv => NoThreadOutlivesCall
    BY DEF IInv, PoolIsJoined, NoThreadOutlivesCall
<1>2. ASSUME IInv PROVE ResultIsComplete
    <2> SUFFICES ASSUME NEW p \in Proc, pc[p] = "done", NEW y \in Year
                 PROVE  IF y \in call[p].years
                        THEN /\ Result(p)[y] # NoEntry
                             /\ call[p].request \in {Latest, Result(p)[y].version}
                        ELSE Result(p)[y] = NoEntry
        BY DEF ResultIsComplete
    <2> USE <1>2 DEF IInv
    <2>1. CASE Fetched(p, y)
        <3>1. y \in call[p].years /\ call[p].request \in {Latest, version[p]}
            BY <2>1 DEF MissingIsFetched, Missing, Fetched
        <3>2. Result(p)[y] = [version |-> version[p], local |-> "own", sum |-> sum[p][y]]
            BY <2>1 DEF Result
        <3>3. Result(p)[y] \in Entry
            BY <3>2 DEF TypeOK, Entry
        <3>4. Result(p)[y] # NoEntry
            BY <3>3 DEF Entry, Contents, Release, YearCacheAssumption
        <3> QED BY <3>1, <3>2, <3>4
    <2>2. CASE ~Fetched(p, y)
        <3>1. Result(p)[y] = cached[p][y]
            BY <2>2 DEF Result
        <3>2. y \notin Missing(p)
            BY <2>2 DEF MissingIsFetched, Fetched
        <3> QED BY <3>1, <3>2 DEF CachedIsAsked, Missing
    <2> QED BY <2>1, <2>2
<1> QED BY <1>1, <1>2, Invariance, PTL

-----------------------------------------------------------------------------
(***************************************************************************)
(* One process: no torn or mislabelled year ever verifies.                 *)
(***************************************************************************)

\* With one process every call is alone, so every checksum that is recorded is
\* of a whole file of the release it was fetched under.
LEMMA StepRecordedIsWhole ==
    ASSUME YearCacheAssumption, \A p, q \in Proc : p = q, IInv, RecordedIsWhole, [Next]_vars
    PROVE  RecordedIsWhole'
<1> USE DEF IInv, TypeOK, RecordedIsWhole
<1>1. ASSUME NEW p \in Proc, Start(p) PROVE RecordedIsWhole'
    <2>1. alone'[p] /\ snap'[p] \in {NoYears, entry} /\ UNCHANGED <<entry, cached>>
        BY <1>1 DEF Start, shared
    <2> QED BY <1>1, <2>1 DEF Start, NoYears
<1>2. ASSUME NEW p \in Proc, Verify(p) PROVE RecordedIsWhole'
    <2>1. /\ cached'[p] = CachedEntries(snap[p], call[p]) /\ snap'[p] = NoYears
          /\ pc[p] = "verify" /\ UNCHANGED <<entry, alone>>
        BY <1>2 DEF Verify, shared
    <2>2. \A y \in Year : cached'[p][y] # NoEntry =>
            cached'[p][y] \in Candidates(snap[p], y, call[p].request)
        BY <2>1, FoundEntries
    <2>3. \A y \in Year : cached'[p][y] # NoEntry => cached'[p][y].sum = cached'[p][y].version
        BY <2>2 DEF Candidates, Legacy
    <2> QED BY <2>1, <2>3 DEF NoYears
<1>3. ASSUME NEW p \in Proc, Resolve(p) \/ ResolveFails(p) \/ Cancel(p) \/ Raise(p)
      PROVE  RecordedIsWhole'
    <2>1. pc[p] # "idle" /\ UNCHANGED <<entry, snap, cached, alone>>
        BY <1>3 DEF Resolve, ResolveFails, Cancel, Raise, shared
    <2> QED BY <2>1
<1>4. ASSUME NEW p \in Proc, Merge(p) PROVE RecordedIsWhole'
    <2>1. /\ entry' = [y \in Year |-> IF Result(p)[y] # NoEntry THEN Result(p)[y] ELSE entry[y]]
          /\ pc[p] = "fetch" /\ UNCHANGED <<snap, cached, alone>>
        BY <1>4 DEF Merge
    <2>2. \A y \in Year : Result(p)[y] # NoEntry => Result(p)[y].sum = Result(p)[y].version
        <3> SUFFICES ASSUME NEW y \in Year, Result(p)[y] # NoEntry
                     PROVE  Result(p)[y].sum = Result(p)[y].version
            OBVIOUS
        <3>1. CASE Fetched(p, y)
            BY <2>1, <3>1 DEF Result, Fetched, AloneFetchesWhole
        <3>2. CASE ~Fetched(p, y)
            BY <3>2 DEF Result
        <3> QED BY <3>1, <3>2
    <2> QED BY <2>1, <2>2
<1>5. ASSUME NEW p \in Proc, Reset(p) PROVE RecordedIsWhole'
    BY <1>5 DEF Reset, shared, NoYears
<1>6. ASSUME NEW p \in Proc, NEW y \in Year, Thread(p, y) PROVE RecordedIsWhole'
    BY <1>6, ThreadMoves
<1>7. CASE Publish
    BY <1>7 DEF Publish
<1>8. CASE UNCHANGED vars
    BY <1>8 DEF vars
<1> QED BY <1>1, <1>2, <1>3, <1>4, <1>5, <1>6, <1>7, <1>8 DEF Next, Main, Return, Crash

\* In a directory of its own, whatever crashes and failures left there, an entry
\* that verifies names a whole year of the release it states; and a call that
\* succeeds is complete.
THEOREM YearsStayWhole ==
    YearCacheAssumption /\ (\A p, q \in Proc : p = q) => (Spec => []YearsAreWhole)
<1> SUFFICES ASSUME YearCacheAssumption, \A p, q \in Proc : p = q
             PROVE  Spec => []YearsAreWhole
    OBVIOUS
<1>1. Init => RecordedIsWhole
    BY DEF Init, RecordedIsWhole, NoYears
<1>2. IInv /\ RecordedIsWhole /\ [Next]_vars => RecordedIsWhole'
    BY StepRecordedIsWhole
<1>3. IInv /\ RecordedIsWhole => VerifiedIsWhole
    BY DEF RecordedIsWhole, VerifiedIsWhole, Valid, ContentsOf
<1>4. IInv => TypeOK BY DEF IInv
<1> QED BY <1>1, <1>2, <1>3, <1>4, Invariance, ResultsAreComplete, PTL DEF Spec, YearsAreWhole
=============================================================================
