--------------------------- MODULE CallsEnd_proofs ---------------------------
(***************************************************************************)
(* Safety of the calls that must end.  First, one tippecanoe pass, for any *)
(* number of batches, any pipe capacities and any timeout.  Then one call  *)
(* at a time of the year and the station cache, of which YearCache_proofs  *)
(* and StationCache_proofs prove what they promise, and the paging client, *)
(* for pages of any size and any changes of the collection.                *)
(***************************************************************************)
EXTENDS MCCallsEnd, FiniteSetTheorems, SequenceTheorems, TLAPS

\* The bounds are positive numbers.
LEMMA Bounds ==
    /\ Batches \in Nat /\ Batches > 0
    /\ PipeCapacity \in Nat /\ PipeCapacity > 0
    /\ LogCapacity \in Nat /\ LogCapacity > 0
    /\ IdleTimeout \in Nat /\ IdleTimeout > 0
BY TippecanoeProcessAssumption

\* The invariant holds when the process has been started.
LEMMA InitIInv == Init => IInv
<1> SUFFICES ASSUME Init PROVE IInv
    OBVIOUS
<1>1. TypeOK
    <2>1. tail \in BOOLEAN /\ eof \in BOOLEAN BY Zenon DEF Init
    <2> QED BY <2>1, Bounds DEF Init, TypeOK, Phase
<1>2. ~eof /\ ~tail BY Zenon DEF Init
<1> QED BY <1>1, <1>2 DEF Init, IInv, Ended, Fed, Closed

\* The steps of the build loop that do not close stdin preserve the invariant.
LEMMA FeedIInv ==
    ASSUME IInv, NextBatch \/ QueryFails \/ Write \/ WriteBreaks \/ Finish
    PROVE  IInv'
<1> USE Bounds DEF IInv, TypeOK, Phase, Ended, Fed, Closed, outside
<1>1. CASE NextBatch BY <1>1 DEF NextBatch
<1>2. CASE QueryFails BY <1>2 DEF QueryFails
<1>3. CASE Write
    <2>1. tail' \in BOOLEAN /\ ~eof /\ eof' = eof BY <1>3, Zenon DEF Write
    <2>2. written' \in 0..Batches /\ stdin' \in 0..PipeCapacity BY <1>3 DEF Write
    <2> QED BY <1>3, <2>1, <2>2 DEF Write
<1>4. CASE WriteBreaks BY <1>4 DEF WriteBreaks
<1>5. CASE Finish BY <1>5 DEF Finish
<1> QED BY <1>1, <1>2, <1>3, <1>4, <1>5

\* Closing stdin flushes the tail and leaves the pipe within its capacity; it
\* puts nothing in the pipe of a process that has exited.
LEMMA CloseStdinPost ==
    ASSUME IInv, CloseStdin
    PROVE  /\ tail' = FALSE /\ eof' = TRUE
           /\ stdin' \in 0..PipeCapacity
           /\ process = "exited" => stdin' = stdin
<1>1. tail' = FALSE /\ eof' = TRUE BY Zenon DEF CloseStdin
<1>2. CASE tail /\ process # "exited"
    <2>1. stdin < PipeCapacity /\ stdin' = stdin + 1 BY <1>2 DEF CloseStdin
    <2> QED BY <1>1, <1>2, <2>1, Bounds DEF IInv, TypeOK
<1>3. CASE ~(tail /\ process # "exited")
    <2>1. stdin' = stdin BY <1>3 DEF CloseStdin
    <2> QED BY <1>1, <2>1 DEF IInv, TypeOK
<1> QED BY <1>2, <1>3

\* Closing stdin, waiting and giving up preserve it.
LEMMA EndIInv ==
    ASSUME IInv, Close \/ Fires \/ Poll \/ PollEnds \/ Report \/ Abort
    PROVE  IInv'
<1> USE Bounds DEF IInv, TypeOK, Phase, Ended, Fed, Closed, outside
<1>1. CASE Close BY <1>1, CloseStdinPost DEF Close
<1>2. CASE Fires BY <1>2 DEF Fires, Kill
<1>3. CASE Poll BY <1>3 DEF Poll
<1>4. CASE PollEnds BY <1>4 DEF PollEnds
<1>5. CASE Report BY <1>5 DEF Report
<1>6. CASE Abort BY <1>6, CloseStdinPost DEF Abort, Kill
<1> QED BY <1>1, <1>2, <1>3, <1>4, <1>5, <1>6

\* Whatever the process, the draining thread and the clock do preserves it.
LEMMA OutsideIInv ==
    ASSUME IInv,
           Reads \/ Logs \/ Stalls \/ Exits \/ Dies \/ Drain \/ DrainEnds \/ Tick
    PROVE  IInv'
<1> USE Bounds DEF IInv, TypeOK, Phase, Ended, Fed, Closed, outside
<1>1. CASE Reads BY <1>1 DEF Reads
<1>2. CASE Logs BY <1>2 DEF Logs
<1>3. CASE Stalls BY <1>3 DEF Stalls
<1>4. CASE Exits BY <1>4 DEF Exits
<1>5. CASE Dies BY <1>5 DEF Dies
<1>6. CASE Drain BY <1>6 DEF Drain
<1>7. CASE DrainEnds BY <1>7 DEF DrainEnds
<1>8. CASE Tick BY <1>8 DEF Tick
<1> QED BY <1>1, <1>2, <1>3, <1>4, <1>5, <1>6, <1>7, <1>8

\* The invariant holds in every state of a pass.
THEOREM Invariance == Spec => []IInv
<1>1. IInv /\ [Next]_vars => IInv'
    <2> SUFFICES ASSUME IInv, [Next]_vars PROVE IInv'
        OBVIOUS
    <2>1. CASE Next
        BY <2>1, FeedIInv, EndIInv, OutsideIInv DEF Next, Loop
    <2>2. CASE UNCHANGED vars
        BY <2>2 DEF vars, IInv, TypeOK, Phase, Ended, Fed, Closed
    <2> QED BY <2>1, <2>2
<1> QED BY InitIInv, <1>1, PTL DEF Spec

\* The with statement never leaves a process behind, whatever is raised where.
THEOREM NoProcessLeft == Spec => []NoOrphan
<1>1. IInv => NoOrphan BY DEF IInv, NoOrphan
<1> QED BY Invariance, <1>1, PTL

\* A pass that succeeds has written every batch into a process that read it all
\* and exited with 0, also when the process dies while stdin is flushed.
THEOREM SuccessIsComplete == Spec => []DoneIsComplete
<1>1. IInv => DoneIsComplete
    BY DEF IInv, DoneIsComplete, Fed, Closed
<1> QED BY Invariance, <1>1, PTL

-----------------------------------------------------------------------------
(***************************************************************************)
(* The paging client of USGS and GeoMet.                                   *)
(***************************************************************************)

\* Pagination speaks of the cardinalities of the library's theorems.
LEMMA SameCardinality ==
    \A x : G!Cardinality(x) = Cardinality(x) /\ (G!IsFiniteSet(x) <=> IsFiniteSet(x))
BY DEF G!Cardinality, Cardinality, G!IsFiniteSet, IsFiniteSet

\* What a page holds: the features that follow, up to the limit.
LEMMA PageIsASlice ==
    ASSUME G!PaginationAssumption, G!TypeOK
    PROVE  /\ G!Page \in Seq(G!Feature) /\ Len(G!Page) <= Limit
           /\ Len(G!Page) = IF gNext + Limit < Len(gItems) THEN Limit
                          ELSE IF gNext < Len(gItems) THEN Len(gItems) - gNext ELSE 0
           /\ \A i \in 1..Len(G!Page) : gNext + i \in 1..Len(gItems) /\ G!Page[i] = gItems[gNext + i]
<1> DEFINE n == IF gNext + Limit < Len(gItems) THEN gNext + Limit ELSE Len(gItems)
<1>1. gNext \in Nat /\ Limit \in Nat \ {0} /\ gItems \in Seq(G!Feature)
  BY DEF G!TypeOK, G!PaginationAssumption
<1>2. Len(gItems) \in Nat /\ n \in Int /\ n <= Len(gItems) /\ \A i \in 1..Len(gItems) : gItems[i] \in G!Feature
  BY <1>1, LenProperties, ElementOfSeq
<1>3. /\ SubSeq(gItems, gNext + 1, n) \in Seq(G!Feature)
      /\ Len(SubSeq(gItems, gNext + 1, n)) = IF gNext + 1 <= n THEN n - (gNext + 1) + 1 ELSE 0
      /\ \A i \in 1..n - (gNext + 1) + 1 : SubSeq(gItems, gNext + 1, n)[i] = gItems[gNext + 1 + i - 1]
  <2>1. gNext + 1 \in Int /\ \A i \in gNext + 1..n : gItems[i] \in G!Feature
    BY <1>1, <1>2
  <2> QED BY <1>2, <2>1, SubSeqProperties
<1>4. G!Page = SubSeq(gItems, gNext + 1, n)
  BY DEF G!Page
<1> HIDE DEF n
<1>5. /\ G!Page \in Seq(G!Feature)
      /\ Len(G!Page) = IF gNext + 1 <= n THEN n - gNext ELSE 0
      /\ \A i \in 1..n - gNext : G!Page[i] = gItems[gNext + i]
  BY <1>1, <1>2, <1>3, <1>4
<1>6. n = IF gNext + Limit < Len(gItems) THEN gNext + Limit ELSE Len(gItems)
  BY DEF n
<1> QED BY <1>1, <1>2, <1>5, <1>6

LEMMA InsertedSequence ==
    ASSUME NEW T, NEW s \in Seq(T), NEW i \in 1..Len(s) + 1, NEW e \in T
    PROVE  /\ G!InsertAt(s, i, e) \in Seq(T)
           /\ Len(G!InsertAt(s, i, e)) = Len(s) + 1
           /\ \A k \in 1..i - 1 : G!InsertAt(s, i, e)[k] = s[k]
           /\ \A k \in i..Len(s) : G!InsertAt(s, i, e)[k + 1] = s[k]
<1> DEFINE a == SubSeq(s, 1, i - 1)
           b == SubSeq(s, i, Len(s))
<1>1. Len(s) \in Nat /\ \A k \in 1..Len(s) : s[k] \in T
  BY LenProperties, ElementOfSeq
<1>2. a \in Seq(T) /\ Len(a) = i - 1 /\ \A k \in 1..i - 1 : a[k] = s[k]
  <2>1. /\ SubSeq(s, 1, i - 1) \in Seq(T)
        /\ Len(SubSeq(s, 1, i - 1)) = IF 1 <= i - 1 THEN i - 1 - 1 + 1 ELSE 0
        /\ \A k \in 1..i - 1 - 1 + 1 : SubSeq(s, 1, i - 1)[k] = s[1 + k - 1]
    BY <1>1, SubSeqProperties
  <2> QED BY <1>1, <2>1
<1>3. b \in Seq(T) /\ Len(b) = Len(s) - i + 1 /\ \A k \in 1..Len(s) - i + 1 : b[k] = s[i + k - 1]
  <2>1. /\ SubSeq(s, i, Len(s)) \in Seq(T)
        /\ Len(SubSeq(s, i, Len(s))) = IF i <= Len(s) THEN Len(s) - i + 1 ELSE 0
        /\ \A k \in 1..Len(s) - i + 1 : SubSeq(s, i, Len(s))[k] = s[i + k - 1]
    BY <1>1, SubSeqProperties
  <2> QED BY <1>1, <2>1
<1>4. <<e>> \in Seq(T) /\ Len(<<e>>) = 1 /\ <<e>>[1] = e
  OBVIOUS
<1> HIDE DEF a, b
<1>5. /\ a \o <<e>> \in Seq(T) /\ Len(a \o <<e>>) = i
      /\ \A k \in 1..i : (a \o <<e>>)[k] = IF k < i THEN s[k] ELSE e
  <2>1. /\ a \o <<e>> \in Seq(T) /\ Len(a \o <<e>>) = Len(a) + Len(<<e>>)
        /\ \A k \in 1..Len(a) + Len(<<e>>) :
             (a \o <<e>>)[k] = IF k <= Len(a) THEN a[k] ELSE <<e>>[k - Len(a)]
    BY <1>2, <1>4, ConcatProperties
  <2> QED BY <1>1, <1>2, <1>4, <2>1
<1>6. /\ (a \o <<e>>) \o b \in Seq(T) /\ Len((a \o <<e>>) \o b) = Len(s) + 1
      /\ \A k \in 1..Len(s) + 1 :
           ((a \o <<e>>) \o b)[k] = IF k < i THEN s[k] ELSE IF k = i THEN e ELSE s[k - 1]
  <2> DEFINE c == a \o <<e>>
  <2>0. c \in Seq(T) /\ Len(c) = i /\ \A k \in 1..i : c[k] = IF k < i THEN s[k] ELSE e
    BY <1>5
  <2> HIDE DEF c
  <2>1. /\ c \o b \in Seq(T) /\ Len(c \o b) = Len(c) + Len(b)
        /\ \A k \in 1..Len(c) + Len(b) : (c \o b)[k] = IF k <= Len(c) THEN c[k] ELSE b[k - Len(c)]
    BY <1>3, <2>0, ConcatProperties
  <2>2. c \o b \in Seq(T) /\ Len(c \o b) = Len(s) + 1
    BY <1>1, <1>3, <2>0, <2>1
  <2>3. \A k \in 1..Len(s) + 1 :
           (c \o b)[k] = IF k < i THEN s[k] ELSE IF k = i THEN e ELSE s[k - 1]
    BY <1>1, <1>3, <2>0, <2>1
  <2> QED BY <2>2, <2>3 DEF c
<1> DEFINE d == (a \o <<e>>) \o b
<1>7. G!InsertAt(s, i, e) = d
  BY DEF G!InsertAt, a, b
<1>8. \A k \in i..Len(s) : k + 1 \in 1..Len(s) + 1 /\ ~ (k + 1 < i) /\ k + 1 # i /\ k + 1 - 1 = k
  BY <1>1
<1>9. \A k \in 1..i - 1 : k \in 1..Len(s) + 1 /\ k < i
  BY <1>1
<1>10. /\ d \in Seq(T) /\ Len(d) = Len(s) + 1
       /\ \A k \in 1..Len(s) + 1 : d[k] = IF k < i THEN s[k] ELSE IF k = i THEN e ELSE s[k - 1]
  BY <1>6
<1> HIDE DEF d
<1>11. \A k \in 1..i - 1 : d[k] = s[k]
  BY <1>9, <1>10
<1>12. \A k \in i..Len(s) : d[k + 1] = s[k]
  BY <1>8, <1>10
<1> QED BY <1>7, <1>10, <1>11, <1>12

LEMMA RemovedSequence ==
    ASSUME NEW T, NEW s \in Seq(T), NEW i \in 1..Len(s)
    PROVE  G!RemoveAt(s, i) \in Seq(T) /\ Len(G!RemoveAt(s, i)) = Len(s) - 1
<1>1. Len(s) \in Nat /\ \A k \in 1..Len(s) : s[k] \in T
  BY LenProperties, ElementOfSeq
<1>2. SubSeq(s, 1, i - 1) \in Seq(T) /\ Len(SubSeq(s, 1, i - 1)) = i - 1
  <2>1. /\ SubSeq(s, 1, i - 1) \in Seq(T)
        /\ Len(SubSeq(s, 1, i - 1)) = IF 1 <= i - 1 THEN i - 1 - 1 + 1 ELSE 0
    BY <1>1, SubSeqProperties
  <2> QED BY <1>1, <2>1
<1>3. SubSeq(s, i + 1, Len(s)) \in Seq(T) /\ Len(SubSeq(s, i + 1, Len(s))) = Len(s) - i
  <2>1. /\ SubSeq(s, i + 1, Len(s)) \in Seq(T)
        /\ Len(SubSeq(s, i + 1, Len(s))) = IF i + 1 <= Len(s) THEN Len(s) - (i + 1) + 1 ELSE 0
    BY <1>1, SubSeqProperties
  <2> QED BY <1>1, <2>1
<1> DEFINE a == SubSeq(s, 1, i - 1)
           b == SubSeq(s, i + 1, Len(s))
<1> HIDE DEF a, b
<1>4. a \in Seq(T) /\ Len(a) = i - 1 /\ b \in Seq(T) /\ Len(b) = Len(s) - i
  BY <1>2, <1>3 DEF a, b
<1>5. a \o b \in Seq(T) /\ Len(a \o b) = Len(a) + Len(b)
  BY <1>4, ConcatProperties
<1>6. G!RemoveAt(s, i) = a \o b
  BY DEF G!RemoveAt, a, b
<1>7. Len(a \o b) = Len(s) - 1
  BY <1>1, <1>4, <1>5
<1> QED BY <1>5, <1>6, <1>7

LEMMA PagingStarts == G!PaginationAssumption /\ G!Init => G!IInv
<1> SUFFICES ASSUME G!PaginationAssumption, G!Init PROVE G!IInv
  OBVIOUS
<1>1. PICK n \in 0..AtFirst :
         gItems = [i \in 1..n |-> [id |-> i, kind |-> IF i = n THEN gService.kind ELSE "good"]]
  BY DEF G!Init
<1>2. gService \in G!Services /\ gService.kind \in G!Kind
  BY DEF G!Init, G!Services
<1>3. gItems \in Seq(G!Feature) /\ Len(gItems) = n
  <2>1. AtFirst \in Nat /\ 1..AtFirst \subseteq Ids
    BY DEF G!PaginationAssumption
  <2>2. \A i \in 1..n : [id |-> i, kind |-> IF i = n THEN gService.kind ELSE "good"] \in G!Feature
    <3> TAKE i \in 1..n
    <3>1. i \in Ids /\ "good" \in G!Kind
      BY <1>1, <2>1 DEF G!Kind
    <3> QED BY <1>2, <3>1 DEF G!Feature
  <2> QED BY <1>1, <2>1, <2>2
<1>4. gRows = <<>> /\ gRows \in Seq(G!Feature) /\ Len(gRows) = 0 /\ DOMAIN gRows = {}
  BY DEF G!Init
<1>5. G!IsFiniteSet({}) /\ G!Cardinality({}) = 0
  BY SameCardinality, FS_EmptySet
<1>6. G!TypeOK /\ G!ServiceOK
  BY <1>2, <1>3, <1>4, <1>5 DEF G!Init, G!TypeOK, G!ServiceOK, G!PaginationAssumption
<1>7. G!StagedIsChecked /\ G!TotalsMoveOneWay
  BY <1>4 DEF G!Init, G!StagedIsChecked, G!TotalsMoveOneWay, G!IsInjective
<1>8. G!StagedIsAPrefix
  BY <1>3, <1>4, SubSeqEmpty DEF G!Init, G!StagedIsAPrefix, G!GoesOn
<1>9. G!NothingIsPassed
  <2> SUFFICES ASSUME NEW id \in Ids, \A m \in gMoments : id \in m
               PROVE  \E i \in 0 + 1..Len(gItems) : gItems[i].id = id
    BY DEF G!Init, G!NothingIsPassed
  <2>1. id \in G!Contents(gItems)
    BY DEF G!Init
  <2>2. DOMAIN gItems = 1..Len(gItems)
    BY <1>1, <1>3
  <2> QED BY <2>1, <2>2 DEF G!Contents
<1> QED BY <1>6, <1>7, <1>8, <1>9 DEF G!IInv

\* Of the changes a collection has seen, at most one kind.
LEMMA OneKindOfChange ==
    ASSUME NEW kinds \in SUBSET {"insert", "delete"}, G!Cardinality(kinds) <= 1
    PROVE  kinds \subseteq {"insert"} \/ kinds \subseteq {"delete"}
<1>1. G!IsFiniteSet({"insert", "delete"})
  <2>1. G!IsFiniteSet({"insert"})
    BY SameCardinality, FS_Singleton
  <2>2. {"insert", "delete"} = {"insert"} \cup {"delete"}
    OBVIOUS
  <2> QED BY SameCardinality, <2>1, <2>2, FS_AddElement
<1>2. G!IsFiniteSet(kinds) /\ G!Cardinality(kinds) \in Nat
  BY SameCardinality, <1>1, FS_Subset, FS_CardinalityType
<1>3. CASE G!Cardinality(kinds) = 0
  BY SameCardinality, <1>2, <1>3, FS_EmptySet
<1>4. CASE G!Cardinality(kinds) = 1
  <2>1. PICK k : kinds = {k}
    BY SameCardinality, <1>2, <1>4, FS_Singleton
  <2> QED BY <2>1
<1> QED BY <1>2, <1>3, <1>4

\* What a change of the collection leaves alone.
LEMMA ChangedCollection ==
    ASSUME G!PaginationAssumption, G!IInv, gPc = "paging",
           UNCHANGED <<gService, gPc, gNext, gSeen, gRows, gMatched>>,
           gItems' \in Seq(G!Feature), gMoments' = gMoments \cup {G!Contents(gItems')},
           NEW k \in {"insert", "delete"}, gChanges' = gChanges \cup {k},
           Len(gItems') = Len(gItems) + IF k = "insert" THEN 1 ELSE -1
    PROVE  (G!TypeOK /\ G!ServiceOK /\ G!StagedIsChecked /\ G!TotalsMoveOneWay /\ G!StagedIsAPrefix)'
<1>1. Len(gItems) \in Nat /\ Len(gItems') \in Nat /\ gMatched \in Nat
  BY LenProperties DEF G!IInv, G!TypeOK
<1>2. G!TypeOK'
  BY DEF G!IInv, G!TypeOK
<1>3. G!ServiceOK'
  BY DEF G!IInv, G!ServiceOK
<1>4. G!StagedIsChecked'
  BY DEF G!IInv, G!StagedIsChecked, G!Validates
<1>5. G!TotalsMoveOneWay'
  <2> SUFFICES ASSUME gService.totals, gSeen # {}
               PROVE  /\ gChanges' \subseteq {"insert"} => Len(gItems') >= gMatched
                      /\ gChanges' \subseteq {"delete"} => Len(gItems') <= gMatched
    BY DEF G!TotalsMoveOneWay
  <2>1. /\ gChanges \subseteq {"insert"} => Len(gItems) >= gMatched
        /\ gChanges \subseteq {"delete"} => Len(gItems) <= gMatched
    BY DEF G!IInv, G!TotalsMoveOneWay
  <2>2. CASE k = "insert"
    <3>1. Len(gItems') = Len(gItems) + 1 /\ ~ gChanges' \subseteq {"delete"}
          /\ (gChanges' \subseteq {"insert"} => gChanges \subseteq {"insert"})
      BY <2>2
    <3> QED BY <1>1, <2>1, <3>1
  <2>3. CASE k = "delete"
    <3>1. Len(gItems') = Len(gItems) - 1 /\ ~ gChanges' \subseteq {"insert"}
          /\ (gChanges' \subseteq {"delete"} => gChanges \subseteq {"delete"})
      BY <1>1, <2>3
    <3> QED BY <1>1, <2>1, <3>1
  <2> QED BY <2>2, <2>3
<1>6. G!StagedIsAPrefix'
  <2> SUFFICES ASSUME gService.totals, G!Cardinality(gChanges') <= 1, G!GoesOn', gSeen # {} => Len(gItems') = gMatched
               PROVE  gNext <= Len(gItems') /\ gRows = SubSeq(gItems', 1, gNext)
    BY DEF G!StagedIsAPrefix
  <2>1. gChanges' \subseteq {"insert"} \/ gChanges' \subseteq {"delete"}
    BY <1>3, OneKindOfChange DEF G!ServiceOK
  <2>2. gSeen = {}
    <3>1. CASE k = "insert"
      <4>1. Len(gItems') = Len(gItems) + 1 /\ gChanges \subseteq {"insert"}
        BY <2>1, <3>1
      <4> QED BY <1>1, <4>1 DEF G!IInv, G!TotalsMoveOneWay
    <3>2. CASE k = "delete"
      <4>1. Len(gItems') = Len(gItems) - 1 /\ gChanges \subseteq {"delete"}
        BY <1>1, <2>1, <3>2
      <4> QED BY <1>1, <4>1 DEF G!IInv, G!TotalsMoveOneWay
    <3> QED BY <3>1, <3>2
  <2>3. gNext = 0 /\ gRows = <<>>
    BY <2>2 DEF G!IInv, G!ServiceOK
  <2> QED BY <1>1, <2>3, SubSeqEmpty
<1> QED BY <1>2, <1>3, <1>4, <1>5, <1>6

\* A feature is added: the others keep their order.
LEMMA FeatureIsInserted ==
    ASSUME G!PaginationAssumption, G!IInv, NEW i \in 1..Len(gItems) + 1, NEW id \in Ids, G!Insert(i, id)
    PROVE  G!IInv'
<1>1. gItems \in Seq(G!Feature) /\ Len(gItems) \in Nat /\ gNext \in Nat
  BY LenProperties DEF G!IInv, G!TypeOK
<1>e. PICK e \in G!Feature : gItems' = G!InsertAt(gItems, i, e)
  BY DEF G!Insert, G!Feature, G!Kind
<1>2. gPc = "paging" /\ gChanges' = gChanges \cup {"insert"}
      /\ gMoments' = gMoments \cup {G!Contents(gItems')}
      /\ UNCHANGED <<gService, gPc, gNext, gSeen, gRows, gMatched>>
  BY DEF G!Insert
<1>3. /\ gItems' \in Seq(G!Feature) /\ Len(gItems') = Len(gItems) + 1
      /\ \A k \in 1..i - 1 : gItems'[k] = gItems[k]
      /\ \A k \in i..Len(gItems) : gItems'[k + 1] = gItems[k]
  <2>1. /\ G!InsertAt(gItems, i, e) \in Seq(G!Feature)
        /\ Len(G!InsertAt(gItems, i, e)) = Len(gItems) + 1
        /\ \A k \in 1..i - 1 : G!InsertAt(gItems, i, e)[k] = gItems[k]
        /\ \A k \in i..Len(gItems) : G!InsertAt(gItems, i, e)[k + 1] = gItems[k]
    BY <1>1, InsertedSequence
  <2> QED BY <1>e, <2>1
<1>4. (G!TypeOK /\ G!ServiceOK /\ G!StagedIsChecked /\ G!TotalsMoveOneWay /\ G!StagedIsAPrefix)'
  BY <1>2, <1>3, ChangedCollection
<1>5. G!NothingIsPassed'
  <2> SUFFICES ASSUME gChanges' \subseteq {"insert"}, NEW j \in Ids, \A m \in gMoments' : j \in m,
                      G!GoesOn', j \notin G!Contents(gRows)
               PROVE  \E k \in gNext + 1..Len(gItems') : gItems'[k].id = j
    BY <1>2 DEF G!NothingIsPassed, G!Contents
  <2>1. G!GoesOn /\ gChanges \subseteq {"insert"} /\ \A m \in gMoments : j \in m
    BY <1>2 DEF G!GoesOn, G!Elsewhere
  <2>2. PICK k \in gNext + 1..Len(gItems) : gItems[k].id = j
    BY <2>1 DEF G!IInv, G!NothingIsPassed
  <2>3. CASE k < i
    <3>1. k \in gNext + 1..Len(gItems') /\ gItems'[k] = gItems[k]
      BY <1>1, <1>3, <2>3
    <3> QED BY <2>2, <3>1
  <2>4. CASE ~ k < i
    <3>1. k + 1 \in gNext + 1..Len(gItems') /\ gItems'[k + 1] = gItems[k]
      BY <1>1, <1>3, <2>4
    <3> QED BY <2>2, <3>1
  <2> QED BY <2>3, <2>4
<1> QED BY <1>4, <1>5 DEF G!IInv

LEMMA FeatureIsDeleted ==
    ASSUME G!PaginationAssumption, G!IInv, NEW i \in 1..Len(gItems), G!Delete(i)
    PROVE  G!IInv'
<1>1. gItems \in Seq(G!Feature) /\ Len(gItems) \in Nat
  BY LenProperties DEF G!IInv, G!TypeOK
<1>2. gPc = "paging" /\ gItems' = G!RemoveAt(gItems, i) /\ gChanges' = gChanges \cup {"delete"}
      /\ gMoments' = gMoments \cup {G!Contents(gItems')}
      /\ UNCHANGED <<gService, gPc, gNext, gSeen, gRows, gMatched>>
  BY DEF G!Delete
<1>3. gItems' \in Seq(G!Feature) /\ Len(gItems') = Len(gItems) - 1
  BY <1>1, <1>2, RemovedSequence
<1>4. (G!TypeOK /\ G!ServiceOK /\ G!StagedIsChecked /\ G!TotalsMoveOneWay /\ G!StagedIsAPrefix)'
  BY <1>1, <1>2, <1>3, ChangedCollection
<1>5. G!NothingIsPassed'
  BY <1>2 DEF G!NothingIsPassed
<1> QED BY <1>4, <1>5 DEF G!IInv

\* The client stops, or the number of its features is compared.
LEMMA PagingStops ==
    ASSUME G!IInv, NEW l \in {"accepted", "refused"}, gPc' = l, l = "accepted" => gPc = "checking",
           UNCHANGED <<gService, gItems, gChanges, gMoments, gNext, gSeen, gRows, gMatched>>
    PROVE  G!IInv'
<1>1. (G!TypeOK /\ G!ServiceOK /\ G!TotalsMoveOneWay)'
  BY DEF G!IInv, G!TypeOK, G!ServiceOK, G!TotalsMoveOneWay
<1>2. G!StagedIsChecked'
  BY DEF G!IInv, G!StagedIsChecked, G!Validates
<1>3. G!StagedIsAPrefix' /\ G!NothingIsPassed'
  BY DEF G!IInv, G!StagedIsAPrefix, G!NothingIsPassed, G!GoesOn, G!Contents
<1> QED BY <1>1, <1>2, <1>3 DEF G!IInv

\* A page has links exactly when more features follow.
LEMMA LinksAreOfTheService ==
    ASSUME G!PaginationAssumption, G!TypeOK
    PROVE  IF gNext + Limit < Len(gItems)
           THEN G!Links \in {{0}, {G!Elsewhere}, {gNext + Limit, 0}, {gNext + Limit}}
           ELSE G!Links = {}
<1>1. gNext \in Nat /\ Limit \in Nat \ {0} /\ Len(gItems) \in Nat
  BY LenProperties DEF G!TypeOK, G!PaginationAssumption
<1>2. CASE gNext + Limit < Len(gItems)
  <2>1. ~ (gNext + Limit >= Len(gItems))
    BY <1>1, <1>2
  <2> QED BY <1>2, <2>1 DEF G!Links
<1>3. CASE ~ (gNext + Limit < Len(gItems))
  <2>1. gNext + Limit >= Len(gItems)
    BY <1>1, <1>3
  <2> QED BY <1>3, <2>1 DEF G!Links
<1> QED BY <1>2, <1>3

\* A link that is not refused is to the page that follows.
LEMMA LinkGoesOn ==
    ASSUME G!PaginationAssumption, G!TypeOK, G!ServiceOK, NEW l \in G!Links, G!Cardinality(G!Links) <= 1
    PROVE  /\ l \in Nat
           /\ l \notin gSeen \cup {gNext} /\ l # G!Elsewhere => l = gNext + Limit /\ l < Len(gItems)
<1>1. gNext \in Nat /\ Limit \in Nat \ {0} /\ Len(gItems) \in Nat /\ G!Cardinality(Ids) \in Nat
  BY SameCardinality, LenProperties, FS_CardinalityType DEF G!TypeOK, G!PaginationAssumption
<1>2. G!Elsewhere \in Nat
  BY <1>1 DEF G!Elsewhere
<1>3. 0 \in gSeen \cup {gNext}
  BY DEF G!ServiceOK
<1>4. gNext + Limit < Len(gItems)
  BY LinksAreOfTheService
<1>5. G!Links = {0} \/ G!Links = {G!Elsewhere} \/ G!Links = {gNext + Limit, 0} \/ G!Links = {gNext + Limit}
  BY <1>4, LinksAreOfTheService
<1>6. G!Links # {gNext + Limit, 0}
  <2> SUFFICES ASSUME G!Links = {gNext + Limit, 0} PROVE FALSE
    OBVIOUS
  <2>1. G!IsFiniteSet({0}) /\ G!Cardinality({0}) = 1
    BY SameCardinality, FS_Singleton
  <2>2. gNext + Limit \notin {0} /\ {0} \cup {gNext + Limit} = G!Links
    BY <1>1
  <2>3. G!Cardinality({0} \cup {gNext + Limit}) =
          IF gNext + Limit \in {0} THEN G!Cardinality({0}) ELSE G!Cardinality({0}) + 1
    BY SameCardinality, <2>1, FS_AddElement
  <2> QED BY <2>1, <2>2, <2>3
<1> QED BY <1>1, <1>2, <1>3, <1>4, <1>5, <1>6

\* What an accepted page does.
PageIsTaken ==
    /\ G!GoesOn /\ G!SameTotal /\ G!NewFeatures(G!Page)
    /\ \A i \in DOMAIN G!Page : G!Validates(G!Page[i].kind)
    /\ G!Cardinality(G!Links) <= 1
    /\ gSeen' = gSeen \cup {gNext} /\ gRows' = gRows \o G!Page
    /\ gMatched' = IF gService.totals THEN Len(gItems) ELSE gMatched
    /\ \/ G!Links = {} /\ gPc' = "checking" /\ gNext' = gNext
       \/ gPc' = "paging" /\ gNext' \in G!Links
    /\ UNCHANGED <<gService, gItems, gChanges, gMoments>>

LEMMA TakenKeepsTypes ==
    ASSUME G!PaginationAssumption, G!IInv, PageIsTaken
    PROVE  (G!TypeOK /\ G!ServiceOK /\ G!TotalsMoveOneWay)'
<1>1. G!TypeOK /\ G!ServiceOK
  BY DEF G!IInv
<1>2. G!Page \in Seq(G!Feature) /\ Len(G!Page) <= Limit
  BY <1>1, PageIsASlice
<1>3. gNext' \in Nat
  BY <1>1, LinkGoesOn DEF PageIsTaken, G!TypeOK
<1>4. Len(gItems) \in Nat
  BY <1>1, LenProperties DEF G!TypeOK
<1>5. G!IsFiniteSet(gSeen') /\ G!Cardinality(gSeen) \in Nat /\ G!Cardinality(gSeen') = G!Cardinality(gSeen) + 1
  BY SameCardinality, <1>1, FS_AddElement, FS_CardinalityType DEF G!ServiceOK, PageIsTaken, G!GoesOn
<1>6. gRows' \in Seq(G!Feature) /\ Len(gRows') <= Limit * G!Cardinality(gSeen')
  <2> DEFINE a == Len(gRows)
             b == Len(G!Page)
             c == G!Cardinality(gSeen)
  <2>1. gRows' \in Seq(G!Feature) /\ Len(gRows') = a + b
    BY <1>1, <1>2, ConcatProperties DEF G!TypeOK, PageIsTaken
  <2>2. a \in Nat /\ b \in Nat /\ c \in Nat /\ Limit \in Nat /\ a <= Limit * c /\ b <= Limit
    BY <1>1, <1>2, <1>5, LenProperties DEF G!TypeOK, G!PaginationAssumption
  <2>3. G!Cardinality(gSeen') = c + 1
    BY <1>5
  <2> HIDE DEF a, b, c
  <2>4. Limit * (c + 1) = Limit * c + Limit
    BY <2>2
  <2> QED BY <2>1, <2>2, <2>3, <2>4
<1>7. G!TypeOK'
  BY <1>1, <1>3, <1>4, <1>6 DEF G!TypeOK, PageIsTaken
<1>8. G!ServiceOK'
  BY <1>1, <1>5 DEF G!ServiceOK, PageIsTaken
<1>9. G!TotalsMoveOneWay'
  BY <1>4 DEF PageIsTaken, G!TotalsMoveOneWay
<1> QED BY <1>7, <1>8, <1>9

\* Features of other pages have other ids.
LEMMA TakenIsChecked ==
    ASSUME G!PaginationAssumption, G!IInv, PageIsTaken
    PROVE  G!StagedIsChecked'
<1>1. G!TypeOK /\ G!ServiceOK /\ G!StagedIsChecked
  BY DEF G!IInv
<1>2. G!Page \in Seq(G!Feature) /\ gRows \in Seq(G!Feature)
  BY <1>1, PageIsASlice DEF G!TypeOK
<1> DEFINE a == Len(gRows)
           b == Len(G!Page)
<1>3. a \in Nat /\ b \in Nat /\ DOMAIN gRows = 1..a /\ DOMAIN G!Page = 1..b
  BY <1>2, LenProperties
<1>4. /\ gRows' \in Seq(G!Feature) /\ Len(gRows') = a + b
      /\ \A i \in 1..a + b : gRows'[i] = IF i <= a THEN gRows[i] ELSE G!Page[i - a]
  BY <1>2, ConcatProperties DEF PageIsTaken
<1>5. DOMAIN gRows' = 1..a + b
  BY <1>4, LenProperties
<1> HIDE DEF a, b
<1>6. ASSUME NEW i \in 1..a + b
      PROVE  \/ i \in 1..a /\ gRows'[i] = gRows[i]
             \/ i - a \in 1..b /\ gRows'[i] = G!Page[i - a]
  BY <1>3, <1>4
<1>7. \A i \in 1..a + b : G!Validates(gRows'[i].kind)
  BY <1>1, <1>3, <1>6 DEF PageIsTaken, G!StagedIsChecked
<1>8. ASSUME gService.ids, NEW i \in 1..a + b, NEW j \in 1..a + b, gRows'[i].id = gRows'[j].id
      PROVE  i = j
  <2>1. \A k, l \in 1..a : gRows[k].id = gRows[l].id => k = l
    BY <1>1, <1>3, <1>8 DEF G!StagedIsChecked, G!IsInjective
  <2>2. \A k, l \in 1..b : G!Page[k].id = G!Page[l].id => k = l
    BY <1>3, <1>8 DEF PageIsTaken, G!NewFeatures, G!IsInjective
  <2>3. \A k \in 1..a, l \in 1..b : gRows[k].id # G!Page[l].id
    BY <1>3, <1>8 DEF PageIsTaken, G!NewFeatures, G!Contents
  <2>4. \/ i \in 1..a /\ gRows'[i] = gRows[i]
        \/ i - a \in 1..b /\ gRows'[i] = G!Page[i - a]
    BY <1>6
  <2>5. \/ j \in 1..a /\ gRows'[j] = gRows[j]
        \/ j - a \in 1..b /\ gRows'[j] = G!Page[j - a]
    BY <1>6
  <2>6. i - a = j - a => i = j
    BY <1>3
  <2> QED BY <1>8, <2>1, <2>2, <2>3, <2>4, <2>5, <2>6
<1>9. gService' = gService
  BY DEF PageIsTaken
<1> QED BY <1>5, <1>7, <1>8, <1>9 DEF G!StagedIsChecked, G!IsInjective, G!Validates

\* While the total stands, the pages follow each other to the end of the collection.
LEMMA TakenIsAPrefix ==
    ASSUME G!PaginationAssumption, G!IInv, PageIsTaken
    PROVE  G!StagedIsAPrefix'
<1> SUFFICES ASSUME gService.totals, G!Cardinality(gChanges) <= 1
             PROVE  /\ G!GoesOn' => gNext' <= Len(gItems) /\ gRows' = SubSeq(gItems, 1, gNext')
                    /\ gPc' \in {"checking", "accepted"} => gRows' = gItems
  BY DEF G!StagedIsAPrefix, PageIsTaken
<1> DEFINE n == IF gNext + Limit < Len(gItems) THEN gNext + Limit ELSE Len(gItems)
<1>1. G!TypeOK /\ G!ServiceOK /\ gNext \in Nat /\ Limit \in Nat /\ gItems \in Seq(G!Feature) /\ Len(gItems) \in Nat
  BY LenProperties DEF G!IInv, G!TypeOK, G!PaginationAssumption
<1>2. gNext <= Len(gItems) /\ gRows = SubSeq(gItems, 1, gNext)
  BY DEF G!IInv, G!StagedIsAPrefix, PageIsTaken, G!SameTotal
<1>3. gRows' = SubSeq(gItems, 1, n)
  <2>1. gRows' = SubSeq(gItems, 1, gNext) \o SubSeq(gItems, gNext + 1, n)
    BY <1>2 DEF PageIsTaken, G!Page
  <2>2. gNext \in 1 - 1..Len(gItems) /\ n \in gNext..Len(gItems) /\ 1 \in 1..Len(gItems) + 1
    BY <1>1, <1>2
  <2> HIDE DEF n
  <2> QED BY <1>1, <2>1, <2>2, ConcatAdjacentSubSeq
<1>4. CASE G!Links = {}
  <2>1. n = Len(gItems)
    BY <1>1, <1>4, LinksAreOfTheService
  <2>2. gRows' = gItems
    BY <1>1, <1>3, <2>1, SubSeqFull
  <2> QED BY <1>4, <2>2 DEF PageIsTaken, G!GoesOn
<1>5. CASE G!Links # {}
  <2>1. gPc' = "paging" /\ gNext' \in G!Links
    BY <1>5 DEF PageIsTaken
  <2>2. G!GoesOn' => gNext' = gNext + Limit /\ gNext' < Len(gItems)
    BY <1>1, <2>1, LinkGoesOn DEF G!GoesOn, G!Elsewhere, PageIsTaken
  <2> QED BY <1>1, <1>3, <2>1, <2>2
<1> QED BY <1>4, <1>5

LEMMA TakenMissesNothing ==
    ASSUME G!PaginationAssumption, G!IInv, PageIsTaken
    PROVE  G!NothingIsPassed'
<1>1. G!TypeOK /\ G!ServiceOK /\ gNext \in Nat /\ Limit \in Nat /\ gItems \in Seq(G!Feature) /\ Len(gItems) \in Nat
  BY LenProperties DEF G!IInv, G!TypeOK, G!PaginationAssumption
<1>2. /\ G!Page \in Seq(G!Feature) /\ gRows \in Seq(G!Feature)
      /\ Len(G!Page) = IF gNext + Limit < Len(gItems) THEN Limit
                     ELSE IF gNext < Len(gItems) THEN Len(gItems) - gNext ELSE 0
      /\ \A i \in 1..Len(G!Page) : G!Page[i] = gItems[gNext + i]
  BY <1>1, PageIsASlice DEF G!TypeOK
<1>3. G!Contents(gRows') = G!Contents(gRows) \cup G!Contents(G!Page)
  <2> DEFINE a == Len(gRows)
             b == Len(G!Page)
  <2>1. a \in Nat /\ b \in Nat /\ DOMAIN gRows = 1..a /\ DOMAIN G!Page = 1..b
    BY <1>2, LenProperties
  <2>2. /\ gRows' \in Seq(G!Feature) /\ Len(gRows') = a + b
        /\ \A i \in 1..a + b : gRows'[i] = IF i <= a THEN gRows[i] ELSE G!Page[i - a]
    BY <1>2, ConcatProperties DEF PageIsTaken
  <2>3. DOMAIN gRows' = 1..a + b
    BY <2>2, LenProperties
  <2> HIDE DEF a, b
  <2>4. ASSUME NEW i \in 1..a + b
        PROVE  \/ i \in 1..a /\ gRows'[i] = gRows[i]
               \/ i - a \in 1..b /\ gRows'[i] = G!Page[i - a]
    BY <2>1, <2>2
  <2>5. \A i \in 1..a : i \in 1..a + b /\ gRows'[i] = gRows[i]
    BY <2>1, <2>2
  <2>6. \A i \in 1..b : a + i \in 1..a + b /\ gRows'[a + i] = G!Page[i]
    BY <2>1, <2>2
  <2> QED BY <2>1, <2>3, <2>4, <2>5, <2>6 DEF G!Contents
<1>4. ASSUME gChanges \subseteq {"insert"}, NEW id \in Ids, \A m \in gMoments : id \in m, id \notin G!Contents(gRows')
      PROVE  gNext + Limit < Len(gItems) /\ \E i \in gNext + Limit + 1..Len(gItems) : gItems[i].id = id
  <2>1. PICK i \in gNext + 1..Len(gItems) : gItems[i].id = id
    BY <1>3, <1>4 DEF G!IInv, G!NothingIsPassed, PageIsTaken
  <2>2. i - gNext \notin 1..Len(G!Page)
    <3> SUFFICES ASSUME i - gNext \in 1..Len(G!Page) PROVE FALSE
      OBVIOUS
    <3>1. G!Page[i - gNext] = gItems[i]
      BY <1>1, <1>2
    <3>2. i - gNext \in DOMAIN G!Page
      BY <1>2, LenProperties
    <3> QED BY <1>3, <1>4, <2>1, <3>1, <3>2 DEF G!Contents
  <2>3. gNext + Limit < Len(gItems) /\ i \in gNext + Limit + 1..Len(gItems)
    BY <1>1, <1>2, <2>2
  <2> QED BY <2>1, <2>3
<1>5. gNext + Limit < Len(gItems) => G!Links # {}
  BY <1>1, LinksAreOfTheService
<1>6. gPc' = "paging" /\ G!GoesOn' => gNext' = gNext + Limit
  BY <1>1, LinkGoesOn DEF G!GoesOn, G!Elsewhere, PageIsTaken
<1> QED BY <1>4, <1>5, <1>6 DEF G!NothingIsPassed, PageIsTaken, G!GoesOn

LEMMA PageIsHandled ==
    ASSUME G!PaginationAssumption, G!IInv, G!Turn
    PROVE  G!IInv'
<1>1. CASE PageIsTaken
  BY <1>1, TakenKeepsTypes, TakenIsChecked, TakenIsAPrefix, TakenMissesNothing DEF G!IInv
<1>2. CASE G!Raise /\ UNCHANGED <<gService, gItems, gChanges, gMoments>>
  BY <1>2, PagingStops DEF G!Raise
<1> QED BY <1>1, <1>2 DEF G!Turn, PageIsTaken, G!GoesOn, G!NotAskedBefore

\* The invariant holds in every state, whatever the service gives.
LEMMA PagingInvariance == G!Init /\ [][G!Next]_(G!vars) => []G!IInv
<1>0. G!PaginationAssumption
  BY Assumptions
<1>1. G!Init => G!IInv
  BY <1>0, PagingStarts
<1>2. G!IInv /\ [G!Next]_(G!vars) => G!IInv'
  <2> SUFFICES ASSUME G!IInv, [G!Next]_(G!vars) PROVE G!IInv'
    OBVIOUS
  <2>1. CASE G!Finish
    BY <2>1, PagingStops DEF G!Finish
  <2>2. CASE G!Fails
    BY <2>2, PagingStops DEF G!Fails, G!Raise
  <2>3. CASE UNCHANGED G!vars
    <3>1. (G!TypeOK /\ G!ServiceOK /\ G!TotalsMoveOneWay)'
      BY <2>3 DEF G!vars, G!IInv, G!TypeOK, G!ServiceOK, G!TotalsMoveOneWay
    <3>2. G!StagedIsChecked'
      BY <2>3 DEF G!vars, G!IInv, G!StagedIsChecked, G!Validates
    <3>3. G!StagedIsAPrefix' /\ G!NothingIsPassed'
      BY <2>3 DEF G!vars, G!IInv, G!StagedIsAPrefix, G!NothingIsPassed, G!GoesOn, G!Contents, G!Elsewhere
    <3> QED BY <3>1, <3>2, <3>3 DEF G!IInv
  <2> QED BY <1>0, <2>1, <2>2, <2>3, PageIsHandled, FeatureIsInserted, FeatureIsDeleted DEF G!Next
<1> QED BY <1>1, <1>2, PTL

LEMMA AcceptedIsSound ==
    ASSUME G!PaginationAssumption, G!IInv
    PROVE  G!AcceptedIsAMoment /\ G!AcceptedMissesNothing /\ G!AcceptedIsSelected
<1>1. gService.ids => Len(gRows) = G!Cardinality(G!Contents(gRows))
  <2> SUFFICES ASSUME gService.ids PROVE Len(gRows) = G!Cardinality(G!Contents(gRows))
    OBVIOUS
  <2> DEFINE f == [i \in DOMAIN gRows |-> gRows[i].id]
  <2>1. Len(gRows) \in Nat /\ DOMAIN gRows = 1..Len(gRows)
    BY LenProperties DEF G!IInv, G!TypeOK
  <2>2. f \in Bijection(1..Len(gRows), G!Contents(gRows))
    BY <2>1 DEF G!IInv, G!StagedIsChecked, G!Contents, Bijection, Injection, Surjection, IsInjective, G!IsInjective
  <2>3. G!IsFiniteSet(1..Len(gRows)) /\ G!Cardinality(1..Len(gRows)) = Len(gRows)
    <3>1. \A n \in Nat : G!IsFiniteSet(1..n) /\ G!Cardinality(1..n) = IF 1 > n THEN 0 ELSE n - 1 + 1
      BY SameCardinality, FS_Interval
    <3> QED BY <2>1, <3>1
  <2> QED BY SameCardinality, <2>2, <2>3, FS_Bijection DEF ExistsBijection
<1>2. G!AcceptedIsAMoment
  BY <1>1 DEF G!IInv, G!StagedIsAPrefix, G!ServiceOK, G!AcceptedIsAMoment
<1>3. G!AcceptedMissesNothing
  BY <1>1 DEF G!IInv, G!NothingIsPassed, G!AcceptedMissesNothing
<1>4. G!AcceptedIsSelected
  <2>1. gService.plan \in {"USGS", "ECCC", "HYDAT"}
    BY DEF G!IInv, G!ServiceOK, G!Services
  <2> QED BY <2>1 DEF G!IInv, G!StagedIsChecked, G!AcceptedIsSelected, G!Validates,
                      G!USGSObservation, G!ECCCObservation, G!HYDATObservation
<1> QED BY <1>2, <1>3, <1>4

-----------------------------------------------------------------------------
(***************************************************************************)
(* The calls of the caches.                                                *)
(***************************************************************************)

\* A behaviour of the sum is a behaviour of each of its components.
LEMMA SumIsOfComponents ==
    CallsSpec => Spec /\ Y!Spec /\ S!Spec /\ G!Init /\ [][G!Next]_(G!vars)
<1>1. CallsInit => Init /\ Y!Init /\ S!Init /\ G!Init
    BY DEF CallsInit
<1>2. ASSUME [CallsNext]_all
      PROVE  [Next]_vars /\ [Y!Next]_(Y!vars) /\ [S!Next]_(S!vars) /\ [G!Next]_(G!vars)
    <2>1. UNCHANGED years => UNCHANGED Y!vars
        BY DEF years, Y!vars, Y!shared
    <2>2. UNCHANGED stations => UNCHANGED S!vars
        BY DEF stations, S!vars
    <2>3. UNCHANGED pages => UNCHANGED G!vars
        BY DEF pages, G!vars
    <2> QED BY <1>2, <2>1, <2>2, <2>3 DEF CallsNext, all
<1> QED BY <1>1, <1>2, PTL DEF CallsSpec, Spec, Y!Spec, S!Spec

\* In a directory of its own a call of the ERA5 plan leaves only whole years that
\* verify, and returns every year it was asked for (era5.py:284-368).
THEOREM YearCallsAreWhole == CallsSpec => []YearsAreWhole
<1>1. \A p, q \in {p1} : p = q
    OBVIOUS
<1>2. Y!Spec => []Y!YearsAreWhole
    BY <1>1, Assumptions, Y!YearsStayWhole
<1> QED BY <1>2, SumIsOfComponents, PTL DEF YearsAreWhole

\* In a directory of its own a station call keeps to its window and records what
\* it put in place, also when it fails (stations.py:383-471).
THEOREM StationCallsStayAccounted == CallsSpec => []StationCallsAreAccounted
<1>1. \A p, q \in {p1} : p = q
    OBVIOUS
<1>2. S!Spec => []S!StationCallsAreAccounted
    BY <1>1, Assumptions, S!PartialSuccessPersists
<1> QED BY <1>2, SumIsOfComponents, PTL DEF StationCallsAreAccounted

\* After a failure is reaped no further job of a station call is started
\* (stations.py:448-460).
THEOREM FailuresStopCalls == CallsSpec => NothingStartsAfterFailure
<1>1. S!Spec => S!NothingStartsAfterFailure
    BY Assumptions, S!FailureStopsTheCall
<1> QED BY <1>1, SumIsOfComponents, PTL DEF NothingStartsAfterFailure

\* Pages that are accepted are the collection as it was at one moment, or miss
\* nothing that was there all the time, and hold only what the plan selects
\* (_remote.py:107-130, usgs.py, _geomet.py).
THEOREM AcceptedPagesAreAMoment == CallsSpec => []PagesAreAMoment
<1>1. G!IInv => PagesAreAMoment
    BY Assumptions, AcceptedIsSound DEF PagesAreAMoment, G!IInv
<1> QED BY <1>1, SumIsOfComponents, PagingInvariance, PTL
=============================================================================
