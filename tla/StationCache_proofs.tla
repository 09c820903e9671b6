------------------------ MODULE StationCache_proofs ------------------------
(***************************************************************************)
(* Safety of the station cache, for any processes, jobs, versions and      *)
(* window: the entries are honest, the window is bounded, no job is        *)
(* forgotten, and nothing starts after a failure; and, of a process that   *)
(* has the directory to itself, a call that fails keeps what it fetched.   *)
(***************************************************************************)
EXTENDS StationCache, FiniteSetTheorems, TLAPS

(***************************************************************************)
(* What islice takes: at most n jobs, and one at least if there is one.    *)
(***************************************************************************)

\* Of two jobs, fewer come before the earlier one.
LEMMA EarlierHasFewer ==
    ASSUME NEW S \in SUBSET Int, IsFiniteSet(S), NEW i \in S, NEW j \in S, i < j
    PROVE  /\ Cardinality({k \in S : k < i}) \in Nat
           /\ Cardinality({k \in S : k < j}) \in Nat
           /\ Cardinality({k \in S : k < i}) < Cardinality({k \in S : k < j})
<1> DEFINE A == {k \in S : k < i}
           B == {k \in S : k < j}
<1>1. IsFiniteSet(B) /\ Cardinality(B) \in Nat
    BY FS_Subset, FS_CardinalityType
<1>2. A \in SUBSET B /\ i \in B /\ i \notin A
    <2>1. i \in Int /\ j \in Int /\ \A k \in S : k \in Int
        OBVIOUS
    <2>2. ASSUME NEW k \in A PROVE k \in B
        <3>1. k \in S /\ k \in Int /\ k < i
            BY <2>1, <2>2
        <3>2. k < j
            BY <2>1, <3>1
        <3> QED BY <3>1, <3>2
    <2>3. ~(i < i)
        BY <2>1
    <2> QED BY <2>2, <2>3
<1>3. IsFiniteSet(A) /\ Cardinality(A) <= Cardinality(B) /\ Cardinality(A) # Cardinality(B)
    BY <1>1, <1>2, FS_Subset
<1>4. Cardinality(A) \in Nat
    BY <1>3, FS_CardinalityType
<1> HIDE DEF A, B
<1>5. Cardinality(A) < Cardinality(B)
    BY <1>1, <1>3, <1>4
<1> QED BY <1>1, <1>4, <1>5 DEF A, B

\* At most n jobs are taken.
LEMMA FirstIsBounded ==
    ASSUME NEW S \in SUBSET Int, IsFiniteSet(S), NEW n \in Nat
    PROVE  /\ IsFiniteSet(First(n, S))
           /\ Cardinality(First(n, S)) <= n
<1> DEFINE rank == [j \in First(n, S) |-> Cardinality({k \in S : k < j})]
<1>1. First(n, S) \subseteq S
    BY DEF First
<1>2. \A j \in First(n, S) : rank[j] \in 0..(n - 1)
    <2> TAKE j \in First(n, S)
    <2>1. IsFiniteSet({k \in S : k < j})
        BY FS_Subset
    <2>2. Cardinality({k \in S : k < j}) \in Nat
        BY <2>1, FS_CardinalityType
    <2>3. Cardinality({k \in S : k < j}) < n
        BY DEF First
    <2> QED BY <2>2, <2>3
<1>3. \A i, j \in First(n, S) : rank[i] = rank[j] => i = j
    <2> TAKE i, j \in First(n, S)
    <2>1. i \in S /\ j \in S /\ i \in Int /\ j \in Int
        BY <1>1
    <2>2. CASE i < j BY <2>1, <2>2, EarlierHasFewer
    <2>3. CASE j < i BY <2>1, <2>3, EarlierHasFewer
    <2> QED BY <2>1, <2>2, <2>3
<1>4. rank \in Injection(First(n, S), 0..(n - 1))
    BY <1>2, <1>3 DEF Injection, IsInjective
<1>5. IsFiniteSet(0..(n - 1)) /\ Cardinality(0..(n - 1)) = n
    BY FS_Interval
<1> HIDE DEF rank
<1> QED BY <1>4, <1>5, FS_Injection

\* If there is a job to do, the first one is taken.
LEMMA FirstTakesSome ==
    ASSUME NEW S \in SUBSET Int, IsFiniteSet(S), NEW n \in Nat \ {0}, First(n, S) = {}
    PROVE  S = {}
<1> SUFFICES ASSUME S # {} PROVE FALSE
    OBVIOUS
<1> DEFINE rank(j) == Cardinality({k \in S : k < j})
           Ranks == {rank(j) : j \in S}
<1>1. \A j \in S : rank(j) \in Nat
    BY FS_Subset, FS_CardinalityType
<1>2. Ranks \subseteq Nat /\ Ranks # {}
    BY <1>1
<1>3. PICK r \in Ranks : \A q \in Ranks : ~(<<q, r>> \in OpToRel(<, Nat))
    BY <1>2, NatLessThanWellFounded, WFMin
<1>4. PICK j \in S : r = rank(j)
    BY <1>3
<1>5. {k \in S : k < j} = {}
    <2> SUFFICES ASSUME NEW k \in S, k < j PROVE FALSE
        OBVIOUS
    <2>1. rank(k) < rank(j) /\ rank(k) \in Nat /\ rank(j) \in Nat
        BY EarlierHasFewer
    <2> QED BY <1>3, <1>4, <2>1 DEF OpToRel
<1>6. rank(j) = 0
    BY <1>5, FS_EmptySet
<1> QED BY <1>6 DEF First

\* What the pool is handed: some of the jobs to do, at most n, and one at least.
LEMMA SubmittedJobs ==
    ASSUME StationCacheAssumption, NEW state \in [Job -> JobState], NEW n \in Nat
    PROVE  /\ Submitted(state, n) \in [Job -> JobState]
           /\ \A j \in Job : \/ Submitted(state, n)[j] = state[j]
                             \/ state[j] = "todo" /\ Submitted(state, n)[j] = "fetching"
           /\ {j \in Job : Submitted(state, n)[j] \in Pending} =
                {j \in Job : state[j] \in Pending} \cup First(n, {j \in Job : state[j] = "todo"})
           /\ n # 0 /\ (\A j \in Job : Submitted(state, n)[j] \notin Pending)
                => \A j \in Job : state[j] # "todo"
<1> DEFINE todo == {j \in Job : state[j] = "todo"}
           next == First(n, todo)
           after == Submitted(state, n)
<1>1. todo \in SUBSET Int /\ IsFiniteSet(todo)
    BY FS_Subset DEF StationCacheAssumption
<1>2. next \subseteq todo
    BY DEF First
<1>3. after = [j \in Job |-> IF j \in next THEN "fetching" ELSE state[j]]
    BY DEF Submitted
<1> HIDE DEF next, after
<1>4. after \in [Job -> JobState]
    BY <1>3 DEF JobState, Pending
<1>5. \A j \in Job : after[j] = state[j] \/ (state[j] = "todo" /\ after[j] = "fetching")
    BY <1>2, <1>3
<1>6. \A j \in Job : after[j] \in Pending <=> state[j] \in Pending \/ j \in next
    BY <1>2, <1>3 DEF Pending
<1>7. {j \in Job : after[j] \in Pending} = {j \in Job : state[j] \in Pending} \cup next
    BY <1>2, <1>6
<1>8. ASSUME n # 0, \A j \in Job : after[j] \notin Pending
      PROVE  \A j \in Job : state[j] # "todo"
    <2>1. next = {}
        BY <1>2, <1>6, <1>8
    <2>2. todo = {}
        BY <1>1, <1>8, <2>1, FirstTakesSome DEF next
    <2> QED BY <2>2
<1> QED BY <1>4, <1>5, <1>7, <1>8 DEF next, after

-----------------------------------------------------------------------------
(***************************************************************************)
(* The inductive invariant.                                                *)
(***************************************************************************)

\* It holds of an empty cache directory.
LEMMA InitIInv == StationCacheAssumption /\ Init => IInv
<1> SUFFICES ASSUME StationCacheAssumption, Init PROVE IInv
    OBVIOUS
<1>1. TypeOK
    BY DEF StationCacheAssumption, Init, TypeOK, NoHits, JobState, Version
<1>2. WindowIsBounded
    <2> SUFFICES ASSUME NEW p \in Proc PROVE Cardinality(In(p, Pending)) <= Workers
        BY DEF WindowIsBounded
    <2>1. In(p, Pending) = {}
        BY DEF Init, In, Pending
    <2> QED BY <2>1, FS_EmptySet DEF StationCacheAssumption
<1>3. EntriesAreOfOneDownload /\ StartsClean /\ ThreadsAreWaitedFor /\ JobsAreKnown /\ NothingIsLeft
    BY DEF Init, EntriesAreOfOneDownload, StartsClean, ThreadsAreWaitedFor, JobsAreKnown,
           NothingIsLeft, NoHits, Pending
<1> QED BY <1>1, <1>2, <1>3 DEF IInv

\* The window of a process whose jobs a step leaves alone stays as it is.
LEMMA SameWindow ==
    ASSUME WindowIsBounded, NEW p \in Proc,
           \A q \in Proc \ {p} : job'[q] = job[q],
           Cardinality({j \in Job : job'[p][j] \in Pending}) <= Workers
    PROVE  WindowIsBounded'
<1> SUFFICES ASSUME NEW q \in Proc PROVE Cardinality({j \in Job : job'[q][j] \in Pending}) <= Workers
    BY DEF WindowIsBounded, In
<1>1. CASE q = p
    BY <1>1
<1>2. CASE q # p
    <2>1. {j \in Job : job'[q][j] \in Pending} = In(q, Pending)
        BY <1>2 DEF In
    <2> QED BY <2>1 DEF WindowIsBounded
<1> QED BY <1>1, <1>2

\* Fewer jobs are a narrower window.
LEMMA Narrower ==
    ASSUME StationCacheAssumption, NEW A \in SUBSET Job, NEW B \in SUBSET A, Cardinality(A) <= Workers
    PROVE  Cardinality(B) <= Workers
<1>1. IsFiniteSet(A) /\ IsFiniteSet(B) /\ Cardinality(B) <= Cardinality(A)
    BY FS_Subset DEF StationCacheAssumption
<1>2. Cardinality(A) \in Nat /\ Cardinality(B) \in Nat /\ Workers \in Nat
    BY <1>1, FS_CardinalityType DEF StationCacheAssumption
<1> QED BY <1>1, <1>2

\* An empty window is narrow enough.
LEMMA EmptyIsNarrow ==
    ASSUME StationCacheAssumption, NEW S, S = {}
    PROVE  Cardinality(S) <= Workers
  BY FS_EmptySet DEF StationCacheAssumption

\* A call starts in the state an idle process is in.
LEMMA StartIInv ==
    ASSUME StationCacheAssumption, IInv, NEW p \in Proc, Start(p)
    PROVE  IInv'
<1> USE DEF IInv, TypeOK
<1>1. /\ pc[p] = "idle" /\ pc'[p] = "look"
      /\ \A q \in Proc \ {p} : pc'[q] = pc[q] /\ call'[q] = call[q] /\ hits'[q] = hits[q]
      /\ UNCHANGED <<remote, object, entry, job, staged, failed>>
    BY DEF Start, shared
<1>2. TypeOK'
    BY <1>1 DEF Start
<1>3. WindowIsBounded'
    BY <1>1 DEF WindowIsBounded, In
<1>4. EntriesAreOfOneDownload' /\ StartsClean' /\ ThreadsAreWaitedFor'
    BY <1>1 DEF EntriesAreOfOneDownload, StartsClean, ThreadsAreWaitedFor, Pending
<1>5. JobsAreKnown' /\ NothingIsLeft'
    BY <1>1 DEF JobsAreKnown, NothingIsLeft
<1> QED BY <1>2, <1>3, <1>4, <1>5

\* What is not found is to do, and the window is filled.
LEMMA LookIInv ==
    ASSUME StationCacheAssumption, IInv, NEW p \in Proc, Look(p)
    PROVE  IInv'
<1> USE DEF IInv, TypeOK
<1> DEFINE found == {j \in call[p].jobs : call[p].mode # "refresh" /\ Valid(hits[p][j], j)}
           todo == call[p].jobs \ found
           state == [j \in Job |-> IF j \in todo THEN "todo" ELSE "none"]
           after == IF call[p].mode = "offline" THEN job[p] ELSE Submitted(state, Workers)
<1>1. /\ pc[p] = "look"
      /\ hits' = [hits EXCEPT ![p] = [j \in Job |-> IF j \in found THEN @[j] ELSE NoEntry]]
      /\ job' = [job EXCEPT ![p] = after]
      /\ pc' = [pc EXCEPT ![p] = IF todo = {} THEN "done"
                                 ELSE IF call[p].mode = "offline" THEN "failed" ELSE "pool"]
      /\ UNCHANGED <<remote, object, entry, call, staged, failed>>
    BY DEF Look, shared
<1>2. call[p].jobs \subseteq Job /\ \A j \in found : hits[p][j] # NoEntry
    BY DEF Call, NoCall, Valid
<1>3. ~failed[p] /\ \A j \in Job : job[p][j] = "none"
    BY <1>1 DEF StartsClean
<1>4. state \in [Job -> JobState] /\ Workers \in Nat \ {0}
    BY DEF JobState, StationCacheAssumption
<1>41. \A j \in Job : state[j] \in {"todo", "none"} /\ (state[j] = "todo" <=> j \in todo)
    OBVIOUS
<1>42. todo \subseteq Job /\ \A j \in call[p].jobs : j \in found \/ j \in todo
    BY <1>2
<1> HIDE DEF state, todo, found
<1>5. /\ Submitted(state, Workers) \in [Job -> JobState]
      /\ \A j \in Job : \/ Submitted(state, Workers)[j] = state[j]
                        \/ state[j] = "todo" /\ Submitted(state, Workers)[j] = "fetching"
      /\ {j \in Job : Submitted(state, Workers)[j] \in Pending} =
            {j \in Job : state[j] \in Pending} \cup First(Workers, {j \in Job : state[j] = "todo"})
    BY <1>4, SubmittedJobs
<1>6. after \in [Job -> JobState]
    BY <1>5
<1>7. TypeOK'
    BY <1>1, <1>6
<1>8. Cardinality({j \in Job : after[j] \in Pending}) <= Workers
    <2>1. CASE call[p].mode = "offline"
        <3>1. {j \in Job : after[j] \in Pending} = {}
            BY <1>3, <2>1 DEF Pending
        <3> QED BY <3>1, EmptyIsNarrow
    <2>2. CASE call[p].mode # "offline"
        <3>1. {j \in Job : state[j] \in Pending} = {}
            BY <1>41 DEF Pending
        <3>2. {j \in Job : after[j] \in Pending} = First(Workers, {j \in Job : state[j] = "todo"})
            BY <1>5, <2>2, <3>1
        <3>3. {j \in Job : state[j] = "todo"} \in SUBSET Int /\ IsFiniteSet({j \in Job : state[j] = "todo"})
            BY FS_Subset DEF StationCacheAssumption
        <3> QED BY <1>4, <3>2, <3>3, FirstIsBounded
    <2> QED BY <2>1, <2>2
<1>9. WindowIsBounded'
    BY <1>1, <1>8, SameWindow
<1>10. \A j \in Job : after[j] \in {"none", "todo", "fetching"} /\ (todo = {} => after[j] = "none")
    BY <1>3, <1>41, <1>5
<1>11. call[p].mode # "offline" => \A j \in todo : after[j] # "none"
    BY <1>41, <1>42, <1>5
<1> HIDE DEF after
<1>12. \A j \in call[p].jobs : hits'[p][j] # NoEntry \/ j \in todo
    BY <1>1, <1>2, <1>42
<1>13. EntriesAreOfOneDownload' /\ StartsClean'
    BY <1>1 DEF EntriesAreOfOneDownload, StartsClean
<1>14. ThreadsAreWaitedFor'
    BY <1>1, <1>3, <1>10 DEF ThreadsAreWaitedFor, Pending, after
<1>15. JobsAreKnown'
    BY <1>1, <1>3, <1>10, <1>11, <1>12 DEF JobsAreKnown
<1>16. NothingIsLeft'
    BY <1>1, <1>3, <1>10 DEF NothingIsLeft
<1> QED BY <1>7, <1>9, <1>13, <1>14, <1>15, <1>16

\* A thread moves its job from one pending state to another.
LEMMA ThreadIInv ==
    ASSUME StationCacheAssumption, IInv, NEW p \in Proc, NEW j \in Job, Thread(p, j)
    PROVE  IInv'
<1> USE DEF IInv, TypeOK
<1>1. PICK s \in {"staged", "returned", "raised"} :
        job' = [job EXCEPT ![p][j] = s] /\ job[p][j] \in {"fetching", "staged"}
    BY DEF Thread, Download, PutInPlace, JobRaises, SetJob
<1>2. /\ UNCHANGED <<remote, entry, pc, call, hits, failed>>
      /\ object' \in [Job -> Version \cup {Absent}]
      /\ staged' \in [Proc -> [Job -> Version]]
    <2>1. CASE Download(p, j)
        BY <2>1 DEF Download, shared
    <2>2. CASE PutInPlace(p, j)
        BY <2>2 DEF PutInPlace
    <2>3. CASE JobRaises(p, j)
        BY <2>3 DEF JobRaises, shared
    <2> QED BY <2>1, <2>2, <2>3 DEF Thread
<1>3. TypeOK'
    BY <1>1, <1>2 DEF JobState, Pending
<1>4. \A q \in Proc : \A i \in Job :
        \/ job'[q][i] = job[q][i]
        \/ q = p /\ i = j /\ job[q][i] \in Pending /\ job'[q][i] \in Pending /\ job'[q][i] # "lost"
    BY <1>1 DEF Pending
<1>5. WindowIsBounded'
    <2> SUFFICES ASSUME NEW q \in Proc PROVE Cardinality(In(q, Pending)') <= Workers
        BY DEF WindowIsBounded
    <2>1. In(q, Pending)' = In(q, Pending)
        BY <1>4 DEF In
    <2> QED BY <2>1 DEF WindowIsBounded
<1>6. \A q \in Proc : \A i \in Job : job[q][i] \in Pending =>
        job[q][i] \notin {"none", "todo", "lost"} /\ pc[q] = "pool"
    BY DEF ThreadsAreWaitedFor, Pending
<1>7. \A q \in Proc : \A i \in Job : job'[q][i] \in Pending => job'[q][i] \notin {"none", "todo", "lost"}
    BY DEF Pending
<1> HIDE DEF Pending
<1>8. EntriesAreOfOneDownload' /\ StartsClean' /\ ThreadsAreWaitedFor'
    BY <1>2, <1>4, <1>6 DEF EntriesAreOfOneDownload, StartsClean, ThreadsAreWaitedFor
<1>9. JobsAreKnown'
    BY <1>2, <1>4, <1>6, <1>7 DEF JobsAreKnown, Call, NoCall
<1>10. NothingIsLeft'
    BY <1>2, <1>4, <1>6, <1>7 DEF NothingIsLeft
<1> QED BY <1>3, <1>5, <1>8, <1>9, <1>10

\* Reaping makes room for as many jobs as were reaped.
LEMMA ReapIInv ==
    ASSUME StationCacheAssumption, IInv, NEW p \in Proc, Reap(p)
    PROVE  IInv'
<1> USE DEF IInv, TypeOK
<1> DEFINE completed == In(p, Completed)
           n == Cardinality(completed)
           reaped == [j \in Job |-> CASE job[p][j] = "returned" -> "fetched"
                                      [] job[p][j] = "raised" -> "lost"
                                      [] OTHER -> job[p][j]]
           after == IF HasFailed(p) THEN reaped ELSE Submitted(reaped, n)
           waiting == \E j \in Job : job'[p][j] \in Pending
<1>1. /\ pc[p] = "pool" /\ completed # {}
      /\ failed' = [failed EXCEPT ![p] = HasFailed(p)]
      /\ job' = [job EXCEPT ![p] = after]
      /\ pc' = [pc EXCEPT ![p] = IF waiting THEN "pool" ELSE "merge"]
      /\ UNCHANGED <<remote, object, entry, call, hits, staged>>
    BY DEF Reap, shared
<1>2. /\ completed \in SUBSET Job /\ IsFiniteSet(completed) /\ n \in Nat /\ n # 0
    <2>1. completed \in SUBSET Job /\ IsFiniteSet(completed)
        BY FS_Subset DEF In, StationCacheAssumption
    <2> QED BY <1>1, <2>1, FS_CardinalityType, FS_EmptySet
<1>3. reaped \in [Job -> JobState]
    BY DEF JobState, Pending
<1>4. \A j \in Job :
        /\ reaped[j] \in Pending <=> job[p][j] \in Pending /\ j \notin completed
        /\ reaped[j] = "todo" <=> job[p][j] = "todo"
        /\ reaped[j] = "none" <=> job[p][j] = "none"
        /\ reaped[j] = "lost" => job[p][j] \in {"lost", "raised"}
    BY DEF Pending, Completed, In
<1>5. completed \subseteq In(p, Pending)
    BY DEF In, Completed, Pending
<1> HIDE DEF completed, n, reaped
<1>6. /\ Submitted(reaped, n) \in [Job -> JobState]
      /\ \A j \in Job : \/ Submitted(reaped, n)[j] = reaped[j]
                        \/ reaped[j] = "todo" /\ Submitted(reaped, n)[j] = "fetching"
      /\ {j \in Job : Submitted(reaped, n)[j] \in Pending} =
            {j \in Job : reaped[j] \in Pending} \cup First(n, {j \in Job : reaped[j] = "todo"})
      /\ n # 0 /\ (\A j \in Job : Submitted(reaped, n)[j] \notin Pending)
            => \A j \in Job : reaped[j] # "todo"
    BY <1>2, <1>3, SubmittedJobs
<1>7. after \in [Job -> JobState] /\ HasFailed(p) \in BOOLEAN
    BY <1>3, <1>6 DEF HasFailed
<1>8. TypeOK'
    BY <1>1, <1>7
<1>9. {j \in Job : reaped[j] \in Pending} = In(p, Pending) \ completed
    BY <1>4 DEF In
<1>10. In(p, Pending) \in SUBSET Job /\ Cardinality(In(p, Pending)) <= Workers
    BY DEF In, WindowIsBounded
<1>11. Cardinality({j \in Job : after[j] \in Pending}) <= Workers
    <2>1. CASE HasFailed(p)
        <3>1. {j \in Job : after[j] \in Pending} = In(p, Pending) \ completed
            BY <1>9, <2>1
        <3>2. (In(p, Pending) \ completed) \in SUBSET In(p, Pending)
            OBVIOUS
        <3> QED BY <1>10, <3>1, <3>2, Narrower
    <2>2. CASE ~HasFailed(p)
        <3> DEFINE rest == In(p, Pending) \ completed
                   next == First(n, {j \in Job : reaped[j] = "todo"})
        <3>1. {j \in Job : after[j] \in Pending} = rest \cup next
            BY <1>6, <1>9, <2>2
        <3>2. IsFiniteSet(In(p, Pending)) /\ Cardinality(In(p, Pending)) \in Nat
            BY <1>10, FS_Subset, FS_CardinalityType DEF StationCacheAssumption
        <3>3. In(p, Pending) \cap completed = completed
            BY <1>5
        <3>4. IsFiniteSet(rest) /\ Cardinality(rest) = Cardinality(In(p, Pending)) - n
            BY <3>2, <3>3, FS_Difference DEF n
        <3>5. {j \in Job : reaped[j] = "todo"} \in SUBSET Int
              /\ IsFiniteSet({j \in Job : reaped[j] = "todo"})
            BY FS_Subset DEF StationCacheAssumption
        <3>6. IsFiniteSet(next) /\ Cardinality(next) <= n
            BY <1>2, <3>5, FirstIsBounded
        <3> HIDE DEF rest, next
        <3>7. /\ Cardinality(rest \cup next) =
                    Cardinality(rest) + Cardinality(next) - Cardinality(rest \cap next)
              /\ IsFiniteSet(rest \cap next)
            BY <3>4, <3>6, FS_Union, FS_Intersection
        <3>8. /\ Cardinality(rest) \in Nat /\ Cardinality(next) \in Nat
              /\ Cardinality(rest \cap next) \in Nat
            BY <3>4, <3>6, <3>7, FS_CardinalityType
        <3>9. Cardinality(rest \cup next) <= Cardinality(In(p, Pending))
            BY <1>2, <3>2, <3>4, <3>6, <3>7, <3>8
        <3>10. Cardinality(rest \cup next) \in Nat /\ Workers \in Nat
            BY <3>4, <3>6, FS_Union, FS_CardinalityType DEF StationCacheAssumption
        <3>11. Cardinality(rest \cup next) <= Workers
            BY <1>10, <3>2, <3>9, <3>10
        <3> QED BY <3>1, <3>11
    <2> QED BY <2>1, <2>2
<1>12. WindowIsBounded'
    BY <1>1, <1>11, SameWindow
<1>13. \A j \in Job :
        /\ after[j] = "none" <=> job[p][j] = "none"
        /\ after[j] = "lost" => job[p][j] \in {"lost", "raised"}
    BY <1>4, <1>6
<1>14. ~HasFailed(p) /\ (\A j \in Job : after[j] \notin Pending) => \A j \in Job : after[j] # "todo"
    BY <1>2, <1>6
<1> HIDE DEF after
<1>15. EntriesAreOfOneDownload' /\ StartsClean'
    BY <1>1 DEF EntriesAreOfOneDownload, StartsClean
<1>16. ThreadsAreWaitedFor'
    BY <1>1 DEF ThreadsAreWaitedFor
<1>17. JobsAreKnown'
    <2>1. call[p].jobs \subseteq Job
        BY DEF Call, NoCall
    <2>2. \A j \in call[p].jobs : hits[p][j] # NoEntry \/ after[j] # "none"
        BY <1>1, <1>13, <2>1 DEF JobsAreKnown
    <2>3. \A j \in Job : after[j] = "lost" => HasFailed(p)
        BY <1>13 DEF JobsAreKnown, HasFailed, In
    <2> QED BY <1>1, <2>2, <2>3 DEF JobsAreKnown
<1>18. NothingIsLeft'
    BY <1>1, <1>14 DEF NothingIsLeft
<1> QED BY <1>8, <1>12, <1>15, <1>16, <1>17, <1>18

\* What is recorded is of one download each.
LEMMA MergeIInv ==
    ASSUME StationCacheAssumption, IInv, NEW p \in Proc, Merge(p)
    PROVE  IInv'
<1> USE DEF IInv, TypeOK
<1>1. /\ pc[p] = "merge" /\ pc' = [pc EXCEPT ![p] = IF failed[p] THEN "failed" ELSE "done"]
      /\ entry' = [j \in Job |->
                    IF job[p][j] = "fetched" THEN FetchedEntry(p, j) ELSE entry[j]]
      /\ UNCHANGED <<remote, object, call, hits, job, staged, failed>>
    BY DEF Merge
<1>2. \A j \in Job : FetchedEntry(p, j) \in Entry /\ FetchedEntry(p, j).sum = FetchedEntry(p, j).version
    BY DEF FetchedEntry, Entry
<1>3. TypeOK'
    BY <1>1, <1>2
<1>4. WindowIsBounded'
    BY <1>1 DEF WindowIsBounded, In
<1>5. EntriesAreOfOneDownload'
    BY <1>1, <1>2 DEF EntriesAreOfOneDownload
<1>6. StartsClean' /\ ThreadsAreWaitedFor'
    BY <1>1 DEF StartsClean, ThreadsAreWaitedFor
<1>7. JobsAreKnown'
    BY <1>1 DEF JobsAreKnown
<1>8. NothingIsLeft'
    BY <1>1 DEF NothingIsLeft
<1> QED BY <1>3, <1>4, <1>5, <1>6, <1>7, <1>8

\* A call that returned, raised or was killed leaves nothing in memory.
LEMMA ResetIInv ==
    ASSUME StationCacheAssumption, IInv, NEW p \in Proc, Reset(p)
    PROVE  IInv'
<1> USE DEF IInv, TypeOK
<1>1. /\ pc' = [pc EXCEPT ![p] = "idle"] /\ call' = [call EXCEPT ![p] = NoCall]
      /\ hits' = [hits EXCEPT ![p] = NoHits]
      /\ job' = [job EXCEPT ![p] = [j \in Job |-> "none"]]
      /\ staged' = [staged EXCEPT ![p] = [j \in Job |-> 1]]
      /\ failed' = [failed EXCEPT ![p] = FALSE] /\ UNCHANGED <<remote, object, entry>>
    BY DEF Reset, shared
<1>2. TypeOK'
    BY <1>1 DEF NoHits, JobState, Version, StationCacheAssumption
<1>3. {j \in Job : job'[p][j] \in Pending} = {}
    BY <1>1 DEF Pending
<1>4. WindowIsBounded'
    BY <1>1, <1>3, EmptyIsNarrow, SameWindow
<1>5. EntriesAreOfOneDownload' /\ StartsClean' /\ ThreadsAreWaitedFor'
    BY <1>1 DEF EntriesAreOfOneDownload, StartsClean, ThreadsAreWaitedFor, Pending
<1>6. JobsAreKnown'
    BY <1>1 DEF JobsAreKnown
<1>7. NothingIsLeft'
    BY <1>1 DEF NothingIsLeft
<1> QED BY <1>2, <1>4, <1>5, <1>6, <1>7

\* Every step preserves it.
LEMMA StepIInv == StationCacheAssumption /\ IInv /\ [Next]_vars => IInv'
<1> SUFFICES ASSUME StationCacheAssumption, IInv, [Next]_vars PROVE IInv'
    OBVIOUS
<1>1. CASE \E p \in Proc : Start(p) BY <1>1, StartIInv
<1>2. CASE \E p \in Proc : Look(p) BY <1>2, LookIInv
<1>3. CASE \E p \in Proc : Reap(p) BY <1>3, ReapIInv
<1>4. CASE \E p \in Proc : Merge(p) BY <1>4, MergeIInv
<1>5. CASE \E p \in Proc : Reset(p) BY <1>5, ResetIInv
<1>6. CASE \E p \in Proc, j \in Job : Thread(p, j) BY <1>6, ThreadIInv
<1>7. ASSUME NEW j \in Job, RemoteChange(j) PROVE IInv'
    <2>1. remote' \in [Job -> Version] /\ UNCHANGED <<object, entry, pc, call, hits, job, staged, failed>>
        BY <1>7 DEF RemoteChange, IInv, TypeOK, Version, StationCacheAssumption
    <2> QED BY <2>1 DEF IInv, TypeOK, WindowIsBounded, In, EntriesAreOfOneDownload, StartsClean,
                        ThreadsAreWaitedFor, JobsAreKnown, NothingIsLeft
<1>8. CASE UNCHANGED vars
    BY <1>8 DEF vars, IInv, TypeOK, WindowIsBounded, In, EntriesAreOfOneDownload, StartsClean,
                ThreadsAreWaitedFor, JobsAreKnown, NothingIsLeft
<1> QED BY <1>1, <1>2, <1>3, <1>4, <1>5, <1>6, <1>7, <1>8 DEF Next, Main, Return, Crash

-----------------------------------------------------------------------------
(***************************************************************************)
(* The theorems.                                                           *)
(***************************************************************************)

\* The inductive invariant holds in every reachable state.
THEOREM Invariance == StationCacheAssumption => (Spec => []IInv)
<1> SUFFICES ASSUME StationCacheAssumption PROVE Spec => []IInv
    OBVIOUS
<1>1. Init => IInv BY InitIInv
<1>2. IInv /\ [Next]_vars => IInv' BY StepIInv
<1> QED BY <1>1, <1>2, PTL DEF Spec

\* An entry that verifies is of the file it names, however many processes replace
\* files and write entries, and however the remote files change.
THEOREM EntriesStayHonest == StationCacheAssumption => (Spec => []StationEntriesAreHonest)
<1> SUFFICES ASSUME StationCacheAssumption PROVE Spec => []StationEntriesAreHonest
    OBVIOUS
<1>1. IInv => StationEntriesAreHonest
    BY DEF IInv, EntriesAreOfOneDownload, StationEntriesAreHonest, Valid
<1> QED BY <1>1, Invariance, PTL

\* In a shared directory too, never more than `workers` jobs are submitted, and
\* the main thread accounts for every one of them.
THEOREM NoJobIsForgotten ==
    StationCacheAssumption => (Spec => [](WindowIsBounded /\ CallIsAccounted))
<1> SUFFICES ASSUME StationCacheAssumption PROVE Spec => [](WindowIsBounded /\ CallIsAccounted)
    OBVIOUS
<1>1. ASSUME IInv PROVE CallIsAccounted
    <2> SUFFICES ASSUME NEW p \in Proc
                 PROVE  /\ pc[p] = "done" => \A j \in call[p].jobs :
                              hits[p][j] # NoEntry \/ job[p][j] = "fetched"
                        /\ pc[p] \in {"merge", "done", "failed"} => In(p, Pending) = {}
        BY DEF CallIsAccounted
    <2>1. pc[p] \in {"merge", "done", "failed"} => \A j \in Job : job[p][j] \notin Pending
        BY <1>1 DEF IInv, ThreadsAreWaitedFor
    <2>2. ASSUME pc[p] = "done", NEW j \in call[p].jobs, hits[p][j] = NoEntry
          PROVE  job[p][j] = "fetched"
        <3>1. j \in Job /\ job[p][j] \in JobState
            BY <1>1, <2>2 DEF IInv, TypeOK, Call, NoCall
        <3>2. job[p][j] \notin {"none", "todo", "lost"} \cup Pending
            BY <1>1, <2>1, <2>2, <3>1 DEF IInv, JobsAreKnown, NothingIsLeft
        <3> QED BY <3>1, <3>2 DEF JobState
    <2> QED BY <2>1, <2>2 DEF In
<1>2. IInv => WindowIsBounded BY DEF IInv
<1> QED BY <1>1, <1>2, Invariance, PTL

\* After a failure is reaped no further job is started.
THEOREM FailureStopsTheCall == StationCacheAssumption => (Spec => NothingStartsAfterFailure)
<1> SUFFICES ASSUME StationCacheAssumption PROVE Spec => NothingStartsAfterFailure
    OBVIOUS
<1> DEFINE Stays == \A p \in Proc, j \in Job :
                        failed[p] /\ job[p][j] = "todo" => job'[p][j] \in {"todo", "none"}
<1>1. ASSUME IInv, Next PROVE Stays
    <2> SUFFICES ASSUME NEW q \in Proc, NEW i \in Job, failed[q], job[q][i] = "todo"
                 PROVE  job'[q][i] \in {"todo", "none"}
        OBVIOUS
    <2> USE <1>1 DEF IInv, TypeOK
    <2>1. ASSUME NEW p \in Proc, Start(p) \/ Merge(p) PROVE job'[q][i] = "todo"
        BY <2>1 DEF Start, Merge
    <2>2. ASSUME NEW p \in Proc, Look(p) PROVE job'[q][i] = "todo"
        <3>1. pc[p] = "look" /\ \A r \in Proc \ {p} : job'[r] = job[r]
            BY <2>2 DEF Look
        <3>2. q # p
            BY <3>1 DEF StartsClean
        <3> QED BY <3>1, <3>2
    <2>3. ASSUME NEW p \in Proc, Reap(p) PROVE job'[q][i] = "todo"
        <3>1. CASE q = p
            <4>1. HasFailed(p) BY <3>1 DEF HasFailed
            <4> QED BY <2>3, <3>1, <4>1 DEF Reap
        <3>2. CASE q # p
            BY <2>3, <3>2 DEF Reap
        <3> QED BY <3>1, <3>2
    <2>4. ASSUME NEW p \in Proc, Reset(p) PROVE job'[q][i] \in {"todo", "none"}
        BY <2>4 DEF Reset
    <2>5. ASSUME NEW p \in Proc, NEW j \in Job, Thread(p, j) PROVE job'[q][i] = "todo"
        <3>1. job[p][j] \in {"fetching", "staged"}
            BY <2>5 DEF Thread, Download, PutInPlace, JobRaises
        <3>2. \E s \in JobState : job' = [job EXCEPT ![p][j] = s]
            BY <2>5 DEF Thread, Download, PutInPlace, JobRaises, SetJob, JobState, Pending
        <3> QED BY <3>1, <3>2
    <2>6. ASSUME NEW j \in Job, RemoteChange(j) PROVE job'[q][i] = "todo"
        BY <2>6 DEF RemoteChange
    <2> QED BY <1>1, <2>1, <2>2, <2>3, <2>4, <2>5, <2>6 DEF Next, Main, Return, Crash
<1>2. IInv /\ [Next]_vars => [Stays]_vars
    BY <1>1
<1> QED BY <1>2, Invariance, PTL DEF Spec, NothingStartsAfterFailure

-----------------------------------------------------------------------------
(***************************************************************************)
(* One process: nothing is fetched twice.                                  *)
(***************************************************************************)

\* With one process, what its jobs put in place stays there, and the call records
\* it before it ends.
LEMMA StepFetchedIsKept ==
    ASSUME StationCacheAssumption, \A p, q \in Proc : p = q, IInv, FetchedIsKept, [Next]_vars
    PROVE  FetchedIsKept'
<1> USE DEF IInv, TypeOK, FetchedIsKept, FetchedEntry
<1>1. ASSUME NEW p \in Proc, Start(p) PROVE FetchedIsKept'
    BY <1>1 DEF Start, shared
<1>2. ASSUME NEW p \in Proc, Look(p) PROVE FetchedIsKept'
    <2>1. \A j \in Job : job[p][j] = "none"
        BY <1>2 DEF Look, StartsClean
    <2>2. \A j \in Job : job'[p][j] \in {"none", "todo", "fetching"}
        <3> DEFINE state == [j \in Job |->
                IF j \in call[p].jobs \ {k \in call[p].jobs :
                        call[p].mode # "refresh" /\ Valid(hits[p][k], k)}
                THEN "todo" ELSE "none"]
        <3>1. state \in [Job -> {"none", "todo"}] /\ state \in [Job -> JobState]
            BY DEF JobState
        <3>2. job' = [job EXCEPT ![p] = IF call[p].mode = "offline" THEN @
                                        ELSE Submitted(state, Workers)]
            BY <1>2 DEF Look
        <3> HIDE DEF state
        <3>3. \A j \in Job : Submitted(state, Workers)[j] \in {state[j], "fetching"}
            BY <3>1, SubmittedJobs DEF StationCacheAssumption
        <3> QED BY <2>1, <3>1, <3>2, <3>3
    <2> QED BY <1>2, <2>2 DEF Look, shared
<1>3. ASSUME NEW p \in Proc, Reap(p) PROVE FetchedIsKept'
    <2>1. \A j \in Job : job'[p][j] \in {"returned", "fetched"} => job[p][j] \in {"returned", "fetched"}
        <3> DEFINE n == Cardinality(In(p, Completed))
                   reaped == [j \in Job |-> CASE job[p][j] = "returned" -> "fetched"
                                              [] job[p][j] = "raised" -> "lost"
                                              [] OTHER -> job[p][j]]
        <3>1. reaped \in [Job -> JobState] /\ n \in Nat
            BY FS_Subset, FS_CardinalityType DEF JobState, Pending, In, StationCacheAssumption
        <3>2. \A j \in Job : reaped[j] \in {"returned", "fetched"} => job[p][j] \in {"returned", "fetched"}
            OBVIOUS
        <3>3. job' = [job EXCEPT ![p] = IF HasFailed(p) THEN reaped ELSE Submitted(reaped, n)]
            BY <1>3 DEF Reap
        <3> HIDE DEF reaped, n
        <3>4. \A j \in Job : Submitted(reaped, n)[j] \in {reaped[j], "fetching"}
            BY <3>1, SubmittedJobs
        <3> QED BY <3>2, <3>3, <3>4
    <2>2. pc'[p] \in {"pool", "merge"} /\ UNCHANGED <<object, staged>>
        BY <1>3 DEF Reap, shared
    <2> QED BY <2>1, <2>2
<1>4. ASSUME NEW p \in Proc, Merge(p) PROVE FetchedIsKept'
    BY <1>4 DEF Merge
<1>5. ASSUME NEW p \in Proc, Reset(p) PROVE FetchedIsKept'
    BY <1>5 DEF Reset, shared
<1>6. ASSUME NEW p \in Proc, NEW j \in Job, Thread(p, j) PROVE FetchedIsKept'
    <2>1. pc[p] = "pool"
        BY <1>6 DEF Thread, Download, PutInPlace, JobRaises, ThreadsAreWaitedFor, Pending
    <2>2. CASE Download(p, j)
        BY <2>1, <2>2 DEF Download, SetJob, shared
    <2>3. CASE PutInPlace(p, j)
        BY <2>1, <2>3 DEF PutInPlace, SetJob
    <2>4. CASE JobRaises(p, j)
        BY <2>1, <2>4 DEF JobRaises, SetJob, shared
    <2> QED BY <1>6, <2>2, <2>3, <2>4 DEF Thread
<1>7. ASSUME NEW j \in Job, RemoteChange(j) PROVE FetchedIsKept'
    BY <1>7 DEF RemoteChange
<1>8. CASE UNCHANGED vars
    BY <1>8 DEF vars
<1> QED BY <1>1, <1>2, <1>3, <1>4, <1>5, <1>6, <1>7, <1>8 DEF Next, Main, Return, Crash

\* Partial successes persist: in a directory of its own, a call keeps its window,
\* accounts for every job, and, when it fails, has recorded what it fetched.
THEOREM PartialSuccessPersists ==
    StationCacheAssumption /\ (\A p, q \in Proc : p = q) => (Spec => []StationCallsAreAccounted)
<1> SUFFICES ASSUME StationCacheAssumption, \A p, q \in Proc : p = q
             PROVE  Spec => []StationCallsAreAccounted
    OBVIOUS
<1>1. Init => FetchedIsKept
    BY DEF Init, FetchedIsKept
<1>2. IInv /\ FetchedIsKept /\ [Next]_vars => FetchedIsKept'
    BY StepFetchedIsKept
<1>3. IInv /\ FetchedIsKept => FailureKeepsFetched
    <2> SUFFICES ASSUME IInv, FetchedIsKept, NEW p \in Proc, pc[p] = "failed",
                        NEW j \in Job, job[p][j] = "fetched"
                 PROVE  Valid(entry[j], j)
        BY DEF FailureKeepsFetched
    <2>1. entry[j] = FetchedEntry(p, j) /\ object[j] = staged[p][j]
        BY DEF FetchedIsKept
    <2>2. FetchedEntry(p, j) \in [version : Int, sum : Int] /\ FetchedEntry(p, j).sum = staged[p][j]
        BY DEF IInv, TypeOK, FetchedEntry, Version, StationCacheAssumption
    <2> QED BY <2>1, <2>2 DEF Valid, StationCacheAssumption
<1>4. IInv => TypeOK BY DEF IInv
<1> QED BY <1>1, <1>2, <1>3, <1>4, Invariance, NoJobIsForgotten, PTL
        DEF Spec, StationCallsAreAccounted
=============================================================================
