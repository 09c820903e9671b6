----------------------------- MODULE Pagination -----------------------------
(***************************************************************************)
(* The paged downloads of USGS (workflows/usgs.py) and of ECCC daily and   *)
(* HYDAT (workflows/_geomet.py).  A page is a slice of the collection as   *)
(* it is when the page is asked for; the collection may change between two *)
(* pages, and then features shift from one page to another.  The client    *)
(* has the ids of the features, if the service gives any, and the number   *)
(* of matches, if the service states one.                                  *)
(***************************************************************************)
EXTENDS Naturals, FiniteSets, SequencesExt

CONSTANTS
    Limit,      \* features per page (500)
    Ids,        \* ids features may have: 1..n
    MaxChanges, \* bound on the changes of the collection
    AtFirst     \* at first the collection holds up to so many features

PaginationAssumption ==
    /\ Limit \in Nat \ {0} /\ AtFirst \in Nat /\ MaxChanges \in Nat
    /\ Ids \subseteq Nat /\ IsFiniteSet(Ids) /\ 1..AtFirst \subseteq Ids

VARIABLES
    service,    \* what the service is like: its plan, gives ids, states totals
    items,      \* the collection: its features in the order of the pages
    changes,    \* the kinds of change it has seen
    moments,    \* the contents it had while the download ran
    pc, next,   \* the client; the page it asks for next
    seen,       \* the pages it asked for
    rows,       \* the features it staged
    matched     \* the last numberMatched, or 0 before there is one

vars == <<service, items, changes, moments, pc, next, seen, rows, matched>>

-----------------------------------------------------------------------------
\* What matters of a feature: its id and whether the plan takes it.
Kind == {"good", "null", "text", "other station", "other day", "odd date", "infinite"}
Feature == [id : Ids, kind : Kind]

\* Mutation of HYDATObservation: only the values are looked at.
HYDATValue(kind) == kind # "infinite"

\* USGS values are text and may be empty; GeoMet values are numbers or null,
\* and ECCC repeats the day in fields that have to agree.
USGSObservation(kind) == kind \in {"good", "null", "text", "odd date"}
ECCCObservation(kind) == kind \in {"good", "null"}
HYDATObservation(kind) == kind \in {"good", "null", "odd date"}

Validates(kind) ==
    CASE service.plan = "USGS"  -> USGSObservation(kind)
      [] service.plan = "ECCC"  -> ECCCObservation(kind)
      [] service.plan = "HYDAT" -> HYDATObservation(kind)

Contents(s) == {s[i].id : i \in DOMAIN s}

\* The services the instances consider: one oddity at a time.
Services ==
    {s \in [plan : {"USGS", "ECCC", "HYDAT"}, ids : BOOLEAN, totals : BOOLEAN,
             links : {"good", "loop", "elsewhere", "two"}, kind : Kind] :
        (s.kind = "good" /\ s.plan = "USGS") \/ (s.kind # "good" /\ s.links = "good")}

Init ==
    /\ service \in Services
    /\ \E n \in 0..AtFirst :
        items = [i \in 1..n |-> [id |-> i, kind |-> IF i = n THEN service.kind ELSE "good"]]
    /\ changes = {} /\ moments = {Contents(items)}
    /\ pc = "paging" /\ next = 0 /\ seen = {} /\ rows = <<>> /\ matched = 0

-----------------------------------------------------------------------------
\* The service: the page at an offset, its next links, the number of matches.
Page == SubSeq(items, next + 1, IF next + Limit < Len(items) THEN next + Limit ELSE Len(items))

\* A page of another host.
Elsewhere == Limit * (Cardinality(Ids) + 1)

Links ==
    IF next + Limit >= Len(items) THEN {}
    ELSE CASE service.links = "loop"      -> {0}
           [] service.links = "elsewhere" -> {Elsewhere}
           [] service.links = "two"       -> {next + Limit, 0}
           [] OTHER                       -> {next + Limit}

Insert(i, id) ==
    /\ pc = "paging" /\ Cardinality(moments) <= MaxChanges
    /\ id = 1 + Cardinality(UNION moments)
    /\ items' = InsertAt(items, i, [id |-> id, kind |-> "good"])
    /\ changes' = changes \cup {"insert"}
    /\ moments' = moments \cup {Contents(items')}
    /\ UNCHANGED <<service, pc, next, seen, rows, matched>>

Delete(i) ==
    /\ pc = "paging" /\ Cardinality(moments) <= MaxChanges
    /\ items' = RemoveAt(items, i)
    /\ changes' = changes \cup {"delete"}
    /\ moments' = moments \cup {Contents(items')}
    /\ UNCHANGED <<service, pc, next, seen, rows, matched>>

-----------------------------------------------------------------------------
\* Mutation of NotAskedBefore.
AskedBefore(page) == page # Elsewhere

\* A page is asked for once, and only from the service.
NotAskedBefore(page) == page \notin seen

\* Mutation of SameTotal: the last page's number is the one that counts.
AnyTotal == next # Elsewhere

\* numberMatched must be the same on all pages that state it; 0 is stated too,
\* so `seen` tells whether there was one.
SameTotal == service.totals /\ seen # {} => matched = Len(items)

\* Mutation of NewFeatures: only within a page.
NewInPage(page) == service.ids => IsInjective([i \in DOMAIN page |-> page[i].id])

\* check_new_feature, for each feature of a page in turn.
NewFeatures(page) ==
    service.ids => /\ IsInjective([i \in DOMAIN page |-> page[i].id])
                   /\ Contents(page) \cap Contents(rows) = {}

Raise == pc' = "refused" /\ UNCHANGED <<next, seen, rows, matched>>

\* Mutation of Turn: a page that is refused starts the download over.
TurnStartsOver ==
    LET good == /\ next # Elsewhere /\ NotAskedBefore(next)
                /\ SameTotal /\ NewFeatures(Page)
                /\ \A i \in DOMAIN Page : Validates(Page[i].kind)
                /\ Cardinality(Links) <= 1
    IN
    /\ pc = "paging"
    /\ IF good
       THEN /\ seen' = seen \cup {next}
            /\ rows' = rows \o Page
            /\ matched' = IF service.totals THEN Len(items) ELSE matched
            /\ IF Links = {} THEN pc' = "checking" /\ next' = next
               ELSE pc' = pc /\ next' \in Links
       ELSE seen' = {} /\ rows' = <<>> /\ matched' = 0 /\ next' = 0 /\ pc' = pc
    /\ UNCHANGED <<service, items, changes, moments>>

\* One turn of the loop: the URL, the page, its counts, its features, its link.
Turn ==
    LET good == /\ next # Elsewhere /\ NotAskedBefore(next)
                /\ SameTotal /\ NewFeatures(Page)
                /\ \A i \in DOMAIN Page : Validates(Page[i].kind)
                /\ Cardinality(Links) <= 1
    IN
    /\ pc = "paging"
    /\ IF good
       THEN /\ seen' = seen \cup {next}
            /\ rows' = rows \o Page
            /\ matched' = IF service.totals THEN Len(items) ELSE matched
            /\ IF Links = {} THEN pc' = "checking" /\ next' = next
               ELSE pc' = pc /\ next' \in Links
       ELSE Raise
    /\ UNCHANGED <<service, items, changes, moments>>

\* The number of features is the number of matches.
Complete == service.totals => Len(rows) = matched

Finish ==
    /\ pc = "checking"
    /\ pc' = IF Complete THEN "accepted" ELSE "refused"
    /\ UNCHANGED <<service, items, changes, moments, next, seen, rows, matched>>

\* A request fails, or a page is too long or not a FeatureCollection, or its
\* numberReturned is not the number of its features.
Fails == pc = "paging" /\ Raise /\ UNCHANGED <<service, items, changes, moments>>

Next ==
    \/ Turn \/ Finish \/ Fails
    \/ \E i \in 1..Len(items) + 1, id \in Ids : Insert(i, id)
    \/ \E i \in 1..Len(items) : Delete(i)

Spec == Init /\ [][Next]_vars /\ WF_vars(Turn) /\ WF_vars(Finish)

-----------------------------------------------------------------------------
\* Types, and every page was asked for once.
TypeOK ==
    /\ items \in Seq(Feature) /\ rows \in Seq(Feature)
    /\ pc \in {"paging", "checking", "accepted", "refused"}
    /\ next \in Nat /\ seen \subseteq Nat /\ matched \in Nat
    /\ Len(rows) <= Limit * Cardinality(seen)

\* With totals and ids, a collection that only grew or only shrank while it was
\* paged through is accepted only as it was at one moment.
AcceptedIsAMoment ==
    pc = "accepted" /\ service.ids /\ service.totals /\ Cardinality(changes) <= 1 =>
        /\ Contents(rows) \in moments
        /\ Len(rows) = Cardinality(Contents(rows))

\* Without totals, and with features only added, every feature that was there
\* all the time is accepted, once.
AcceptedMissesNothing ==
    pc = "accepted" /\ service.ids /\ changes \subseteq {"insert"} =>
        /\ \A id \in Ids : (\A m \in moments : id \in m) => id \in Contents(rows)
        /\ Len(rows) = Cardinality(Contents(rows))

\* What is accepted lies in the selection of the plan.
AcceptedIsSelected ==
    pc = "accepted" => \A i \in DOMAIN rows : rows[i].kind \notin {"other station", "other day", "infinite"}

\* Whatever links the service gives, the download ends.
PagingEnds == <>(pc \in {"accepted", "refused"})

-----------------------------------------------------------------------------
(* What is needed to see that the first three hold in every state.           *)

ServiceOK ==
    /\ service \in Services /\ changes \subseteq {"insert", "delete"}
    /\ Contents(items) \in moments
    /\ IsFiniteSet(seen) /\ 0 \in seen \cup {next}
    /\ pc = "paging" /\ seen = {} => rows = <<>>

\* The next turn is not refused for its URL.
GoesOn == pc = "paging" /\ next \notin seen /\ next # Elsewhere

\* What was staged was looked at.
StagedIsChecked ==
    /\ \A i \in DOMAIN rows : Validates(rows[i].kind)
    /\ service.ids => IsInjective([i \in DOMAIN rows |-> rows[i].id])

\* A collection that only grows or only shrinks does not come back to a total.
TotalsMoveOneWay ==
    pc = "paging" /\ service.totals /\ seen # {} =>
        /\ changes \subseteq {"insert"} => Len(items) >= matched
        /\ changes \subseteq {"delete"} => Len(items) <= matched

\* As long as the total stands, what was staged is how the collection begins.
StagedIsAPrefix ==
    service.totals /\ Cardinality(changes) <= 1 =>
        /\ GoesOn /\ (seen # {} => Len(items) = matched) =>
              next <= Len(items) /\ rows = SubSeq(items, 1, next)
        /\ pc \in {"checking", "accepted"} => rows = items

\* What was there all the time is staged, or still to come.
NothingIsPassed ==
    changes \subseteq {"insert"} =>
        \A id \in Ids : (\A m \in moments : id \in m) =>
            /\ GoesOn => id \in Contents(rows) \/ \E i \in next + 1..Len(items) : items[i].id = id
            /\ pc \in {"checking", "accepted"} => id \in Contents(rows)

IInv ==
    /\ TypeOK /\ ServiceOK /\ StagedIsChecked
    /\ TotalsMoveOneWay /\ StagedIsAPrefix /\ NothingIsPassed
=============================================================================
