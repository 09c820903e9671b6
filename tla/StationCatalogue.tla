---------------------------- MODULE StationCatalogue ----------------------------
(***************************************************************************)
(* The catalogue that station plans select from (workflows/stations.py):   *)
(* one normalised file and its entry in the shared manifest, replaced one  *)
(* after the other, and the stations a plan resolves to.  A call that dies *)
(* in between, or another one that refreshes, leaves or brings about a     *)
(* file that its entry is not of.                                          *)
(*                                                                         *)
(* A version stands for a catalogue, its raw checksum and the checksum of  *)
(* its file.  A row is [station, at, start, end].                          *)
(***************************************************************************)
EXTENDS Integers, Sequences

CONSTANTS
    Proc,           \* processes that share the cache directory
    Catalogue,      \* the rows of each version: a sequence of sets
    Areas,          \* sets of places that for_areas may name
    Refreshers,     \* processes that only refresh, to select all there is
    Periods,        \* ranges of years: <<first, last>>
    None            \* no file, no entry, an open end of a record

Version == DOMAIN Catalogue
Rows == UNION {Catalogue[v] : v \in Version}

\* Versions are numbered.  A record ends no earlier than it starts, as far as its
\* ends are known, and years() takes ranges that are not empty.
StationCatalogueAssumption ==
    /\ Catalogue \in Seq(SUBSET Rows) /\ Catalogue # <<>>
    /\ None \notin Int
    /\ \A row \in Rows :
        /\ {row.start, row.end} \subseteq Int \cup {None}
        /\ None \notin {row.start, row.end} => row.start <= row.end
    /\ \A years \in Periods : years \in Int \X Int /\ years[1] <= years[2]

VARIABLES
    remote,     \* the version the provider serves
    file,       \* the version in the cache directory
    entry,      \* the version the manifest records
    pc,
    call        \* the plan of each process and its local variables

vars == <<remote, file, entry, pc, call>>

-----------------------------------------------------------------------------
Stations == {row.station : row \in Rows}

\* A plan names stations or areas, the last of them that was called for; NoPeriod
\* leaves the years open.
NoPeriod == <<0, 0>>
Wanted == [stations : SUBSET Stations, areas : {{}}, years : Periods \cup {NoPeriod}]
          \cup [stations : {{}}, areas : SUBSET Areas, years : Periods \cup {NoPeriod}]

\* Mutation of InYears: the record must span the years.
InYearsWhole(row, years) ==
    years # NoPeriod => /\ row.start # None => row.start <= years[1]
                        /\ row.end # None => row.end >= years[2]

\* A record that has any of the years, as far as its ends are known.
InYears(row, years) ==
    years # NoPeriod => /\ row.start # None => row.start <= years[2]
                        /\ row.end # None => row.end >= years[1]

\* _station_selection: the rows of a catalogue, by name or inside any of the areas.
Selected(wanted, version) ==
    {row \in Catalogue[version] :
        /\ IF wanted.stations # {} THEN row.station \in wanted.stations
           ELSE \E area \in wanted.areas : row.at \in area
        /\ InYears(row, wanted.years)}

\* A selection without rows is an error, and one that lacks a named station.
Refused(wanted, rows) == rows = {} \/ ~(wanted.stations \subseteq {row.station : row \in rows})

-----------------------------------------------------------------------------
(* Calls.  `alone` and `first` are history variables.                        *)

NoCall == [mode |-> "reuse", wanted |-> [stations |-> {}, areas |-> {}, years |-> NoPeriod],
           seen |-> None, table |-> None, rows |-> {}, first |-> None, alone |-> TRUE]

Running == {"look", "verify", "open", "fetch", "replace", "record", "select"}

Init ==
    /\ remote = 1
    /\ file = None /\ entry = None
    /\ pc = [p \in Proc |-> "idle"]
    /\ call = [p \in Proc |-> NoCall]

Goto(p, l) == pc' = [pc EXCEPT ![p] = l]
Raise(p) == Goto(p, "idle") /\ call' = [call EXCEPT ![p] = NoCall]

Update ==
    /\ remote + 1 \in Version
    /\ remote' = remote + 1
    /\ UNCHANGED <<file, entry, pc, call>>

\* stations(), resolve_stations() or a download that resolves first.
Start(p) ==
    /\ pc[p] = "idle"
    /\ \E mode \in {"reuse", "offline", "refresh"}, wanted \in Wanted :
        /\ wanted.stations # {} \/ wanted.areas # {}
        /\ p \in Refreshers => mode = "refresh" /\ wanted.areas = Areas /\ wanted.years = NoPeriod
        /\ call' = [q \in Proc |->
                IF q = p THEN [NoCall EXCEPT !.mode = mode, !.wanted = wanted, !.first = remote,
                                             !.alone = \A r \in Proc \ {p} : pc[r] \notin Running]
                ELSE [call[q] EXCEPT !.alone = FALSE]]
    /\ Goto(p, "look")
    /\ UNCHANGED <<remote, file, entry>>

Look(p) ==
    /\ pc[p] = "look"
    /\ call' = [call EXCEPT ![p].seen = entry]
    /\ Goto(p, "verify")
    /\ UNCHANGED <<remote, file, entry>>

\* Mutation of Verified: the file is there.
VerifiedByName(p) == call[p].seen # None /\ file # None

\* The file is there and has the checksum of the entry.
Verified(p) == call[p].seen # None /\ file = call[p].seen

Verify(p) ==
    /\ pc[p] = "verify"
    /\ IF Verified(p) /\ call[p].mode # "refresh" THEN Goto(p, "open") /\ UNCHANGED call
       ELSE IF call[p].mode = "offline" THEN Raise(p)
       ELSE Goto(p, "fetch") /\ UNCHANGED call
    /\ UNCHANGED <<remote, file, entry>>

\* The file is opened again by its name to be read.
Open(p) ==
    /\ pc[p] = "open"
    /\ call' = [call EXCEPT ![p].table = file]
    /\ Goto(p, "select")
    /\ UNCHANGED <<remote, file, entry>>

\* fetch_catalogue returns a catalogue or raises.
Fetch(p) ==
    /\ pc[p] = "fetch"
    /\ \/ Raise(p)
       \/ call' = [call EXCEPT ![p].table = remote, ![p].seen = remote] /\ Goto(p, "replace")
    /\ UNCHANGED <<remote, file, entry>>

Replace(p) ==
    /\ pc[p] = "replace"
    /\ file' = call[p].table
    /\ Goto(p, "record")
    /\ UNCHANGED <<remote, entry, call>>

\* Under the manifest's lock.
Record(p) ==
    /\ pc[p] = "record"
    /\ entry' = call[p].table
    /\ Goto(p, "select")
    /\ UNCHANGED <<remote, file, call>>

SelectRows(p) ==
    /\ pc[p] = "select"
    /\ LET rows == Selected(call[p].wanted, call[p].table) IN
       IF Refused(call[p].wanted, rows) THEN Raise(p)
       ELSE call' = [call EXCEPT ![p].rows = rows] /\ Goto(p, "done")
    /\ UNCHANGED <<remote, file, entry>>

Return(p) == pc[p] = "done" /\ Raise(p) /\ UNCHANGED <<remote, file, entry>>
Die(p) == pc[p] \in Running /\ Raise(p) /\ UNCHANGED <<remote, file, entry>>

Next ==
    \/ Update
    \/ \E p \in Proc :
        \/ Start(p) \/ Look(p) \/ Verify(p) \/ Open(p) \/ Fetch(p)
        \/ Replace(p) \/ Record(p) \/ SelectRows(p) \/ Return(p) \/ Die(p)

Spec == Init /\ [][Next]_vars

-----------------------------------------------------------------------------
\* The stations a plan asks for are those of a row with a year of its range.
RightRows(p) ==
    LET wanted == call[p].wanted IN
    call[p].rows =
        {row \in Catalogue[call[p].table] :
            /\ row.station \in wanted.stations \/ \E area \in wanted.areas : row.at \in area
            /\ wanted.years # NoPeriod =>
                 \E y \in wanted.years[1]..wanted.years[2] :
                    (row.start = None \/ row.start <= y) /\ (row.end = None \/ y <= row.end)}

\* A selection names the catalogue it is of: of a call without another one around,
\* whatever earlier ones that died have left; such a call also leaves a file that
\* its entry is of.  A refresh is of no earlier catalogue than was served when it
\* began, and every selection is the one the plan asks for (stations.py).
SelectionsAreOfTheirCatalogue ==
    \A p \in Proc : pc[p] = "done" =>
        /\ RightRows(p)
        /\ call[p].alone => call[p].seen = call[p].table /\ file = entry /\ entry = call[p].seen
        /\ call[p].mode = "refresh" => call[p].table >= call[p].first

-----------------------------------------------------------------------------
(* What is needed to see that it holds in every state.                       *)

Call == [mode : {"reuse", "offline", "refresh"}, wanted : Wanted, rows : SUBSET Rows,
         seen : Version \cup {None}, table : Version \cup {None},
         first : Version \cup {None}, alone : BOOLEAN]

TypeOK ==
    /\ remote \in Version
    /\ {file, entry} \subseteq Version \cup {None}
    /\ pc \in [Proc -> Running \cup {"idle", "done"}]
    /\ call \in [Proc -> Call]

\* What is opened is there; a call refreshes with what the provider served since.
CallIsServed(p) ==
    /\ pc[p] = "open" => file # None /\ call[p].mode # "refresh"
    /\ pc[p] # "idle" => call[p].first \in 1..remote
    /\ pc[p] \in {"replace", "record", "select", "done"} =>
        /\ call[p].table \in Version
        /\ call[p].mode = "refresh" => call[p].table >= call[p].first
    /\ pc[p] = "done" => RightRows(p)

\* Of a call without another one around, what each of its steps leaves.
AloneIsUndisturbed(p) ==
    call[p].alone =>
        /\ pc[p] # "idle" => \A q \in Proc \ {p} : pc[q] \notin Running
        /\ pc[p] \in {"verify", "open"} => call[p].seen = entry
        /\ pc[p] = "open" => file = entry
        /\ pc[p] \in {"replace", "record", "select", "done"} => call[p].seen = call[p].table
        /\ pc[p] \in {"record", "select", "done"} => file = call[p].table
        /\ pc[p] \in {"select", "done"} => entry = call[p].table

IInv == TypeOK /\ \A p \in Proc : CallIsServed(p) /\ AloneIsUndisturbed(p)
=============================================================================
