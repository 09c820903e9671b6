------------------------ MODULE PinnedCaches_proofs ------------------------
(***************************************************************************)
(* Safety of the caches whose manifest pins what they hold (ECCC IDF and   *)
(* CRC Open), for any processes, stations, partitions and versions; and of *)
(* the sum the run checks, each of whose behaviours is one of a component. *)
(***************************************************************************)
EXTENDS MCPinnedCaches, TLAPS

(***************************************************************************)
(* ECCC IDF: data.                                                         *)
(***************************************************************************)

\* Pins are functions from some stations to versions.
LEMMA PinsAreFunctions ==
    ASSUME NEW f
    PROVE  f \in Pins <=> DOMAIN f \subseteq Station /\ f \in [DOMAIN f -> Version]
<1>1. ASSUME f \in Pins PROVE DOMAIN f \subseteq Station /\ f \in [DOMAIN f -> Version]
    <2>1. PICK S \in SUBSET Station : f \in [S -> Version]
        BY <1>1 DEF Pins
    <2> QED BY <2>1
<1>2. ASSUME DOMAIN f \subseteq Station, f \in [DOMAIN f -> Version] PROVE f \in Pins
    BY <1>2 DEF Pins
<1> QED BY <1>1, <1>2

\* Nothing is pinned at first.
LEMMA NothingIsPins == Nothing \in Pins /\ DOMAIN Nothing = {}
<1>1. DOMAIN Nothing = {} /\ Nothing \in [{} -> Version]
    BY DEF Nothing
<1> QED BY <1>1, PinsAreFunctions

\* One more station is pinned, and the others stay as they are.
LEMMA WithIsPins ==
    ASSUME NEW f \in Pins, NEW s \in Station, NEW v \in Version
    PROVE  /\ With(f, s, v) \in Pins
           /\ DOMAIN With(f, s, v) = DOMAIN f \cup {s}
           /\ With(f, s, v)[s] = v
           /\ \A t \in DOMAIN f \ {s} : With(f, s, v)[t] = f[t]
<1>1. DOMAIN f \subseteq Station /\ f \in [DOMAIN f -> Version]
    BY PinsAreFunctions
<1>2. /\ DOMAIN With(f, s, v) = DOMAIN f \cup {s}
      /\ With(f, s, v) \in [DOMAIN f \cup {s} -> Version]
      /\ With(f, s, v)[s] = v /\ \A t \in DOMAIN f \ {s} : With(f, s, v)[t] = f[t]
    BY <1>1 DEF With
<1> QED BY <1>1, <1>2, PinsAreFunctions

\* An idle call.
LEMMA NoCallIsCall == NoCall \in Call
  BY NothingIsPins DEF NoCall, Call, Plan, Mode, Op

\* What a call finds is pinned, and is what the files hold.
LEMMA ValidIsPins ==
    ASSUME TypeOK, NEW p \in Proc
    PROVE  /\ Valid(p) \in Pins
           /\ DOMAIN Valid(p) \subseteq DOMAIN manifest.entries
           /\ DOMAIN Valid(p) \subseteq Wanted(p)
           /\ \A s \in DOMAIN Valid(p) :
                Valid(p)[s] = manifest.entries[s] /\ file[s] = manifest.entries[s]
<1>1. manifest.entries \in Pins
    BY DEF TypeOK
<1>2. /\ DOMAIN manifest.entries \subseteq Station
      /\ manifest.entries \in [DOMAIN manifest.entries -> Version]
    BY <1>1, PinsAreFunctions
<1>3. /\ DOMAIN Valid(p) \subseteq DOMAIN manifest.entries /\ DOMAIN Valid(p) \subseteq Wanted(p)
      /\ Valid(p) \in [DOMAIN Valid(p) -> Version]
      /\ \A s \in DOMAIN Valid(p) :
            Valid(p)[s] = manifest.entries[s] /\ file[s] = manifest.entries[s]
    BY <1>2 DEF Valid
<1> QED BY <1>2, <1>3, PinsAreFunctions

\* While a process runs, no other call that is under way is alone.
LEMMA OnlyOneIsAlone ==
    ASSUME AloneIsAlone, NEW p \in Proc, Running(p)
    PROVE  \A q \in Proc \ {p} : call[q].alone => pc[q] = "idle"
  BY DEF AloneIsAlone


(***************************************************************************)
(* ECCC IDF: the invariant, action by action.                              *)
(***************************************************************************)

LEMMA InitIInv == ASSUME IDFAssumption, Init PROVE IInv
<1>1. TypeOK
  BY NothingIsPins, NoCallIsCall DEF IDFAssumption, Init, TypeOK, Version, Plan
<1>2. /\ \A p \in Proc : pc[p] = "idle" /\ call[p].valid = Nothing
      /\ output["area"] = None /\ ~manifest.complete
  BY DEF Init, NoCall, Plan
<1>3. FetchesWhatItAsked /\ ReadsWhatItAsked /\ CompleteIsComplete /\ AreaIsWhole
  BY <1>2 DEF FetchesWhatItAsked, ReadsWhatItAsked, CompleteIsComplete, AreaIsWhole
<1>4. AloneIsAlone /\ AloneKeepsPins /\ AloneUsesEntries
  BY <1>2 DEF AloneIsAlone, AloneKeepsPins, AloneUsesEntries
<1> QED BY <1>1, <1>3, <1>4 DEF IInv

\* A call that fails or returns leaves nothing behind.
LEMMA RaiseIInv ==
    ASSUME IInv, NEW p \in Proc, Raise(p), UNCHANGED <<archive, disk>>
    PROVE  IInv'
<1>1. TypeOK /\ pc' = [pc EXCEPT ![p] = "idle"] /\ call' = [call EXCEPT ![p] = NoCall]
      /\ archive' = archive /\ file' = file /\ manifest' = manifest /\ output' = output
  BY DEF IInv, Raise, Goto, disk
<1>2. pc'[p] = "idle" /\ call'[p] = NoCall /\ NoCall \in Call /\ NoCall.valid = Nothing
  BY <1>1, NoCallIsCall DEF TypeOK, NoCall
<1>3. \A q \in Proc \ {p} : pc'[q] = pc[q] /\ call'[q] = call[q]
  BY <1>1 DEF TypeOK
<1>4. TypeOK'
  BY <1>1, <1>2, <1>3 DEF TypeOK, Version
<1>5. FetchesWhatItAsked'
  BY <1>1, <1>2, <1>3 DEF IInv, FetchesWhatItAsked, Asked, ByName
<1>6. ReadsWhatItAsked'
  BY <1>1, <1>2, <1>3 DEF IInv, ReadsWhatItAsked, Asked, ByName
<1>7. CompleteIsComplete' /\ AreaIsWhole'
  BY <1>1, <1>2, <1>3 DEF IInv, CompleteIsComplete, AreaIsWhole, ByName
<1>8. AloneIsAlone'
  BY <1>1, <1>2, <1>3 DEF IInv, AloneIsAlone, Running
<1>9. AloneKeepsPins'
  BY <1>1, <1>2, <1>3 DEF IInv, AloneKeepsPins
<1>10. AloneUsesEntries'
  BY <1>1, <1>2, <1>3 DEF IInv, AloneUsesEntries
<1> QED BY <1>4, <1>5, <1>6, <1>7, <1>8, <1>9, <1>10 DEF IInv

LEMMA StartIInv == ASSUME IInv, NEW p \in Proc, Start(p) PROVE IInv'
<1>1. /\ TypeOK /\ pc[p] = "idle" /\ pc' = [pc EXCEPT ![p] = "output"]
      /\ archive' = archive /\ file' = file /\ manifest' = manifest /\ output' = output
  BY DEF IInv, Start, Goto, disk
<1>2. PICK plan \in Plan, mode \in Mode, op \in Op :
        call' = [q \in Proc |->
            IF q = p THEN [NoCall EXCEPT !.plan = plan, !.mode = mode, !.op = op,
                                         !.alone = \A r \in Proc \ {p} : ~Running(r)]
            ELSE [call[q] EXCEPT !.alone = @ /\ pc[q] = "idle"]]
  BY DEF Start, Mode, Op
<1>3. /\ pc'[p] = "output" /\ call'[p] \in Call /\ call'[p].valid = Nothing
      /\ call'[p].alone = \A r \in Proc \ {p} : ~Running(r)
  BY <1>1, <1>2, NothingIsPins DEF TypeOK, NoCall, Call
<1>4. \A q \in Proc \ {p} :
        /\ pc'[q] = pc[q] /\ call'[q] = [call[q] EXCEPT !.alone = call[q].alone /\ pc[q] = "idle"]
  BY <1>1, <1>2 DEF TypeOK
<1>5. \A q \in Proc \ {p} :
        /\ call'[q] \in Call
        /\ call'[q].plan = call[q].plan /\ call'[q].mode = call[q].mode
        /\ call'[q].op = call[q].op /\ call'[q].stored = call[q].stored
        /\ call'[q].valid = call[q].valid /\ call'[q].complete = call[q].complete
        /\ call'[q].todo = call[q].todo /\ call'[q].etag = call[q].etag
        /\ call'[q].records = call[q].records
        /\ call'[q].alone = (call[q].alone /\ pc[q] = "idle")
  <2> TAKE q \in Proc \ {p}
  <2>1. call[q] \in Call
    BY <1>1 DEF TypeOK
  <2> QED BY <2>1, <1>4 DEF Call
<1>6. TypeOK'
  BY <1>1, <1>2, <1>3, <1>4, <1>5 DEF TypeOK, Version
<1>7. FetchesWhatItAsked'
  BY <1>1, <1>3, <1>4, <1>5 DEF IInv, FetchesWhatItAsked, Asked, ByName
<1>8. ReadsWhatItAsked'
  BY <1>1, <1>3, <1>4, <1>5 DEF IInv, ReadsWhatItAsked, Asked, ByName
<1>9. CompleteIsComplete' /\ AreaIsWhole'
  BY <1>1, <1>3, <1>4, <1>5 DEF IInv, CompleteIsComplete, AreaIsWhole, ByName
<1>10. \A q \in Proc : call'[q].alone => pc'[q] \in {"idle", "output"}
  BY <1>3, <1>4, <1>5
<1>11. AloneIsAlone'
  BY <1>3, <1>4, <1>5 DEF AloneIsAlone, Running
<1>12. AloneKeepsPins'
  BY <1>10 DEF AloneKeepsPins
<1>13. AloneUsesEntries'
  BY <1>10 DEF AloneUsesEntries
<1> QED BY <1>6, <1>7, <1>8, <1>9, <1>11, <1>12, <1>13 DEF IInv


\* The calls a step of process p does not touch; the ones of them that are alone
\* have not begun.
LEMMA OthersWait ==
    ASSUME IInv, NEW p \in Proc, Running(p), NEW l, NEW c,
           pc' = [pc EXCEPT ![p] = l], call' = [call EXCEPT ![p] = c]
    PROVE  /\ pc'[p] = l /\ call'[p] = c
           /\ \A q \in Proc \ {p} : pc'[q] = pc[q] /\ call'[q] = call[q]
           /\ \A q \in Proc \ {p} : call'[q].alone => pc'[q] = "idle"
  BY OnlyOneIsAlone DEF IInv, TypeOK

LEMMA ServedIInv == ASSUME IInv, NEW p \in Proc, Served(p) PROVE IInv'
<1>1. /\ TypeOK /\ pc[p] = "output" /\ call[p] \in Call /\ call[p].plan \in Plan
      /\ output[call[p].plan] \in Pins \cup {None} /\ call[p].valid = Nothing /\ Running(p)
      /\ archive' = archive /\ file' = file /\ manifest' = manifest /\ output' = output
  BY DEF IInv, Served, disk, TypeOK, Call, ReadsWhatItAsked, Running
<1>2. PICK l \in {"done", "look"}, c \in {call[p], [call[p] EXCEPT !.records = output[call[p].plan]]} :
        /\ pc' = [pc EXCEPT ![p] = l] /\ call' = [call EXCEPT ![p] = c]
        /\ l = "done" => output[call[p].plan] # None
                         /\ c = [call[p] EXCEPT !.records = output[call[p].plan]]
        /\ l = "look" => c = call[p]
  <2>1. CASE call[p].op = "ensure" /\ call[p].mode # "refresh" /\ output[call[p].plan] # None
    BY <2>1 DEF Served, Goto
  <2>2. CASE ~(call[p].op = "ensure" /\ call[p].mode # "refresh" /\ output[call[p].plan] # None)
    <3>1. call = [call EXCEPT ![p] = call[p]]
      BY <1>1 DEF TypeOK
    <3> QED BY <2>2, <3>1 DEF Served, Goto
  <2> QED BY <2>1, <2>2
<1>3. /\ c \in Call /\ c.plan = call[p].plan /\ c.alone = call[p].alone /\ c.valid = Nothing
      /\ l = "done" => c.records = output[call[p].plan]
  BY <1>1, <1>2 DEF Call
<1>4. /\ pc'[p] = l /\ call'[p] = c
      /\ \A q \in Proc \ {p} : pc'[q] = pc[q] /\ call'[q] = call[q]
      /\ \A q \in Proc \ {p} : call'[q].alone => pc'[q] = "idle"
  BY <1>1, <1>2, OthersWait
<1>5. TypeOK'
  BY <1>1, <1>2, <1>3, <1>4 DEF TypeOK, Version
<1>6. FetchesWhatItAsked'
  BY <1>3, <1>4 DEF IInv, FetchesWhatItAsked, Asked, ByName
<1>7. ReadsWhatItAsked'
  BY <1>1, <1>3, <1>4 DEF IInv, ReadsWhatItAsked, Asked, ByName
<1>8. CompleteIsComplete'
  BY <1>1 DEF IInv, CompleteIsComplete
<1>9. AreaIsWhole'
  <2>1. l = "done" /\ ~ByName(p) => DOMAIN c.records = InArea
    BY <1>1, <1>2, <1>3 DEF IInv, ReadsWhatItAsked, ByName, Plan
  <2> QED BY <1>3, <1>4, <2>1 DEF IInv, AreaIsWhole, ByName
<1>10. AloneIsAlone'
  BY <1>1, <1>3, <1>4 DEF IInv, AloneIsAlone, Running
<1>11. AloneKeepsPins'
  BY <1>4 DEF AloneKeepsPins
<1>12. AloneUsesEntries'
  BY <1>3, <1>4 DEF AloneUsesEntries
<1> QED BY <1>5, <1>6, <1>7, <1>8, <1>9, <1>10, <1>11, <1>12 DEF IInv

\* A call that goes on without fetching has all the stations of its plan.
LEMMA NothingToFetch ==
    ASSUME IDFAssumption, IInv, NEW p \in Proc, ~Fetches(p)
    PROVE  Asked(p) \subseteq DOMAIN Valid(p)
<1>1. Wanted(p) = DOMAIN Valid(p) /\ (~ByName(p) => manifest.complete)
  BY DEF Fetches
<1>2. CASE ByName(p)
  BY <1>1, <1>2 DEF Asked, Wanted
<1>3. CASE ~ByName(p)
  BY <1>1, <1>3 DEF Asked, Wanted, IInv, CompleteIsComplete
<1> QED BY <1>2, <1>3

LEMMA LookIInv == ASSUME IDFAssumption, IInv, NEW p \in Proc, Look(p) PROVE IInv'
<1>1. /\ TypeOK /\ pc[p] = "look" /\ call[p] \in Call /\ Running(p)
      /\ archive' = archive /\ file' = file /\ manifest' = manifest /\ output' = output
      /\ UNCHANGED <<archive, disk>>
  BY DEF IInv, Look, disk, TypeOK, Running
<1>2. /\ Valid(p) \in Pins /\ DOMAIN Valid(p) \subseteq DOMAIN manifest.entries
      /\ \A s \in DOMAIN Valid(p) :
            Valid(p)[s] = manifest.entries[s] /\ file[s] = manifest.entries[s]
      /\ manifest.entries \in Pins /\ manifest.complete \in BOOLEAN
  BY <1>1, ValidIsPins DEF TypeOK
<1>3. CASE ~Fetches(p)
  <2> DEFINE c == [call[p] EXCEPT !.valid = Valid(p)]
  <2>1. /\ c \in Call /\ c.plan = call[p].plan /\ c.alone = call[p].alone
        /\ c.valid = Valid(p)
    BY <1>1, <1>2 DEF Call
  <2>2. pc' = [pc EXCEPT ![p] = "read"] /\ call' = [call EXCEPT ![p] = c]
    BY <1>3 DEF Look, Goto
  <2> HIDE DEF c
  <2>3. /\ pc'[p] = "read" /\ call'[p] = c
        /\ \A q \in Proc \ {p} : pc'[q] = pc[q] /\ call'[q] = call[q]
        /\ \A q \in Proc \ {p} : call'[q].alone => pc'[q] = "idle"
    BY <1>1, <2>2, OthersWait
  <2>4. Asked(p) \subseteq DOMAIN Valid(p)
    BY <1>3, NothingToFetch
  <2>5. TypeOK'
    BY <1>1, <2>1, <2>2, <2>3 DEF TypeOK, Version
  <2>6. FetchesWhatItAsked'
    BY <2>3 DEF IInv, FetchesWhatItAsked, Asked, ByName
  <2>7. ReadsWhatItAsked'
    BY <1>1, <2>1, <2>3, <2>4 DEF IInv, ReadsWhatItAsked, Asked, ByName
  <2>8. CompleteIsComplete' /\ AreaIsWhole'
    BY <1>1, <2>3 DEF IInv, CompleteIsComplete, AreaIsWhole, ByName
  <2>9. AloneIsAlone'
    BY <1>1, <2>1, <2>3 DEF IInv, AloneIsAlone, Running
  <2>10. AloneKeepsPins'
    BY <2>3 DEF AloneKeepsPins
  <2>11. AloneUsesEntries'
    BY <1>1, <1>2, <2>1, <2>3 DEF AloneUsesEntries
  <2> QED BY <2>5, <2>6, <2>7, <2>8, <2>9, <2>10, <2>11 DEF IInv
<1>4. CASE Fetches(p) /\ call[p].mode = "offline"
  BY <1>1, <1>4, RaiseIInv DEF Look
<1>5. CASE Fetches(p) /\ call[p].mode # "offline"
  <2> DEFINE c == [call[p] EXCEPT !.stored = manifest.entries, !.valid = Valid(p),
                                  !.complete = manifest.complete,
                                  !.todo = IF ByName(p) THEN {Named} ELSE Station]
  <2>1. /\ c.plan = call[p].plan /\ c.alone = call[p].alone
        /\ c.valid = Valid(p) /\ c.stored = manifest.entries
        /\ c.complete = manifest.complete /\ c.todo = Asked(p)
    BY <1>1 DEF Call, Asked
  <2>a. Asked(p) \subseteq Station
    BY DEF IDFAssumption, Asked
  <2>b. c \in Call
    BY <1>1, <1>2, <2>a DEF Call, Asked
  <2>2. pc' = [pc EXCEPT ![p] = "open"] /\ call' = [call EXCEPT ![p] = c]
    BY <1>5, <1>1 DEF Look, Goto, TypeOK
  <2> HIDE DEF c
  <2>3. /\ pc'[p] = "open" /\ call'[p] = c
        /\ \A q \in Proc \ {p} : pc'[q] = pc[q] /\ call'[q] = call[q]
        /\ \A q \in Proc \ {p} : call'[q].alone => pc'[q] = "idle"
    BY <1>1, <2>2, OthersWait
  <2>5. TypeOK'
    BY <1>1, <2>b, <2>2, <2>3 DEF TypeOK, Version
  <2>6. FetchesWhatItAsked'
    <3>1. c.complete => DOMAIN c.stored = Station
      BY <2>1 DEF IInv, CompleteIsComplete
    <3>2. Asked(p)' = Asked(p)
      BY <2>1, <2>3 DEF Asked, ByName
    <3> QED BY <2>1, <2>3, <3>1, <3>2 DEF IInv, FetchesWhatItAsked, Asked, ByName
  <2>7. ReadsWhatItAsked'
    BY <1>1, <2>1, <2>3 DEF IInv, ReadsWhatItAsked, Asked, ByName
  <2>8. CompleteIsComplete' /\ AreaIsWhole'
    BY <1>1, <2>3 DEF IInv, CompleteIsComplete, AreaIsWhole, ByName
  <2>9. AloneIsAlone'
    BY <1>1, <2>1, <2>3 DEF IInv, AloneIsAlone, Running
  <2>10. AloneKeepsPins'
    BY <1>1, <2>1, <2>3 DEF AloneKeepsPins
  <2>11. AloneUsesEntries'
    BY <1>1, <1>2, <2>1, <2>3 DEF AloneUsesEntries
  <2> QED BY <2>5, <2>6, <2>7, <2>8, <2>9, <2>10, <2>11 DEF IInv
<1> QED BY <1>3, <1>4, <1>5


LEMMA OpenIInv == ASSUME IInv, NEW p \in Proc, Open(p) PROVE IInv'
<1> DEFINE c == [call[p] EXCEPT !.etag = archive]
<1>1. /\ TypeOK /\ pc[p] = "open" /\ call[p] \in Call /\ Running(p) /\ archive \in Version
      /\ archive' = archive /\ file' = file /\ manifest' = manifest /\ output' = output
  BY DEF IInv, Open, disk, TypeOK, Running
<1>2. /\ c \in Call /\ c.plan = call[p].plan /\ c.alone = call[p].alone /\ c.etag = archive
      /\ c.valid = call[p].valid /\ c.stored = call[p].stored /\ c.todo = call[p].todo
      /\ c.complete = call[p].complete
  BY <1>1 DEF Call
<1>3. pc' = [pc EXCEPT ![p] = "fetch"] /\ call' = [call EXCEPT ![p] = c]
  BY <1>1 DEF Open, Goto, TypeOK
<1> HIDE DEF c
<1>4. /\ pc'[p] = "fetch" /\ call'[p] = c
      /\ \A q \in Proc \ {p} : pc'[q] = pc[q] /\ call'[q] = call[q]
      /\ \A q \in Proc \ {p} : call'[q].alone => pc'[q] = "idle"
  BY <1>1, <1>3, OthersWait
<1>5. TypeOK'
  BY <1>1, <1>2, <1>3, <1>4 DEF TypeOK, Version
<1>6. FetchesWhatItAsked'
  BY <1>1, <1>2, <1>4 DEF IInv, FetchesWhatItAsked, Asked, ByName
<1>7. ReadsWhatItAsked'
  BY <1>1, <1>2, <1>4 DEF IInv, ReadsWhatItAsked, Asked, ByName
<1>8. CompleteIsComplete' /\ AreaIsWhole'
  BY <1>1, <1>4 DEF IInv, CompleteIsComplete, AreaIsWhole, ByName
<1>9. AloneIsAlone'
  BY <1>1, <1>2, <1>4 DEF IInv, AloneIsAlone, Running
<1>10. AloneKeepsPins'
  BY <1>1, <1>2, <1>4 DEF IInv, AloneKeepsPins
<1>11. AloneUsesEntries'
  BY <1>1, <1>2, <1>4 DEF IInv, AloneUsesEntries
<1> QED BY <1>5, <1>6, <1>7, <1>8, <1>9, <1>10, <1>11 DEF IInv

\* A fetch that is alone and agrees with the entries it read agrees with the ones
\* that are pinned.
LEMMA FetchIInv == ASSUME IInv, NEW p \in Proc, Fetch(p) PROVE IInv'
<1> DEFINE s == CHOOSE t \in call[p].todo : TRUE
           v == call[p].etag
           c == [call[p] EXCEPT !.todo = call[p].todo \ {s},
                                !.stored = With(call[p].stored, s, v),
                                !.valid = With(call[p].valid, s, v)]
<1>1. /\ TypeOK /\ pc[p] = "fetch" /\ call[p] \in Call /\ Running(p)
      /\ archive' = archive /\ manifest' = manifest /\ output' = output
      /\ s \in call[p].todo /\ s \in Station /\ v \in Version
      /\ call[p].stored \in Pins /\ call[p].valid \in Pins
  BY DEF IInv, Fetch, TypeOK, Call, Running
<1>2. CASE ~SamePin(p, s)
  BY <1>2, RaiseIInv DEF Fetch, disk
<1>3. CASE SamePin(p, s)
  <2>1. /\ file' = [file EXCEPT ![s] = v] /\ call' = [call EXCEPT ![p] = c] /\ pc' = pc
    BY <1>1, <1>3 DEF Fetch, TypeOK
  <2>5. s \in DOMAIN call[p].stored => call[p].stored[s] = v
    BY <1>3 DEF SamePin
  <2> HIDE DEF s, v
  <2>2. /\ With(call[p].stored, s, v) \in Pins
        /\ DOMAIN With(call[p].stored, s, v) = DOMAIN call[p].stored \cup {s}
        /\ With(call[p].stored, s, v)[s] = v
        /\ \A t \in DOMAIN call[p].stored \ {s} :
              With(call[p].stored, s, v)[t] = call[p].stored[t]
    BY <1>1, WithIsPins
  <2>3. /\ With(call[p].valid, s, v) \in Pins
        /\ DOMAIN With(call[p].valid, s, v) = DOMAIN call[p].valid \cup {s}
        /\ With(call[p].valid, s, v)[s] = v
        /\ \A t \in DOMAIN call[p].valid \ {s} :
              With(call[p].valid, s, v)[t] = call[p].valid[t]
    BY <1>1, WithIsPins
  <2>4. /\ c \in Call /\ c.plan = call[p].plan /\ c.alone = call[p].alone /\ c.etag = v
        /\ c.valid = With(call[p].valid, s, v) /\ c.stored = With(call[p].stored, s, v)
        /\ c.todo = call[p].todo \ {s} /\ c.complete = call[p].complete
    BY <1>1, <2>2, <2>3 DEF Call, v
  <2>a. DOMAIN call[p].stored \subseteq Station
    BY <1>1, PinsAreFunctions
  <2> HIDE DEF c
  <2>6. pc' = [pc EXCEPT ![p] = "fetch"]
    BY <1>1, <2>1 DEF TypeOK
  <2>7. /\ pc'[p] = "fetch" /\ call'[p] = c
        /\ \A q \in Proc \ {p} : pc'[q] = pc[q] /\ call'[q] = call[q]
        /\ \A q \in Proc \ {p} : call'[q].alone => pc'[q] = "idle"
    BY <1>1, <2>1, <2>6, OthersWait
  <2>8. file'[s] = v /\ \A t \in Station \ {s} : file'[t] = file[t]
    BY <1>1, <2>1 DEF TypeOK
  <2>9. TypeOK'
    BY <1>1, <2>1, <2>4, <2>7 DEF TypeOK, Version
  <2>10. FetchesWhatItAsked'
    <3>1. Asked(p)' = Asked(p)
      BY <2>4, <2>7 DEF Asked, ByName
    <3>2. /\ c.complete => DOMAIN c.stored = Station
          /\ Asked(p) \ c.todo \subseteq DOMAIN c.stored \cap DOMAIN c.valid
      <4>1. /\ call[p].complete => DOMAIN call[p].stored = Station
            /\ Asked(p) \ call[p].todo \subseteq DOMAIN call[p].stored \cap DOMAIN call[p].valid
        BY <1>1 DEF IInv, FetchesWhatItAsked
      <4> QED BY <1>1, <2>2, <2>3, <2>4, <4>1
    <3> QED BY <2>7, <3>1, <3>2 DEF IInv, FetchesWhatItAsked, Asked, ByName
  <2>11. ReadsWhatItAsked'
    BY <1>1, <2>4, <2>7 DEF IInv, ReadsWhatItAsked, Asked, ByName
  <2>12. CompleteIsComplete' /\ AreaIsWhole'
    BY <1>1, <2>7 DEF IInv, CompleteIsComplete, AreaIsWhole, ByName
  <2>13. AloneIsAlone'
    BY <1>1, <2>4, <2>7 DEF IInv, AloneIsAlone, Running
  <2>14. ASSUME call[p].alone, NEW t \in DOMAIN manifest.entries
         PROVE  t \in DOMAIN c.stored /\ c.stored[t] = manifest.entries[t]
    <3>1. t \in DOMAIN call[p].stored /\ call[p].stored[t] = manifest.entries[t]
      BY <1>1, <2>14 DEF IInv, AloneKeepsPins
    <3> QED BY <2>2, <2>4, <2>5, <3>1
  <2>15. AloneKeepsPins'
    BY <1>1, <2>4, <2>7, <2>14 DEF AloneKeepsPins
  <2>16. ASSUME call[p].alone, NEW t \in DOMAIN c.valid
         PROVE  /\ t \in DOMAIN c.stored /\ c.stored[t] = c.valid[t]
                /\ file'[t] = c.valid[t]
    <3>1. CASE t = s
      BY <2>2, <2>3, <2>4, <2>8, <3>1
    <3>2. CASE t # s
      <4>1. t \in DOMAIN call[p].valid
        BY <2>3, <2>4, <2>16, <3>2
      <4>2. /\ t \in DOMAIN call[p].stored /\ call[p].stored[t] = call[p].valid[t]
            /\ file[t] = call[p].valid[t]
        BY <1>1, <2>16, <4>1 DEF IInv, AloneUsesEntries
      <4> QED BY <2>2, <2>3, <2>4, <2>8, <2>a, <3>2, <4>1, <4>2
    <3> QED BY <3>1, <3>2
  <2>17. AloneUsesEntries'
    BY <1>1, <2>4, <2>7, <2>16 DEF AloneUsesEntries
  <2> QED BY <2>9, <2>10, <2>11, <2>12, <2>13, <2>15, <2>17 DEF IInv
<1> QED BY <1>2, <1>3

LEMMA WriteManifestIInv == ASSUME IInv, NEW p \in Proc, WriteManifest(p) PROVE IInv'
<1> DEFINE c == [call[p] EXCEPT !.stored = Nothing, !.etag = None, !.complete = FALSE]
<1>1. /\ TypeOK /\ pc[p] = "fetch" /\ call[p] \in Call /\ Running(p) /\ call[p].todo = {}
      /\ archive' = archive /\ file' = file /\ output' = output
      /\ manifest' = [entries |-> call[p].stored, complete |-> call[p].complete \/ ~ByName(p)]
  BY DEF IInv, WriteManifest, TypeOK, Running
<1>2. /\ c \in Call /\ c.plan = call[p].plan /\ c.alone = call[p].alone
      /\ c.valid = call[p].valid
  BY <1>1, NothingIsPins DEF Call
<1>3. pc' = [pc EXCEPT ![p] = "read"] /\ call' = [call EXCEPT ![p] = c]
  BY <1>1 DEF WriteManifest, Forgets, Goto, TypeOK
<1> HIDE DEF c
<1>4. /\ pc'[p] = "read" /\ call'[p] = c
      /\ \A q \in Proc \ {p} : pc'[q] = pc[q] /\ call'[q] = call[q]
      /\ \A q \in Proc \ {p} : call'[q].alone => pc'[q] = "idle"
  BY <1>1, <1>3, OthersWait
<1>5. manifest'.entries = call[p].stored /\ manifest' \in [entries : Pins, complete : BOOLEAN]
  BY <1>1 DEF Call
<1>6. TypeOK'
  BY <1>1, <1>2, <1>3, <1>4, <1>5 DEF TypeOK, Version
<1>7. Asked(p) \subseteq DOMAIN call[p].stored \cap DOMAIN call[p].valid
      /\ (call[p].complete => DOMAIN call[p].stored = Station)
  BY <1>1 DEF IInv, FetchesWhatItAsked
<1>8. FetchesWhatItAsked'
  BY <1>4 DEF IInv, FetchesWhatItAsked, Asked, ByName
<1>9. ReadsWhatItAsked'
  BY <1>1, <1>2, <1>4, <1>7 DEF IInv, ReadsWhatItAsked, Asked, ByName
<1>10. CompleteIsComplete'
  <2>1. DOMAIN call[p].stored \subseteq Station
    BY <1>1, PinsAreFunctions DEF Call
  <2> QED BY <1>1, <1>7, <2>1 DEF CompleteIsComplete, Asked
<1>11. AreaIsWhole'
  BY <1>1, <1>4 DEF IInv, AreaIsWhole, ByName
<1>12. AloneIsAlone'
  BY <1>1, <1>2, <1>4 DEF IInv, AloneIsAlone, Running
<1>13. AloneKeepsPins'
  BY <1>4 DEF AloneKeepsPins
<1>14. AloneUsesEntries'
  BY <1>1, <1>2, <1>4, <1>5 DEF IInv, AloneUsesEntries
<1> QED BY <1>6, <1>8, <1>9, <1>10, <1>11, <1>12, <1>13, <1>14 DEF IInv


LEMMA ReadIInv == ASSUME IDFAssumption, IInv, NEW p \in Proc, Read(p) PROVE IInv'
<1>1. /\ TypeOK /\ pc[p] = "read" /\ call[p] \in Call /\ Running(p)
      /\ archive' = archive /\ file' = file /\ manifest' = manifest /\ output' = output
      /\ UNCHANGED <<archive, disk>> /\ file \in [Station -> Version \cup {None}]
      /\ Asked(p) \subseteq DOMAIN call[p].valid /\ call[p].valid \in Pins
  BY DEF IInv, Read, disk, TypeOK, Call, ReadsWhatItAsked, Running
<1>2. CASE DOMAIN Records(p) = {} \/ \E s \in DOMAIN Records(p) : Records(p)[s] = None
  BY <1>1, <1>2, RaiseIInv DEF Read
<1>3. CASE ~(DOMAIN Records(p) = {} \/ \E s \in DOMAIN Records(p) : Records(p)[s] = None)
  <2> DEFINE c == [call[p] EXCEPT !.records = Records(p)]
  <2>1. /\ DOMAIN call[p].valid \subseteq Station /\ DOMAIN Records(p) \subseteq Station
        /\ DOMAIN Records(p) \subseteq DOMAIN call[p].valid
        /\ ~ByName(p) => DOMAIN Records(p) = InArea
        /\ \A s \in DOMAIN Records(p) : Records(p)[s] = file[s]
    <3>1. DOMAIN call[p].valid \subseteq Station
      BY <1>1, PinsAreFunctions
    <3> QED BY <1>1, <3>1 DEF Records, Asked, IDFAssumption
  <2>2. Records(p) \in Pins
    <3>1. Records(p) = [s \in DOMAIN Records(p) |-> file[s]]
      BY DEF Records
    <3>2. \A s \in DOMAIN Records(p) : file[s] \in Version
      BY <1>1, <1>3, <2>1
    <3>3. Records(p) \in [DOMAIN Records(p) -> Version]
      BY <3>1, <3>2
    <3> QED BY <2>1, <3>3, PinsAreFunctions
  <2>3. PICK l \in {"fit", "done"} :
          pc' = [pc EXCEPT ![p] = l] /\ call' = [call EXCEPT ![p] = c]
    BY <1>3, <1>1 DEF Read, Goto, TypeOK
  <2>4. /\ c \in Call /\ c.plan = call[p].plan /\ c.alone = call[p].alone
        /\ c.valid = call[p].valid /\ c.records = Records(p)
    BY <1>1, <2>2 DEF Call
  <2> HIDE DEF c
  <2>5. /\ pc'[p] = l /\ call'[p] = c
        /\ \A q \in Proc \ {p} : pc'[q] = pc[q] /\ call'[q] = call[q]
        /\ \A q \in Proc \ {p} : call'[q].alone => pc'[q] = "idle"
    BY <1>1, <2>3, OthersWait
  <2>6. TypeOK'
    BY <1>1, <2>3, <2>4, <2>5 DEF TypeOK, Version
  <2>7. FetchesWhatItAsked'
    BY <2>5 DEF IInv, FetchesWhatItAsked, Asked, ByName
  <2>8. ReadsWhatItAsked'
    BY <1>1, <2>1, <2>4, <2>5 DEF IInv, ReadsWhatItAsked, Asked, ByName
  <2>9. CompleteIsComplete' /\ AreaIsWhole'
    BY <1>1, <2>1, <2>4, <2>5 DEF IInv, CompleteIsComplete, AreaIsWhole, ByName
  <2>10. AloneIsAlone'
    BY <1>1, <2>4, <2>5 DEF IInv, AloneIsAlone, Running
  <2>11. AloneKeepsPins'
    BY <2>5 DEF AloneKeepsPins
  <2>12. call[p].alone => \A s \in DOMAIN call[p].valid :
            manifest.entries[s] = call[p].valid[s] /\ file[s] = call[p].valid[s]
    BY <1>1 DEF IInv, AloneUsesEntries
  <2>13. call[p].alone => \A s \in DOMAIN Records(p) :
            Records(p)[s] = call[p].valid[s] /\ manifest.entries[s] = call[p].valid[s]
    BY <2>1, <2>12
  <2>14. AloneUsesEntries'
    BY <1>1, <2>4, <2>5, <2>13 DEF AloneUsesEntries
  <2> QED BY <2>6, <2>7, <2>8, <2>9, <2>10, <2>11, <2>14 DEF IInv
<1> QED BY <1>2, <1>3

LEMMA MaterializeIInv == ASSUME IInv, NEW p \in Proc, Materialize(p) PROVE IInv'
<1>1. /\ TypeOK /\ pc[p] = "fit" /\ call[p] \in Call /\ Running(p)
      /\ archive' = archive /\ file' = file /\ manifest' = manifest /\ call' = call
      /\ output' = [output EXCEPT ![call[p].plan] = call[p].records]
      /\ pc' = [pc EXCEPT ![p] = "done"] /\ call[p].records \in Pins /\ call[p].plan \in Plan
  BY DEF IInv, Materialize, Goto, TypeOK, Call, Running
<1>2. call' = [call EXCEPT ![p] = call[p]]
  BY <1>1 DEF TypeOK
<1>3. /\ pc'[p] = "done"
      /\ \A q \in Proc \ {p} : pc'[q] = pc[q]
      /\ \A q \in Proc \ {p} : call'[q].alone => pc'[q] = "idle"
  BY <1>1, <1>2, OthersWait
<1>4. TypeOK'
  BY <1>1, <1>3 DEF TypeOK, Version
<1>5. ~ByName(p) => DOMAIN call[p].records = InArea
  BY <1>1 DEF IInv, ReadsWhatItAsked
<1>6. FetchesWhatItAsked'
  BY <1>1, <1>3 DEF IInv, FetchesWhatItAsked, Asked, ByName
<1>7. ReadsWhatItAsked'
  <2>1. output'["area"] # None => DOMAIN output'["area"] = InArea
    BY <1>1, <1>5 DEF IInv, ReadsWhatItAsked, ByName, TypeOK, Plan
  <2> QED BY <1>1, <1>3, <2>1 DEF IInv, ReadsWhatItAsked, Asked, ByName
<1>8. CompleteIsComplete' /\ AreaIsWhole'
  BY <1>1, <1>3, <1>5 DEF IInv, CompleteIsComplete, AreaIsWhole, ByName
<1>9. AloneIsAlone'
  BY <1>1, <1>3 DEF IInv, AloneIsAlone, Running
<1>10. AloneKeepsPins'
  BY <1>1, <1>3 DEF AloneKeepsPins
<1>11. AloneUsesEntries'
  BY <1>1, <1>3 DEF IInv, AloneUsesEntries
<1> QED BY <1>4, <1>6, <1>7, <1>8, <1>9, <1>10, <1>11 DEF IInv

\* A file is removed while no call runs: the calls that returned were not alone then.
LEMMA LoseIInv == ASSUME IInv, Lose PROVE IInv'
<1>1. /\ TypeOK /\ archive' = archive /\ manifest' = manifest /\ output' = output /\ pc' = pc
      /\ \A p \in Proc : pc[p] \in {"idle", "done"}
      /\ call' = [p \in Proc |-> [call[p] EXCEPT !.alone = @ /\ pc[p] = "idle"]]
  BY DEF IInv, Lose, Running
<1>2. PICK s \in Station : file' = [file EXCEPT ![s] = None]
  BY DEF Lose
<1>3. \A p \in Proc :
        /\ call'[p] \in Call
        /\ call'[p].plan = call[p].plan /\ call'[p].valid = call[p].valid
        /\ call'[p].records = call[p].records
        /\ call'[p].alone => pc'[p] = "idle"
  <2> TAKE p \in Proc
  <2>1. call[p] \in Call /\ call'[p] = [call[p] EXCEPT !.alone = call[p].alone /\ pc[p] = "idle"]
    BY <1>1 DEF TypeOK
  <2> QED BY <1>1, <2>1 DEF Call
<1>4. TypeOK'
  <2>1. file' \in [Station -> Version \cup {None}]
    BY <1>1, <1>2 DEF TypeOK
  <2>2. \A p \in Proc : pc[p] # "fetch"
    BY <1>1
  <2>3. call' \in [Proc -> Call]
    BY <1>1, <1>3
  <2> QED BY <1>1, <2>1, <2>2, <2>3 DEF TypeOK, Version
<1>5. FetchesWhatItAsked' /\ ReadsWhatItAsked'
  BY <1>1, <1>3 DEF IInv, FetchesWhatItAsked, ReadsWhatItAsked, Asked, ByName
<1>6. CompleteIsComplete' /\ AreaIsWhole'
  BY <1>1, <1>3 DEF IInv, CompleteIsComplete, AreaIsWhole, ByName
<1>7. AloneIsAlone' /\ AloneKeepsPins' /\ AloneUsesEntries'
  BY <1>3 DEF AloneIsAlone, AloneKeepsPins, AloneUsesEntries
<1> QED BY <1>4, <1>5, <1>6, <1>7 DEF IInv

\* The archive changes, or nothing does.
LEMMA RepublishIInv == ASSUME IInv, Republish \/ UNCHANGED vars, IDFAssumption PROVE IInv'
<1>1. /\ file' = file /\ manifest' = manifest /\ output' = output /\ pc' = pc /\ call' = call
      /\ archive' \in Version
  BY DEF Republish, vars, disk, IInv, TypeOK, Version, IDFAssumption
<1> QED
  BY <1>1
  DEF IInv, TypeOK, Version, FetchesWhatItAsked, ReadsWhatItAsked, CompleteIsComplete,
      AreaIsWhole, AloneIsAlone, AloneKeepsPins, AloneUsesEntries, Asked, ByName, Running

LEMMA NextIInv == ASSUME IDFAssumption, IInv, [Next]_vars PROVE IInv'
<1>1. ASSUME NEW p \in Proc, Start(p) PROVE IInv'
  BY <1>1, StartIInv
<1>2. ASSUME NEW p \in Proc, Step(p) PROVE IInv'
  BY <1>2, ServedIInv, LookIInv, OpenIInv, FetchIInv, WriteManifestIInv, ReadIInv,
     MaterializeIInv, RaiseIInv DEF Step, Fails
<1>3. ASSUME NEW p \in Proc, Return(p) PROVE IInv'
  BY <1>3, RaiseIInv DEF Return
<1> QED BY <1>1, <1>2, <1>3, LoseIInv, RepublishIInv DEF Next

\* The inductive invariant of the rainfall cache.
THEOREM Invariance == Spec => []IInv
<1>1. Init => IInv
  BY InitIInv, IDFAssumption
<1>2. IInv /\ [Next]_vars => IInv'
  BY NextIInv, IDFAssumption
<1> QED BY <1>1, <1>2, PTL DEF Spec

\* Of the rainfall cache: a province said to be complete has all its stations
\* (CompleteIsComplete), so that no call for an area misses one (AreaIsWhole),
\* though the manifest is written without a lock by any number of processes; and
\* a call that had the directory to itself used the pinned bytes.
THEOREM StationsStayWhole == Spec => []StationsAreWhole
<1>1. ASSUME IInv PROVE StationsAreWhole
  <2>1. CompleteIsComplete /\ AreaIsWhole
    BY <1>1 DEF IInv
  <2>2. RecordsAreTheEntries
    BY <1>1 DEF IInv, AloneUsesEntries, RecordsAreTheEntries
  <2> QED BY <2>1, <2>2 DEF StationsAreWhole
<1> QED BY <1>1, Invariance, PTL

\* A step changes a pin only where it writes what a call fetched next to another.
LEMMA StepKeepsPins ==
    ASSUME IInv, Next
    PROVE  \A s \in DOMAIN manifest.entries \cap DOMAIN manifest'.entries :
              manifest'.entries[s] # manifest.entries[s] =>
                  \E p \in Proc : pc[p] = "fetch" /\ ~call[p].alone
<1>1. ASSUME NEW p \in Proc, WriteManifest(p), call[p].alone,
             NEW s \in DOMAIN manifest.entries
      PROVE  manifest'.entries[s] = manifest.entries[s]
  BY <1>1 DEF WriteManifest, IInv, AloneKeepsPins
<1>2. ASSUME NEW p \in Proc, WriteManifest(p) PROVE pc[p] = "fetch"
  BY <1>2 DEF WriteManifest
<1>3. ASSUME \A p \in Proc : ~WriteManifest(p) PROVE manifest' = manifest
  BY <1>3
  DEF Next, Step, Start, Served, Look, Open, Fetch, Read, Materialize, Fails, Return, Lose,
      Republish, disk
<1> QED BY <1>1, <1>2, <1>3

\* The pinned bytes of a station are replaced only by a call that overlapped another.
THEOREM PinnedBytesAreKept == Spec => PinsAreKept
<1>1. IInv /\ [Next]_vars =>
        [\A s \in DOMAIN manifest.entries \cap DOMAIN manifest'.entries :
            manifest'.entries[s] # manifest.entries[s] =>
                \E p \in Proc : pc[p] = "fetch" /\ ~call[p].alone]_vars
  BY StepKeepsPins
<1> QED BY <1>1, Invariance, PTL DEF Spec, PinsAreKept


(***************************************************************************)
(* CRC Open: data.                                                         *)
(***************************************************************************)

LEMMA ReleaseData ==
    ASSUME O!CRCOpenAssumption
    PROVE  /\ None \notin O!Version /\ None \notin O!Manifest /\ 1 \in O!Version
           /\ O!NoResources \in [Part -> {None}]
           /\ \A m \in O!Manifest : m.pin \in O!Version /\ m.resources \in [Part -> O!Version \cup {None}]
           /\ \A v \in O!Version : [q \in Part |-> v] \in [Part -> O!Version]
<1>1. None \notin O!Version /\ 1 \in O!Version
  BY DEF O!CRCOpenAssumption, O!Version
<1>2. O!NoResources \in [Part -> {None}]
  BY DEF O!NoResources
<1>3. O!Manifest \subseteq [pin : Nat, resources : [Part -> Nat \cup {None}]]
  BY <1>2 DEF O!Manifest, O!Version, O!NoResources
<1>4. None \notin O!Manifest
  BY <1>3 DEF O!CRCOpenAssumption
<1>5. \A m \in O!Manifest : m.pin \in O!Version /\ m.resources \in [Part -> O!Version \cup {None}]
  BY DEF O!Manifest
<1> QED BY <1>1, <1>2, <1>4, <1>5

\* Two manifests of CRC Open: one of a pin, and one that lists its partitions.
LEMMA ManifestIsManifest ==
    ASSUME NEW v \in O!Version, NEW m \in O!Manifest
    PROVE  /\ [pin |-> v, resources |-> O!NoResources] \in O!Manifest
           /\ [pin |-> v, resources |-> m.resources] \in O!Manifest
           /\ [m EXCEPT !.resources = [q \in Part |-> v]] \in O!Manifest
  BY DEF O!Manifest, O!NoResources

LEMMA NoOpenCall == O!NoCall \in O!Call
  BY DEF O!NoCall, O!Call, O!Mode, O!Op

LEMMA OpenRigid == UNCHANGED <<O!Version, O!Manifest, O!Call, O!Label>>
  BY DEF O!Version, O!Manifest, O!Call, O!Label, O!NoResources, O!Mode, O!Op

LEMMA OpenInit == ASSUME O!CRCOpenAssumption, O!Init PROVE O!IInv
<1>1. O!TypeOK
  BY ReleaseData, NoOpenCall DEF O!Init, O!TypeOK, O!Label
<1>2. /\ oManifest = None /\ \A q \in Part : oPart[q] = None
      /\ \A p \in Proc : oPc[p] = "idle" /\ oCall[p].read = None
  BY DEF O!Init, O!NoCall
<1>3. O!NothingIsPinnedYet /\ O!CallsHaveWhatTheyUse /\ O!FirstCallIsOne /\ O!CallsAreOfThePin
  BY <1>2
  DEF O!NothingIsPinnedYet, O!CallsHaveWhatTheyUse, O!FirstCallIsOne, O!CallsAreOfThePin,
      O!Unpinned, O!Pinning, O!Pinned
<1>4. O!OneRelease /\ O!AloneIsAlone /\ O!AloneIsOfThePin /\ O!AloneHasItsParts
  BY <1>2
  DEF O!OneRelease, O!AloneIsAlone, O!AloneIsOfThePin, O!AloneHasItsParts, O!Pinning, O!Pinned
<1> QED BY <1>1, <1>3, <1>4 DEF O!IInv

\* A call that fails or returns leaves nothing behind.
LEMMA OpenRaise ==
    ASSUME O!IInv, NEW p \in Proc, O!Raise(p), UNCHANGED <<oReleased, oCatalog, oManifest, oPart>>,
           UNCHANGED <<oOutput, oRaced>>,
           \/ oReceipt' = oReceipt
           \/ O!Running(p) /\ oReceipt' = FALSE
    PROVE  O!IInv'
<1>1. /\ O!TypeOK /\ oPc' = [oPc EXCEPT ![p] = "idle"]
      /\ oCall' = [oCall EXCEPT ![p] = O!NoCall]
      /\ oReleased' = oReleased /\ oCatalog' = oCatalog /\ oManifest' = oManifest
      /\ oPart' = oPart /\ oOutput' = oOutput /\ oRaced' = oRaced
      /\ oReceipt \in BOOLEAN
  BY DEF O!IInv, O!Raise, O!Goto, O!TypeOK
<1>2. oPc'[p] = "idle" /\ oCall'[p] = O!NoCall /\ O!NoCall \in O!Call /\ O!NoCall.read = None
  BY <1>1, NoOpenCall DEF O!TypeOK, O!NoCall
<1>3. \A q \in Proc \ {p} : oPc'[q] = oPc[q] /\ oCall'[q] = oCall[q]
  BY <1>1 DEF O!TypeOK
<1>4. O!TypeOK'
  <2>1. /\ oReleased' \in O!Version /\ oCatalog' \in O!Version \cup {None}
    BY <1>1, <1>2, <1>3 DEF O!TypeOK
  <2>2. oManifest' \in O!Manifest \cup {None} /\ oPart' \in [Part -> O!Version \cup {None}]
    BY <1>1, <1>2, <1>3 DEF O!TypeOK
  <2>3. oOutput' \in O!Version \cup {None} /\ oRaced' \in BOOLEAN
    BY <1>1 DEF O!TypeOK
  <2>5. oReceipt' \in BOOLEAN /\ (oReceipt' => oReceipt)
    <3>1. CASE oReceipt' = oReceipt
      BY <1>1, <3>1
    <3>2. CASE oReceipt' = FALSE
      BY <3>2
    <3> QED BY <3>1, <3>2
  <2>6. oReceipt' => oOutput' # None
    BY <1>1, <2>5 DEF O!TypeOK
  <2>4. oPc' \in [Proc -> O!Label] /\ oCall' \in [Proc -> O!Call]
    BY <1>1, <1>2, <1>3 DEF O!TypeOK, O!Label
  <2> QED BY <2>1, <2>2, <2>3, <2>4, <2>5, <2>6, OpenRigid DEF O!TypeOK
<1>5. O!NothingIsPinnedYet' /\ O!CallsHaveWhatTheyUse'
  BY <1>1, <1>2, <1>3
  DEF O!IInv, O!NothingIsPinnedYet, O!CallsHaveWhatTheyUse, O!Pinned, O!Version
<1>6. O!FirstCallIsOne' /\ O!CallsAreOfThePin'
  BY <1>1, <1>2, <1>3
  DEF O!IInv, O!FirstCallIsOne, O!CallsAreOfThePin, O!Unpinned, O!Pinning, O!Pinned
<1>7. O!OneRelease'
  BY <1>1 DEF O!IInv, O!OneRelease
<1>8. O!AloneIsAlone' /\ O!AloneIsOfThePin'
  BY <1>1, <1>2, <1>3
  DEF O!IInv, O!AloneIsAlone, O!AloneIsOfThePin, O!Running, O!Pinning, O!Pinned
<1>9. O!AloneHasItsParts'
  <2>1. \A q \in Proc \ {p} : oCall[q].alone /\ oPc[q] = "done" => oReceipt' = oReceipt
    BY <1>1 DEF O!IInv, O!AloneIsAlone
  <2> QED
    BY <1>1, <1>2, <1>3, <2>1 DEF O!IInv, O!AloneHasItsParts, O!Pinned
<1> QED BY <1>4, <1>5, <1>6, <1>7, <1>8, <1>9 DEF O!IInv


LEMMA OpenStart == ASSUME O!IInv, NEW p \in Proc, O!Start(p) PROVE O!IInv'
<1>1. /\ O!TypeOK /\ oPc[p] = "idle" /\ oPc' = [oPc EXCEPT ![p] = "pin"]
      /\ oReleased' = oReleased /\ oCatalog' = oCatalog /\ oManifest' = oManifest
      /\ oPart' = oPart /\ oOutput' = oOutput /\ oReceipt' = oReceipt /\ oRaced' = oRaced
  BY DEF O!IInv, O!Start, O!Goto, O!disk
<1>2. PICK mode \in O!Mode, op \in O!Op :
        oCall' = [q \in Proc |->
            IF q = p THEN [O!NoCall EXCEPT !.mode = mode, !.op = op,
                                           !.alone = \A r \in Proc \ {p} : ~O!Running(r)]
            ELSE [oCall[q] EXCEPT !.alone = FALSE]]
  BY DEF O!Start, O!Op
<1>3. /\ oPc'[p] = "pin" /\ oCall'[p] \in O!Call /\ oCall'[p].read = None
      /\ oCall'[p].alone => \A r \in Proc \ {p} : ~O!Running(r)
  BY <1>1, <1>2 DEF O!TypeOK, O!NoCall, O!Call
<1>4. \A q \in Proc \ {p} :
        /\ oPc'[q] = oPc[q] /\ oCall'[q] \in O!Call /\ ~oCall'[q].alone
        /\ oCall'[q].version = oCall[q].version /\ oCall'[q].read = oCall[q].read
  <2> TAKE q \in Proc \ {p}
  <2>1. oCall[q] \in O!Call /\ oCall'[q] = [oCall[q] EXCEPT !.alone = FALSE]
        /\ oPc'[q] = oPc[q]
    BY <1>1, <1>2 DEF O!TypeOK
  <2> QED BY <2>1 DEF O!Call
<1>5. O!TypeOK'
  <2>1. oPc' \in [Proc -> O!Label]
    BY <1>1 DEF O!TypeOK, O!Label
  <2>2. oCall' \in [Proc -> O!Call]
    BY <1>2, <1>3, <1>4
  <2> QED BY <1>1, <2>1, <2>2, OpenRigid DEF O!TypeOK
<1>6. O!NothingIsPinnedYet' /\ O!CallsHaveWhatTheyUse'
  BY <1>1, <1>3, <1>4
  DEF O!IInv, O!NothingIsPinnedYet, O!CallsHaveWhatTheyUse, O!Pinned, O!Version
<1>7. O!FirstCallIsOne' /\ O!CallsAreOfThePin'
  BY <1>1, <1>3, <1>4
  DEF O!IInv, O!FirstCallIsOne, O!CallsAreOfThePin, O!Unpinned, O!Pinning, O!Pinned
<1>8. O!OneRelease'
  BY <1>1 DEF O!IInv, O!OneRelease
<1>9. O!AloneIsAlone' /\ O!AloneIsOfThePin' /\ O!AloneHasItsParts'
  BY <1>1, <1>3, <1>4
  DEF O!AloneIsAlone, O!AloneIsOfThePin, O!AloneHasItsParts, O!Running, O!Pinning, O!Pinned
<1> QED BY <1>5, <1>6, <1>7, <1>8, <1>9 DEF O!IInv

\* The calls a step of process p does not touch; the ones of them that are alone
\* have not begun.
LEMMA OpenOthersWait ==
    ASSUME O!IInv, NEW p \in Proc, O!Running(p), NEW l, NEW c,
           oPc' = [oPc EXCEPT ![p] = l], oCall' = [oCall EXCEPT ![p] = c]
    PROVE  /\ oPc'[p] = l /\ oCall'[p] = c
           /\ \A q \in Proc \ {p} : oPc'[q] = oPc[q] /\ oCall'[q] = oCall[q]
           /\ \A q \in Proc \ {p} : oCall'[q].alone => oPc'[q] = "idle"
           /\ c \in O!Call /\ l \in O!Label =>
                oCall' \in [Proc -> O!Call] /\ oPc' \in [Proc -> O!Label]
  BY DEF O!IInv, O!TypeOK, O!AloneIsAlone

LEMMA OpenPin == ASSUME O!CRCOpenAssumption, O!IInv, NEW p \in Proc, O!Pin(p) PROVE O!IInv'
<1> DEFINE cached == oManifest # None /\ oCatalog = oManifest.pin
<1>1. /\ O!TypeOK /\ oPc[p] = "pin" /\ oCall[p] \in O!Call /\ O!Running(p)
      /\ oReleased' = oReleased /\ oCatalog' = oCatalog /\ oManifest' = oManifest
      /\ oPart' = oPart /\ oOutput' = oOutput /\ oReceipt' = oReceipt
      /\ oManifest \in O!Manifest \cup {None} /\ oRaced \in BOOLEAN
  BY DEF O!IInv, O!Pin, O!disk, O!TypeOK, O!Running
<1>2. CASE cached /\ oCall[p].mode # "refresh"
  <2> DEFINE c == [oCall[p] EXCEPT !.read = oManifest, !.version = oCatalog, !.todo = Part]
             l == O!AfterCatalog(p)
  <2>1. oPc' = [oPc EXCEPT ![p] = l] /\ oCall' = [oCall EXCEPT ![p] = c] /\ oRaced' = oRaced
    BY <1>1, <1>2 DEF O!Pin, O!Goto, O!TypeOK
  <2>2. oManifest # None /\ oCatalog = oManifest.pin /\ oCatalog \in O!Version
    BY <1>1, <1>2, ReleaseData
  <2>3. /\ c \in O!Call /\ c.alone = oCall[p].alone /\ c.op = oCall[p].op
        /\ c.version = oCatalog /\ c.read = oManifest /\ c.todo = Part
    BY <1>1, <2>2 DEF O!Call
  <2>4. l \in {"done", "parts"} /\ (l = "done" <=> oCall[p].op = "catalog")
    BY DEF O!AfterCatalog
  <2> HIDE DEF c, l
  <2>5. /\ oPc'[p] = l /\ oCall'[p] = c
        /\ \A q \in Proc \ {p} : oPc'[q] = oPc[q] /\ oCall'[q] = oCall[q]
        /\ \A q \in Proc \ {p} : oCall'[q].alone => oPc'[q] = "idle"
        /\ oCall' \in [Proc -> O!Call] /\ oPc' \in [Proc -> O!Label]
    BY <1>1, <2>1, <2>3, <2>4, OpenOthersWait DEF O!Label
  <2>6. O!TypeOK'
    BY <1>1, <2>1, <2>5, OpenRigid DEF O!TypeOK
  <2>7. O!NothingIsPinnedYet' /\ O!CallsHaveWhatTheyUse'
    BY <1>1, <2>2, <2>3, <2>4, <2>5
    DEF O!IInv, O!NothingIsPinnedYet, O!CallsHaveWhatTheyUse, O!Pinned, O!Version
  <2>8. O!FirstCallIsOne' /\ O!CallsAreOfThePin'
    BY <1>1, <2>1, <2>2, <2>3, <2>4, <2>5
    DEF O!IInv, O!FirstCallIsOne, O!CallsAreOfThePin, O!Unpinned, O!Pinning, O!Pinned
  <2>9. O!OneRelease'
    BY <1>1, <2>1 DEF O!IInv, O!OneRelease
  <2>10. O!AloneIsAlone' /\ O!AloneIsOfThePin'
    BY <1>1, <2>2, <2>3, <2>4, <2>5
    DEF O!IInv, O!AloneIsAlone, O!AloneIsOfThePin, O!Running, O!Pinning, O!Pinned
  <2>11. O!AloneHasItsParts'
    BY <2>3, <2>4, <2>5 DEF O!AloneHasItsParts, O!Pinned
  <2> QED BY <2>6, <2>7, <2>8, <2>9, <2>10, <2>11 DEF O!IInv
<1>3. CASE ~(cached /\ oCall[p].mode # "refresh") /\ oCall[p].mode = "offline"
  BY <1>1, <1>3, OpenRaise DEF O!Pin
<1>4. CASE ~(cached /\ oCall[p].mode # "refresh") /\ oCall[p].mode # "offline"
  <2> DEFINE c == [oCall[p] EXCEPT !.read = oManifest]
  <2>1. /\ oPc' = [oPc EXCEPT ![p] = "fetch"] /\ oCall' = [oCall EXCEPT ![p] = c]
        /\ oRaced' = (oRaced \/ (oManifest = None /\ \E q \in Proc \ {p} : O!Unpinned(q)))
    BY <1>1, <1>4 DEF O!Pin, O!Goto, O!TypeOK
  <2>3. c \in O!Call /\ c.alone = oCall[p].alone /\ c.read = oManifest
    BY <1>1 DEF O!Call
  <2> HIDE DEF c
  <2>5. /\ oPc'[p] = "fetch" /\ oCall'[p] = c
        /\ \A q \in Proc \ {p} : oPc'[q] = oPc[q] /\ oCall'[q] = oCall[q]
        /\ \A q \in Proc \ {p} : oCall'[q].alone => oPc'[q] = "idle"
        /\ oCall' \in [Proc -> O!Call] /\ oPc' \in [Proc -> O!Label]
    BY <1>1, <2>1, <2>3, OpenOthersWait DEF O!Label
  <2>a. ~oRaced' => ~oRaced /\ (oManifest = None => \A q \in Proc \ {p} : ~O!Unpinned(q))
    BY <2>1
  <2>6. O!TypeOK'
    <3>1. oRaced' \in BOOLEAN
      BY <2>1
    <3> QED BY <1>1, <3>1, <2>5, OpenRigid DEF O!TypeOK
  <2>7. O!NothingIsPinnedYet' /\ O!CallsHaveWhatTheyUse'
    BY <1>1, <2>3, <2>5
    DEF O!IInv, O!NothingIsPinnedYet, O!CallsHaveWhatTheyUse, O!Pinned, O!Version
  <2>8. O!FirstCallIsOne'
    BY <1>1, <2>a, <2>3, <2>5 DEF O!IInv, O!FirstCallIsOne, O!Unpinned
  <2>9. O!OneRelease'
    BY <1>1, <2>a DEF O!IInv, O!OneRelease
  <2>10. O!CallsAreOfThePin'
    <3>1. ~oRaced /\ oManifest # None =>
            \A q \in Part : oManifest.resources[q] \in {oManifest.pin, None}
      BY DEF O!IInv, O!OneRelease
    <3> QED
      BY <1>1, <2>a, <2>3, <2>5, <3>1 DEF O!IInv, O!CallsAreOfThePin, O!Pinning, O!Pinned
  <2>11. O!AloneIsAlone' /\ O!AloneIsOfThePin'
    BY <1>1, <2>3, <2>5
    DEF O!IInv, O!AloneIsAlone, O!AloneIsOfThePin, O!Running, O!Pinning, O!Pinned
  <2>12. O!AloneHasItsParts'
    BY <2>3, <2>5 DEF O!AloneHasItsParts, O!Pinned
  <2> QED BY <2>6, <2>7, <2>8, <2>9, <2>10, <2>11, <2>12 DEF O!IInv
<1> QED BY <1>2, <1>3, <1>4


LEMMA OpenFetchCatalog ==
    ASSUME O!CRCOpenAssumption, O!IInv, NEW p \in Proc, O!FetchCatalog(p) PROVE O!IInv'
<1>1. /\ O!TypeOK /\ oPc[p] = "fetch" /\ oCall[p] \in O!Call /\ O!Running(p)
      /\ oReleased' = oReleased /\ oCatalog' = oCatalog /\ oManifest' = oManifest
      /\ oPart' = oPart /\ oOutput' = oOutput /\ oReceipt' = oReceipt /\ oRaced' = oRaced
      /\ oReleased \in O!Version
  BY DEF O!IInv, O!FetchCatalog, O!disk, O!TypeOK, O!Running
<1>2. CASE ~O!SamePin(p, oReleased)
  BY <1>1, <1>2, OpenRaise DEF O!FetchCatalog
<1>3. CASE O!SamePin(p, oReleased)
  <2> DEFINE c == [oCall[p] EXCEPT !.version = oReleased]
  <2>1. oPc' = [oPc EXCEPT ![p] = "install"] /\ oCall' = [oCall EXCEPT ![p] = c]
    BY <1>1, <1>3 DEF O!FetchCatalog, O!Goto, O!TypeOK
  <2>2. oCall[p].read # None => oReleased = oCall[p].read.pin
    BY <1>3 DEF O!SamePin
  <2>3. /\ c \in O!Call /\ c.alone = oCall[p].alone /\ c.read = oCall[p].read
        /\ c.version = oReleased
    BY <1>1 DEF O!Call
  <2> HIDE DEF c
  <2>4. /\ oPc'[p] = "install" /\ oCall'[p] = c
        /\ \A q \in Proc \ {p} : oPc'[q] = oPc[q] /\ oCall'[q] = oCall[q]
        /\ \A q \in Proc \ {p} : oCall'[q].alone => oPc'[q] = "idle"
        /\ oCall' \in [Proc -> O!Call] /\ oPc' \in [Proc -> O!Label]
    BY <1>1, <2>1, <2>3, OpenOthersWait DEF O!Label
  <2>5. O!TypeOK'
    BY <1>1, <2>4, OpenRigid DEF O!TypeOK
  <2>6. O!NothingIsPinnedYet' /\ O!CallsHaveWhatTheyUse'
    BY <1>1, <2>3, <2>4
    DEF O!IInv, O!NothingIsPinnedYet, O!CallsHaveWhatTheyUse, O!Pinned, O!Version
  <2>7. O!FirstCallIsOne'
    BY <1>1, <2>3, <2>4 DEF O!IInv, O!FirstCallIsOne, O!Unpinned
  <2>8. O!CallsAreOfThePin'
    BY <1>1, <2>2, <2>3, <2>4 DEF O!IInv, O!CallsAreOfThePin, O!Pinning, O!Pinned
  <2>9. O!OneRelease'
    BY <1>1 DEF O!IInv, O!OneRelease
  <2>10. O!AloneIsAlone' /\ O!AloneIsOfThePin'
    BY <1>1, <2>2, <2>3, <2>4
    DEF O!IInv, O!AloneIsAlone, O!AloneIsOfThePin, O!Running, O!Pinning, O!Pinned
  <2>11. O!AloneHasItsParts'
    BY <2>3, <2>4 DEF O!AloneHasItsParts, O!Pinned
  <2> QED BY <2>5, <2>6, <2>7, <2>8, <2>9, <2>10, <2>11 DEF O!IInv
<1> QED BY <1>2, <1>3

\* A call that installs its catalogue is of the recorded pin, or is the first.
LEMMA OpenInstallCatalog ==
    ASSUME O!CRCOpenAssumption, O!IInv, NEW p \in Proc, O!InstallCatalog(p) PROVE O!IInv'
<1>1. /\ O!TypeOK /\ oPc[p] = "install" /\ oCall[p] \in O!Call /\ O!Running(p)
      /\ oReleased' = oReleased /\ oCatalog' = oCall[p].version /\ oManifest' = oManifest
      /\ oPart' = oPart /\ oOutput' = oOutput /\ oReceipt' = oReceipt /\ oRaced' = oRaced
      /\ oCall' = oCall /\ oPc' = [oPc EXCEPT ![p] = "record"]
      /\ oCall[p].version \in O!Version
  BY DEF O!IInv, O!InstallCatalog, O!Goto, O!TypeOK, O!Running, O!CallsHaveWhatTheyUse
<1>2. /\ oPc'[p] = "record"
      /\ \A q \in Proc \ {p} : oPc'[q] = oPc[q]
      /\ \A q \in Proc \ {p} : oCall'[q].alone => oPc'[q] = "idle"
      /\ oPc' \in [Proc -> O!Label]
  BY <1>1 DEF O!IInv, O!TypeOK, O!AloneIsAlone, O!Label
<1>3. /\ oPc'[p] = "record"
      /\ \A q \in Proc \ {p} : oPc'[q] = oPc[q]
      /\ \A q \in Proc \ {p} : oCall[q].alone => oPc'[q] = "idle"
      /\ oPc' \in [Proc -> O!Label]
  BY <1>1, <1>2
<1>4. ~oRaced =>
        IF oCall[p].read = None
        THEN oManifest = None /\ \A q \in Proc \ {p} : ~O!Unpinned(q)
        ELSE oCall[p].version = oManifest.pin /\ oManifest # None
  <2>1. CASE oCall[p].read = None
    BY <1>1, <2>1 DEF O!IInv, O!FirstCallIsOne, O!Unpinned
  <2>2. CASE oCall[p].read # None
    BY <1>1, <2>2 DEF O!IInv, O!CallsAreOfThePin, O!NothingIsPinnedYet
  <2> QED BY <2>1, <2>2
<1>5. O!TypeOK'
  BY <1>1, <1>3, OpenRigid DEF O!TypeOK
<1>6. O!NothingIsPinnedYet' /\ O!CallsHaveWhatTheyUse'
  BY <1>1, <1>3
  DEF O!IInv, O!NothingIsPinnedYet, O!CallsHaveWhatTheyUse, O!Pinned, O!Version
<1>7. O!FirstCallIsOne'
  BY <1>1, <1>3, <1>4 DEF O!IInv, O!FirstCallIsOne, O!Unpinned
<1>8. O!CallsAreOfThePin'
  BY <1>1, <1>3 DEF O!IInv, O!CallsAreOfThePin, O!Pinning, O!Pinned
<1>9. O!OneRelease'
  BY <1>1, <1>4 DEF O!IInv, O!OneRelease
<1>10. O!AloneIsAlone' /\ O!AloneIsOfThePin'
  BY <1>1, <1>3
  DEF O!IInv, O!AloneIsAlone, O!AloneIsOfThePin, O!Running, O!Pinning, O!Pinned
<1>11. O!AloneHasItsParts'
  BY <1>1, <1>3 DEF O!AloneHasItsParts, O!Pinned
<1> QED BY <1>5, <1>6, <1>7, <1>8, <1>9, <1>10, <1>11 DEF O!IInv

\* The first manifest is written by one call when no other is past listing; a later
\* one has the pin there was.
LEMMA OpenRecordPin ==
    ASSUME O!CRCOpenAssumption, O!IInv, NEW p \in Proc, O!RecordPin(p)
    PROVE  /\ O!IInv'
           /\ oManifest' # None
           /\ ~oRaced /\ oManifest # None => oManifest'.pin = oManifest.pin
<1> DEFINE v == oCall[p].version
           c == [oCall[p] EXCEPT !.todo = Part, !.read = None]
           l == O!AfterCatalog(p)
<1>1. /\ O!TypeOK /\ oPc[p] = "record" /\ oCall[p] \in O!Call /\ O!Running(p)
      /\ oReleased' = oReleased /\ oCatalog' = oCatalog
      /\ oPart' = oPart /\ oOutput' = oOutput /\ oReceipt' = oReceipt /\ oRaced' = oRaced
      /\ v \in O!Version /\ oCall[p].read \in O!Manifest \cup {None}
  BY DEF O!IInv, O!RecordPin, O!TypeOK, O!Running, O!CallsHaveWhatTheyUse, O!Call
<1>2. oPc' = [oPc EXCEPT ![p] = l] /\ oCall' = [oCall EXCEPT ![p] = c]
  BY <1>1 DEF O!RecordPin, O!Goto, O!TypeOK
<1>3. /\ c \in O!Call /\ c.alone = oCall[p].alone /\ c.op = oCall[p].op
      /\ c.version = v /\ c.read = None /\ c.todo = Part
  BY <1>1 DEF O!Call
<1>4. l \in {"done", "parts"} /\ (l = "done" <=> oCall[p].op = "catalog")
  BY DEF O!AfterCatalog
<1>5. /\ oManifest' \in O!Manifest /\ oManifest'.pin = v
      /\ oManifest'.resources = IF oCall[p].read = None THEN O!NoResources
                                ELSE oCall[p].read.resources
  <2>1. CASE oCall[p].read = None
    <3>1. oManifest' = [pin |-> v, resources |-> O!NoResources]
      BY <2>1 DEF O!RecordPin
    <3> HIDE DEF v
    <3>2. oManifest' \in O!Manifest
      BY <1>1, <3>1 DEF O!Manifest, O!NoResources
    <3> QED BY <2>1, <3>1, <3>2
  <2>2. CASE oCall[p].read # None
    <3>1. oManifest' = [pin |-> v, resources |-> oCall[p].read.resources]
      BY <2>2 DEF O!RecordPin
    <3> HIDE DEF v
    <3>2. oCall[p].read \in O!Manifest
      BY <1>1, <2>2
    <3>3. oManifest' \in O!Manifest
      BY <1>1, <3>1, <3>2, ManifestIsManifest
    <3> QED BY <2>2, <3>1, <3>3
  <2> QED BY <2>1, <2>2
<1>6. oManifest' # None
  BY <1>5, ReleaseData
<1>7. ~oRaced /\ oCall[p].read = None =>
        /\ oManifest = None /\ oCatalog = v
        /\ \A q \in Proc \ {p} : ~O!Unpinned(q)
  BY <1>1 DEF O!IInv, O!FirstCallIsOne, O!Unpinned
<1>8. ~oRaced /\ oCall[p].read # None =>
        /\ oManifest # None /\ oManifest.pin = v /\ \A q \in Proc : ~O!Unpinned(q)
        /\ \A q \in Part : oCall[p].read.resources[q] \in {v, None}
  BY <1>1
  DEF O!IInv, O!CallsAreOfThePin, O!NothingIsPinnedYet, O!FirstCallIsOne, O!Pinning
<1> HIDE DEF c, l, v
<1>9. /\ oPc'[p] = l /\ oCall'[p] = c
      /\ \A q \in Proc \ {p} : oPc'[q] = oPc[q] /\ oCall'[q] = oCall[q]
      /\ \A q \in Proc \ {p} : oCall'[q].alone => oPc'[q] = "idle"
      /\ oCall' \in [Proc -> O!Call] /\ oPc' \in [Proc -> O!Label]
  BY <1>1, <1>2, <1>3, <1>4, OpenOthersWait DEF O!Label
<1>10. O!TypeOK'
  BY <1>1, <1>5, <1>9, OpenRigid DEF O!TypeOK
<1>11. O!NothingIsPinnedYet'
  BY <1>6 DEF O!NothingIsPinnedYet
<1>12. O!CallsHaveWhatTheyUse'
  BY <1>1, <1>3, <1>4, <1>9 DEF O!IInv, O!CallsHaveWhatTheyUse, O!Pinned, O!Version
<1>13. O!FirstCallIsOne'
  BY <1>1, <1>4, <1>7, <1>8, <1>9 DEF O!FirstCallIsOne, O!Unpinned
<1>14. O!CallsAreOfThePin'
  <2>1. ~oRaced => oManifest = None \/ oManifest.pin = v
    BY <1>7, <1>8
  <2>2. ~oRaced /\ oManifest = None => \A q \in Proc \ {p} :
            oPc[q] \notin O!Pinned /\ oCall[q].read = None
    BY DEF O!IInv, O!NothingIsPinnedYet
  <2>3. ASSUME ~oRaced, NEW q \in Proc \ {p}
        PROVE  /\ oPc[q] \in O!Pinning \cup {"update"} /\ oCall[q].read # None =>
                    /\ oCall[q].read.pin = v
                    /\ \A r \in Part : oCall[q].read.resources[r] \in {v, None}
               /\ oPc[q] \in {"install", "record"} /\ oCall[q].read # None =>
                    oCall[q].version = v
               /\ oPc[q] \in O!Pinned => oCall[q].version = v
    BY <2>1, <2>2, <2>3 DEF O!IInv, O!CallsAreOfThePin
  <2> QED
    BY <1>1, <1>3, <1>4, <1>5, <1>9, <2>3 DEF O!CallsAreOfThePin, O!Pinning, O!Pinned
<1>15. O!OneRelease'
  <2>1. ~oRaced => oCatalog \in {v, None} /\ \A q \in Part : oPart[q] \in {v, None}
    BY <1>7, <1>8 DEF O!IInv, O!OneRelease, O!NothingIsPinnedYet
  <2>2. ~oRaced => \A q \in Part : oManifest'.resources[q] \in {v, None}
    BY <1>5, <1>8 DEF O!NoResources
  <2> QED BY <1>1, <1>5, <2>1, <2>2 DEF O!OneRelease
<1>16. O!AloneIsAlone'
  BY <1>1, <1>3, <1>4, <1>9 DEF O!IInv, O!AloneIsAlone, O!Running
<1>17. O!AloneIsOfThePin'
  <2>1. oCall[p].alone => oCatalog = v
    BY <1>1 DEF O!IInv, O!AloneIsOfThePin, v
  <2> QED
    BY <1>1, <1>3, <1>4, <1>5, <1>6, <1>9, <2>1 DEF O!AloneIsOfThePin, O!Pinning, O!Pinned
<1>18. O!AloneHasItsParts'
  BY <1>3, <1>4, <1>9 DEF O!AloneHasItsParts, O!Pinned
<1>19. ~oRaced /\ oManifest # None => oManifest'.pin = oManifest.pin
  BY <1>5, <1>7, <1>8
<1> QED
  BY <1>6, <1>10, <1>11, <1>12, <1>13, <1>14, <1>15, <1>16, <1>17, <1>18, <1>19 DEF O!IInv


\* Whoever gives a partition its name has compared it with the catalogue.
LEMMA OpenPartition ==
    ASSUME O!CRCOpenAssumption, O!IInv, NEW p \in Proc, O!Partition(p) PROVE O!IInv'
<1> DEFINE r == CHOOSE q \in oCall[p].todo : TRUE
           v == oCall[p].version
           c == [oCall[p] EXCEPT !.todo = oCall[p].todo \ {r}]
<1>1. /\ O!TypeOK /\ oPc[p] = "parts" /\ oCall[p] \in O!Call /\ O!Running(p)
      /\ oReleased' = oReleased /\ oCatalog' = oCatalog /\ oManifest' = oManifest
      /\ oOutput' = oOutput /\ oReceipt' = oReceipt /\ oRaced' = oRaced
      /\ oPart \in [Part -> O!Version \cup {None}]
  BY DEF O!IInv, O!Partition, O!TypeOK, O!Running
<1>2. r \in oCall[p].todo /\ r \in Part
  BY <1>1 DEF O!Partition, O!Call
<1>3. CASE O!Downloads(p, r) /\ (oCall[p].mode = "offline" \/ ~O!Genuine(p))
  BY <1>1, <1>3, OpenRaise DEF O!Partition
<1>4. CASE ~(O!Downloads(p, r) /\ (oCall[p].mode = "offline" \/ ~O!Genuine(p)))
  <2>1. oCall' = [oCall EXCEPT ![p] = c] /\ oPc' = oPc
    BY <1>1, <1>4 DEF O!Partition, O!TypeOK
  <2>2. oPart' = [oPart EXCEPT ![r] = v]
    <3>1. CASE O!Downloads(p, r)
      BY <1>4, <3>1 DEF O!Partition, O!Genuine
    <3>2. CASE ~O!Downloads(p, r)
      <4>1. oPart' = oPart /\ oPart[r] = v
        BY <3>2 DEF O!Partition, O!Downloads, O!Verified
      <4> QED BY <1>1, <1>2, <4>1
    <3> QED BY <3>1, <3>2
  <2>3. /\ c \in O!Call /\ c.alone = oCall[p].alone /\ c.op = oCall[p].op
        /\ c.version = v /\ c.read = oCall[p].read /\ c.todo = oCall[p].todo \ {r}
    BY <1>1 DEF O!Call
  <2> HIDE DEF c, r, v
  <2>4. oPc' = [oPc EXCEPT ![p] = "parts"]
    BY <1>1, <2>1 DEF O!TypeOK
  <2>5. /\ oPc'[p] = "parts" /\ oCall'[p] = c
        /\ \A q \in Proc \ {p} : oPc'[q] = oPc[q] /\ oCall'[q] = oCall[q]
        /\ \A q \in Proc \ {p} : oCall'[q].alone => oPc'[q] = "idle"
        /\ oCall' \in [Proc -> O!Call] /\ oPc' \in [Proc -> O!Label]
    BY <1>1, <2>1, <2>3, <2>4, OpenOthersWait DEF O!Label
  <2>6. v \in O!Version /\ oManifest # None /\ (~oRaced => v = oManifest.pin)
    BY <1>1
    DEF O!IInv, O!CallsHaveWhatTheyUse, O!NothingIsPinnedYet, O!CallsAreOfThePin, O!Pinned, v
  <2>7. oPart'[r] = v /\ \A q \in Part \ {r} : oPart'[q] = oPart[q]
    BY <1>1, <1>2, <2>2
  <2>8. O!TypeOK'
    <3>1. oPart' \in [Part -> O!Version \cup {None}]
      BY <1>1, <2>2, <2>6
    <3> QED BY <1>1, <2>5, <3>1, OpenRigid DEF O!TypeOK
  <2>9. O!NothingIsPinnedYet' /\ O!CallsHaveWhatTheyUse'
    BY <1>1, <2>3, <2>5, <2>6
    DEF O!IInv, O!NothingIsPinnedYet, O!CallsHaveWhatTheyUse, O!Pinned, O!Version
  <2>10. O!FirstCallIsOne'
    BY <1>1, <2>3, <2>5, <2>6 DEF O!IInv, O!FirstCallIsOne, O!Unpinned
  <2>11. O!CallsAreOfThePin'
    BY <1>1, <2>3, <2>5, <2>6 DEF O!IInv, O!CallsAreOfThePin, O!Pinning, O!Pinned
  <2>12. O!OneRelease'
    BY <1>1, <2>6, <2>7 DEF O!IInv, O!OneRelease
  <2>13. O!AloneIsAlone' /\ O!AloneIsOfThePin'
    BY <1>1, <2>3, <2>5, <2>6
    DEF O!IInv, O!AloneIsAlone, O!AloneIsOfThePin, O!Running, O!Pinning, O!Pinned, v
  <2>14. O!AloneHasItsParts'
    <3>1. oCall[p].alone => \A q \in Part \ c.todo : oPart'[q] = v
      BY <1>1, <2>3, <2>7 DEF O!IInv, O!AloneHasItsParts, v
    <3> QED BY <1>1, <2>3, <2>5, <3>1 DEF O!AloneHasItsParts, O!Pinned
  <2> QED BY <2>8, <2>9, <2>10, <2>11, <2>12, <2>13, <2>14 DEF O!IInv
<1> QED BY <1>3, <1>4

LEMMA OpenReadManifest ==
    ASSUME O!IInv, NEW p \in Proc, O!ReadManifest(p) PROVE O!IInv'
<1> DEFINE c == [oCall[p] EXCEPT !.read = oManifest]
<1>1. /\ O!TypeOK /\ oPc[p] = "parts" /\ oCall[p] \in O!Call /\ O!Running(p)
      /\ oCall[p].todo = {}
      /\ oReleased' = oReleased /\ oCatalog' = oCatalog /\ oManifest' = oManifest
      /\ oPart' = oPart /\ oOutput' = oOutput /\ oReceipt' = oReceipt /\ oRaced' = oRaced
      /\ oManifest \in O!Manifest \cup {None} /\ oManifest # None
  BY DEF O!IInv, O!ReadManifest, O!disk, O!TypeOK, O!Running, O!NothingIsPinnedYet, O!Pinned
<1>2. oPc' = [oPc EXCEPT ![p] = "update"] /\ oCall' = [oCall EXCEPT ![p] = c]
  BY <1>1 DEF O!ReadManifest, O!Goto, O!TypeOK
<1>3. /\ c \in O!Call /\ c.alone = oCall[p].alone /\ c.op = oCall[p].op
      /\ c.version = oCall[p].version /\ c.read = oManifest
  BY <1>1 DEF O!Call
<1> HIDE DEF c
<1>4. /\ oPc'[p] = "update" /\ oCall'[p] = c
      /\ \A q \in Proc \ {p} : oPc'[q] = oPc[q] /\ oCall'[q] = oCall[q]
      /\ \A q \in Proc \ {p} : oCall'[q].alone => oPc'[q] = "idle"
      /\ oCall' \in [Proc -> O!Call] /\ oPc' \in [Proc -> O!Label]
  <2>1. O!Running(p) /\ c \in O!Call /\ "update" \in O!Label
    BY <1>1, <1>3 DEF O!Label
  <2> QED BY <1>2, <2>1, OpenOthersWait
<1>5. O!TypeOK'
  BY <1>1, <1>4, OpenRigid DEF O!TypeOK
<1>6. O!NothingIsPinnedYet' /\ O!CallsHaveWhatTheyUse'
  BY <1>1, <1>3, <1>4
  DEF O!IInv, O!NothingIsPinnedYet, O!CallsHaveWhatTheyUse, O!Pinned, O!Version
<1>7. O!FirstCallIsOne'
  BY <1>1, <1>3, <1>4 DEF O!IInv, O!FirstCallIsOne, O!Unpinned
<1>8. O!CallsAreOfThePin'
  <2>1. ~oRaced => \A q \in Part : oManifest.resources[q] \in {oManifest.pin, None}
    BY <1>1 DEF O!IInv, O!OneRelease
  <2> QED
    BY <1>1, <1>3, <1>4, <2>1 DEF O!IInv, O!CallsAreOfThePin, O!Pinning, O!Pinned
<1>9. O!OneRelease'
  BY <1>1 DEF O!IInv, O!OneRelease
<1>10. O!AloneIsAlone' /\ O!AloneIsOfThePin'
  BY <1>1, <1>3, <1>4
  DEF O!IInv, O!AloneIsAlone, O!AloneIsOfThePin, O!Running, O!Pinning, O!Pinned
<1>11. O!AloneHasItsParts'
  BY <1>1, <1>3, <1>4 DEF O!IInv, O!AloneHasItsParts, O!Pinned
<1> QED BY <1>5, <1>6, <1>7, <1>8, <1>9, <1>10, <1>11 DEF O!IInv

\* The manifest written back has the pin of the one that was read.
LEMMA OpenUpdateManifest ==
    ASSUME O!CRCOpenAssumption, O!IInv, NEW p \in Proc, O!UpdateManifest(p)
    PROVE  /\ O!IInv'
           /\ oManifest' # None
           /\ ~oRaced => oManifest'.pin = oManifest.pin
<1> DEFINE v == oCall[p].version
           c == [oCall[p] EXCEPT !.read = None]
           l == IF oCall[p].op = "prefetch" THEN "done" ELSE "check"
<1>1. /\ O!TypeOK /\ oPc[p] = "update" /\ oCall[p] \in O!Call /\ O!Running(p)
      /\ oReleased' = oReleased /\ oCatalog' = oCatalog
      /\ oPart' = oPart /\ oOutput' = oOutput /\ oReceipt' = oReceipt /\ oRaced' = oRaced
      /\ v \in O!Version /\ oCall[p].read \in O!Manifest /\ oManifest # None
  BY DEF O!IInv, O!UpdateManifest, O!TypeOK, O!Running, O!CallsHaveWhatTheyUse, O!Call,
         O!NothingIsPinnedYet, O!Pinned
<1>2. oPc' = [oPc EXCEPT ![p] = l] /\ oCall' = [oCall EXCEPT ![p] = c]
  BY <1>1 DEF O!UpdateManifest, O!Goto, O!TypeOK
<1>3. /\ c \in O!Call /\ c.alone = oCall[p].alone /\ c.op = oCall[p].op
      /\ c.version = v /\ c.read = None
  BY <1>1 DEF O!Call
<1>4. l \in {"done", "check"} /\ (l = "done" => oCall[p].op = "prefetch")
  OBVIOUS
<1>5. oManifest' = [oCall[p].read EXCEPT !.resources = [q \in Part |-> v]]
  BY DEF O!UpdateManifest
<1> HIDE DEF c, l, v
<1>6. /\ oManifest' \in O!Manifest /\ oManifest'.pin = oCall[p].read.pin
      /\ oManifest'.resources = [q \in Part |-> v]
  <2>1. oManifest' \in O!Manifest
    BY <1>1, <1>5, ManifestIsManifest
  <2> QED BY <1>1, <1>5, <2>1 DEF O!Manifest
<1>7. oManifest' # None
  BY <1>6, ReleaseData
<1>8. ~oRaced => oCall[p].read.pin = oManifest.pin /\ v = oManifest.pin
  BY <1>1, ReleaseData DEF O!IInv, O!CallsAreOfThePin, O!Pinned, v
<1>9. /\ oPc'[p] = l /\ oCall'[p] = c
      /\ \A q \in Proc \ {p} : oPc'[q] = oPc[q] /\ oCall'[q] = oCall[q]
      /\ \A q \in Proc \ {p} : oCall'[q].alone => oPc'[q] = "idle"
      /\ oCall' \in [Proc -> O!Call] /\ oPc' \in [Proc -> O!Label]
  BY <1>1, <1>2, <1>3, <1>4, OpenOthersWait DEF O!Label
<1>10. O!TypeOK'
  BY <1>1, <1>6, <1>9, OpenRigid DEF O!TypeOK
<1>11. O!NothingIsPinnedYet'
  BY <1>7 DEF O!NothingIsPinnedYet
<1>12. O!CallsHaveWhatTheyUse'
  BY <1>1, <1>3, <1>4, <1>9 DEF O!IInv, O!CallsHaveWhatTheyUse, O!Pinned, O!Version
<1>13. O!FirstCallIsOne'
  BY <1>1, <1>3, <1>4, <1>9 DEF O!IInv, O!FirstCallIsOne, O!Unpinned
<1>14. O!CallsAreOfThePin'
  BY <1>1, <1>3, <1>4, <1>6, <1>8, <1>9 DEF O!IInv, O!CallsAreOfThePin, O!Pinning, O!Pinned
<1>15. O!OneRelease'
  BY <1>1, <1>6, <1>8 DEF O!IInv, O!OneRelease
<1>16. O!AloneIsAlone'
  BY <1>1, <1>3, <1>4, <1>9 DEF O!IInv, O!AloneIsAlone, O!Running
<1>17. O!AloneIsOfThePin'
  <2>1. oCall[p].alone => oCall[p].read.pin = oManifest.pin /\ oCatalog = oManifest.pin
                          /\ oCatalog = v
    BY <1>1 DEF O!IInv, O!AloneIsOfThePin, O!Pinned, v
  <2> QED
    BY <1>1, <1>3, <1>4, <1>6, <1>7, <1>9, <2>1 DEF O!AloneIsOfThePin, O!Pinning, O!Pinned
<1>18. O!AloneHasItsParts'
  <2>1. oCall[p].alone /\ oCall[p].op # "catalog" => \A q \in Part : oPart[q] = v
    BY <1>1 DEF O!IInv, O!AloneHasItsParts, O!Pinned, v
  <2> QED BY <1>1, <1>3, <1>4, <1>9, <2>1 DEF O!AloneHasItsParts, O!Pinned
<1>19. ~oRaced => oManifest'.pin = oManifest.pin
  BY <1>6, <1>8
<1> QED
  BY <1>7, <1>10, <1>11, <1>12, <1>13, <1>14, <1>15, <1>16, <1>17, <1>18, <1>19 DEF O!IInv


\* A step that leaves the locals alone.
LEMMA OpenMoves ==
    ASSUME O!IInv, NEW p \in Proc, O!Running(p), NEW l \in O!Label,
           oPc' = [oPc EXCEPT ![p] = l], oCall' = oCall
    PROVE  /\ oPc'[p] = l /\ oPc' \in [Proc -> O!Label]
           /\ \A q \in Proc \ {p} : oPc'[q] = oPc[q]
           /\ \A q \in Proc \ {p} : oCall[q].alone => oPc'[q] = "idle"
  BY DEF O!IInv, O!TypeOK, O!AloneIsAlone

\* The output is checked, written and vouched for: nothing that pins the release
\* changes.
LEMMA OpenOutput ==
    ASSUME O!CRCOpenAssumption, O!IInv, NEW p \in Proc,
           O!CheckReceipt(p) \/ O!WriteOutput(p) \/ O!WriteReceipt(p)
    PROVE  O!IInv'
<1> DEFINE v == oCall[p].version
<1>1. /\ O!TypeOK /\ oPc[p] \in {"check", "write", "receipt"} /\ O!Running(p)
      /\ oReleased' = oReleased /\ oCatalog' = oCatalog /\ oManifest' = oManifest
      /\ oPart' = oPart /\ oRaced' = oRaced /\ oCall' = oCall /\ oCall[p] \in O!Call
      /\ v \in O!Version /\ oManifest # None
  BY DEF O!IInv, O!CheckReceipt, O!WriteOutput, O!WriteReceipt, O!disk, O!TypeOK, O!Running,
         O!CallsHaveWhatTheyUse, O!NothingIsPinnedYet, O!Pinned
<1>2. PICK l \in {"write", "receipt", "done"} :
        /\ oPc' = [oPc EXCEPT ![p] = l]
        /\ \/ /\ oPc[p] = "check" /\ l # "receipt"
              /\ oOutput' = oOutput /\ oReceipt' = oReceipt
              /\ l = "done" => oReceipt /\ oOutput = v
           \/ /\ oPc[p] = "write" /\ l = "receipt" /\ oOutput' = v /\ oReceipt' = FALSE
           \/ /\ oPc[p] = "receipt" /\ l = "done" /\ oOutput' = oOutput /\ oReceipt' = TRUE
  <2>1. CASE O!CheckReceipt(p)
    BY <2>1 DEF O!CheckReceipt, O!Goto, O!disk
  <2>2. CASE O!WriteOutput(p)
    BY <2>2 DEF O!WriteOutput, O!Goto
  <2>3. CASE O!WriteReceipt(p)
    BY <2>3 DEF O!WriteReceipt, O!Goto
  <2> QED BY <2>1, <2>2, <2>3
<1> HIDE DEF v
<1>3. /\ oPc'[p] = l /\ oPc' \in [Proc -> O!Label]
      /\ \A q \in Proc \ {p} : oPc'[q] = oPc[q]
      /\ \A q \in Proc \ {p} : oCall[q].alone => oPc'[q] = "idle"
  <2>1. l \in O!Label
    BY DEF O!Label
  <2> QED BY <1>1, <1>2, <2>1, OpenMoves
<1>4. /\ oOutput' \in O!Version \cup {None} /\ oReceipt' \in BOOLEAN
      /\ oOutput # None => oOutput' # None
      /\ oReceipt' => oOutput' # None
      /\ l = "receipt" => oOutput' # None
  <2>1. v # None /\ oOutput \in O!Version \cup {None} /\ oReceipt \in BOOLEAN
        /\ (oReceipt => oOutput # None) /\ (oPc[p] = "receipt" => oOutput # None)
    BY <1>1, ReleaseData DEF O!IInv, O!TypeOK, O!CallsHaveWhatTheyUse
  <2>2. CASE oOutput' = oOutput /\ oReceipt' = oReceipt /\ l # "receipt"
    BY <2>1, <2>2
  <2>3. CASE oOutput' = v /\ oReceipt' = FALSE
    BY <1>1, <2>1, <2>3
  <2>4. CASE oPc[p] = "receipt" /\ oOutput' = oOutput /\ oReceipt' = TRUE
    BY <2>1, <2>4
  <2> QED BY <1>2, <2>2, <2>3, <2>4
<1>5. O!TypeOK'
  <2>1. oCall' \in [Proc -> O!Call]
    BY <1>1 DEF O!TypeOK
  <2> QED BY <1>1, <1>3, <1>4, <2>1, OpenRigid DEF O!TypeOK
<1>6. O!NothingIsPinnedYet'
  BY <1>1 DEF O!NothingIsPinnedYet
<1>7. O!CallsHaveWhatTheyUse'
  BY <1>1, <1>2, <1>3, <1>4
  DEF O!IInv, O!CallsHaveWhatTheyUse, O!Pinned, O!Version, v
<1>8. O!FirstCallIsOne'
  BY <1>1, <1>3 DEF O!IInv, O!FirstCallIsOne, O!Unpinned
<1>9. O!CallsAreOfThePin'
  BY <1>1, <1>3 DEF O!IInv, O!CallsAreOfThePin, O!Pinning, O!Pinned
<1>10. O!OneRelease'
  BY <1>1 DEF O!IInv, O!OneRelease
<1>11. O!AloneIsAlone'
  BY <1>1, <1>3 DEF O!IInv, O!AloneIsAlone, O!Running
<1>12. O!AloneIsOfThePin'
  BY <1>1, <1>3 DEF O!IInv, O!AloneIsOfThePin, O!Pinning, O!Pinned
<1>13. O!AloneHasItsParts'
  <2>1. oCall[p].alone =>
          /\ oCall[p].op # "catalog" => \A q \in Part : oPart[q] = v
          /\ oPc[p] = "receipt" => oOutput = v
    BY <1>1 DEF O!IInv, O!AloneHasItsParts, O!Pinned, v
  <2>2. oCall[p].alone =>
          /\ l = "receipt" => oOutput' = v
          /\ l = "done" => oReceipt' /\ oOutput' = v
    BY <1>2, <2>1
  <2> QED BY <1>1, <1>2, <1>3, <2>1, <2>2 DEF O!AloneHasItsParts, O!Pinned, v
<1> QED BY <1>5, <1>6, <1>7, <1>8, <1>9, <1>10, <1>11, <1>12, <1>13 DEF O!IInv

\* A file is removed while no call runs: the calls that returned were not alone then.
LEMMA OpenLose == ASSUME O!IInv, O!Lose PROVE O!IInv'
<1>1. /\ O!TypeOK /\ oReleased' = oReleased /\ oManifest' = oManifest /\ oOutput' = oOutput
      /\ oReceipt' = oReceipt /\ oRaced' = oRaced /\ oPc' = oPc
      /\ \A p \in Proc : oPc[p] \in {"idle", "done"}
      /\ oCall' = [p \in Proc |-> [oCall[p] EXCEPT !.alone = FALSE]]
  BY DEF O!IInv, O!Lose, O!Running
<1>2. /\ oCatalog' \in {oCatalog, None} /\ oPart' \in [Part -> O!Version \cup {None}]
      /\ \A q \in Part : oPart'[q] \in {oPart[q], None}
  <2>1. CASE oCatalog' = None /\ UNCHANGED oPart
    BY <1>1, <2>1 DEF O!TypeOK
  <2>2. CASE \E q \in Part : oPart' = [oPart EXCEPT ![q] = None] /\ UNCHANGED oCatalog
    BY <1>1, <2>2 DEF O!TypeOK
  <2> QED BY <2>1, <2>2 DEF O!Lose
<1>3. \A p \in Proc :
        /\ oCall'[p] \in O!Call /\ ~oCall'[p].alone
        /\ oCall'[p].version = oCall[p].version /\ oCall'[p].read = oCall[p].read
  <2> TAKE p \in Proc
  <2>1. oCall[p] \in O!Call /\ oCall'[p] = [oCall[p] EXCEPT !.alone = FALSE]
    BY <1>1 DEF O!TypeOK
  <2> QED BY <2>1 DEF O!Call
<1>4. O!TypeOK'
  <2>1. oCall' \in [Proc -> O!Call]
    BY <1>1, <1>3
  <2> QED BY <1>1, <1>2, <2>1, OpenRigid DEF O!TypeOK
<1>5. O!NothingIsPinnedYet' /\ O!CallsHaveWhatTheyUse'
  BY <1>1, <1>2, <1>3
  DEF O!IInv, O!NothingIsPinnedYet, O!CallsHaveWhatTheyUse, O!Pinned, O!Version
<1>6. O!FirstCallIsOne' /\ O!CallsAreOfThePin'
  BY <1>1, <1>3
  DEF O!IInv, O!FirstCallIsOne, O!CallsAreOfThePin, O!Unpinned, O!Pinning, O!Pinned
<1>7. O!OneRelease'
  BY <1>1, <1>2 DEF O!IInv, O!OneRelease
<1>8. O!AloneIsAlone' /\ O!AloneIsOfThePin' /\ O!AloneHasItsParts'
  BY <1>3 DEF O!AloneIsAlone, O!AloneIsOfThePin, O!AloneHasItsParts
<1> QED BY <1>4, <1>5, <1>6, <1>7, <1>8 DEF O!IInv

\* The release changes, or nothing does.
LEMMA OpenRepublish ==
    ASSUME O!CRCOpenAssumption, O!IInv, O!Republish \/ UNCHANGED O!vars
    PROVE  O!IInv'
<1>1. /\ oCatalog' = oCatalog /\ oManifest' = oManifest /\ oPart' = oPart
      /\ oOutput' = oOutput /\ oReceipt' = oReceipt /\ oRaced' = oRaced
      /\ oPc' = oPc /\ oCall' = oCall
  BY DEF O!Republish, O!vars, O!disk
<1>2. oReleased' \in O!Version
  BY DEF O!Republish, O!vars, O!IInv, O!TypeOK, O!Version, O!CRCOpenAssumption
<1>3. O!TypeOK'
  BY <1>1, <1>2, OpenRigid DEF O!IInv, O!TypeOK
<1>4. O!NothingIsPinnedYet' /\ O!CallsHaveWhatTheyUse'
  BY <1>1 DEF O!IInv, O!NothingIsPinnedYet, O!CallsHaveWhatTheyUse, O!Pinned, O!Version
<1>5. O!FirstCallIsOne' /\ O!CallsAreOfThePin' /\ O!OneRelease'
  BY <1>1
  DEF O!IInv, O!FirstCallIsOne, O!CallsAreOfThePin, O!OneRelease, O!Unpinned, O!Pinning, O!Pinned
<1>6. O!AloneIsAlone' /\ O!AloneIsOfThePin' /\ O!AloneHasItsParts'
  BY <1>1
  DEF O!IInv, O!AloneIsAlone, O!AloneIsOfThePin, O!AloneHasItsParts, O!Running, O!Pinning,
      O!Pinned
<1> QED BY <1>3, <1>4, <1>5, <1>6 DEF O!IInv

LEMMA OpenNext == ASSUME O!CRCOpenAssumption, O!IInv, [O!Next]_(O!vars) PROVE O!IInv'
<1>1. ASSUME NEW p \in Proc, O!Start(p) PROVE O!IInv'
  BY <1>1, OpenStart
<1>2. ASSUME NEW p \in Proc, O!Fails(p) PROVE O!IInv'
  <2>1. /\ O!Raise(p) /\ UNCHANGED <<oReleased, oCatalog, oManifest, oPart>>
        /\ UNCHANGED <<oOutput, oRaced>>
    BY <1>2 DEF O!Fails
  <2>2. \/ oReceipt' = oReceipt
        \/ O!Running(p) /\ oReceipt' = FALSE
    BY <1>2 DEF O!Fails
  <2> QED BY <2>1, <2>2, OpenRaise
<1>3. ASSUME NEW p \in Proc, O!Step(p) PROVE O!IInv'
  BY <1>2, <1>3, OpenPin, OpenFetchCatalog, OpenInstallCatalog, OpenRecordPin, OpenPartition,
     OpenReadManifest, OpenUpdateManifest, OpenOutput DEF O!Step
<1>4. ASSUME NEW p \in Proc, O!Return(p) PROVE O!IInv'
  BY <1>4, OpenRaise DEF O!Return, O!disk
<1> QED BY <1>1, <1>3, <1>4, OpenLose, OpenRepublish DEF O!Next

\* What is recorded for the release is replaced only by calls that raced.
LEMMA OpenStepKeepsPin ==
    ASSUME O!CRCOpenAssumption, O!IInv, O!Next, oManifest # None, ~oRaced'
    PROVE  oManifest' # None /\ oManifest'.pin = oManifest.pin
<1>1. ~oRaced
  BY DEF O!Next, O!Step, O!Start, O!Pin, O!FetchCatalog, O!InstallCatalog, O!RecordPin,
         O!Partition, O!ReadManifest, O!UpdateManifest, O!CheckReceipt, O!WriteOutput,
         O!WriteReceipt, O!Fails, O!Return, O!Lose, O!Republish
<1>2. ASSUME NEW p \in Proc, O!RecordPin(p) \/ O!UpdateManifest(p)
      PROVE  oManifest' # None /\ oManifest'.pin = oManifest.pin
  BY <1>1, <1>2, OpenRecordPin, OpenUpdateManifest
<1>3. ASSUME \A p \in Proc : ~O!RecordPin(p) /\ ~O!UpdateManifest(p)
      PROVE  oManifest' = oManifest
  BY <1>3
  DEF O!Next, O!Step, O!Start, O!Pin, O!FetchCatalog, O!InstallCatalog,
      O!Partition, O!ReadManifest, O!CheckReceipt, O!WriteOutput,
      O!WriteReceipt, O!Fails, O!Return, O!Lose, O!Republish, O!disk
<1> QED BY <1>2, <1>3


\* The inductive invariant of a CRC Open cache.
THEOREM OpenInvariance == O!Spec => []O!IInv
<1>1. O!Init => O!IInv
  BY OpenInit, Assumptions
<1>2. O!IInv /\ [O!Next]_(O!vars) => O!IInv'
  BY OpenNext, Assumptions
<1> QED BY <1>1, <1>2, PTL DEF O!Spec

\* Of a CRC Open cache, whatever number of processes write it without a lock:
\* unless two first calls overlapped, the catalogue, the partitions and the listed
\* resources are of the recorded pin (OneRelease); and overlapped or not, a call
\* that succeeds with the cache to itself leaves it whole.
THEOREM ReleasesStayKept == O!Spec => []ReleasesAreKept
<1>1. ASSUME O!IInv PROVE ReleasesAreKept
  <2>1. O!OneRelease
    BY <1>1 DEF O!IInv
  <2>2. O!SucceededAloneIsReproducible
    BY <1>1
    DEF O!IInv, O!AloneIsOfThePin, O!AloneHasItsParts, O!SucceededAloneIsReproducible, O!Pinned
  <2> QED BY <2>1, <2>2 DEF ReleasesAreKept
<1> QED BY <1>1, OpenInvariance, PTL

\* The recorded pin of a release is never replaced by another, unless two first
\* calls overlapped.
THEOREM PinOfAReleaseIsKept == O!Spec => O!PinIsKept
<1>1. O!IInv /\ [O!Next]_(O!vars) =>
        [oManifest # None /\ ~oRaced' => oManifest' # None /\ oManifest'.pin = oManifest.pin]_(O!vars)
  BY OpenStepKeepsPin, Assumptions
<1> QED BY <1>1, OpenInvariance, PTL DEF O!Spec, O!PinIsKept

(***************************************************************************)
(* The sum.                                                                *)
(***************************************************************************)

\* A behaviour of the sum is a behaviour of each of its components.
LEMMA SumIsOfComponents == PinnedSpec => Spec /\ O!Spec /\ M!Spec
<1>1. PinnedInit => Init /\ O!Init /\ M!Init
  BY DEF PinnedInit
<1>2. ASSUME [PinnedNext]_<<topic, vars, open, lockless>>
      PROVE  [Next]_vars /\ [O!Next]_(O!vars) /\ [M!Next]_(M!vars)
  <2>1. UNCHANGED open => UNCHANGED O!vars
    BY DEF open, O!vars, O!disk
  <2>2. UNCHANGED lockless => UNCHANGED M!vars
    BY DEF lockless, M!vars
  <2> QED BY <1>2, <2>1, <2>2 DEF PinnedNext
<1> QED BY <1>1, <1>2, PTL DEF PinnedSpec, Spec, O!Spec, M!Spec

\* Without file locks the manifest is still never torn, and its top level is only
\* accepted by a plan whose current results it holds (_remote.py:206-282).
THEOREM ManifestWithoutLocks == PinnedSpec => []ManifestIsConsistent
<1>1. M!Spec => []M!ManifestIsConsistent
  BY Assumptions, M!ManifestStaysConsistent
<1> QED BY <1>1, SumIsOfComponents, PTL DEF ManifestIsConsistent

\* What the run checks of the rainfall stations and of the CRC Open releases holds
\* of their sum, for any processes, stations, partitions and versions.
THEOREM PinnedCachesAreSound ==
    PinnedSpec => [](StationsAreWhole /\ ReleasesAreKept) /\ NoPinMoves
  BY SumIsOfComponents, StationsStayWhole, ReleasesStayKept, PinnedBytesAreKept,
     PinOfAReleaseIsKept, PTL DEF NoPinMoves
=============================================================================
