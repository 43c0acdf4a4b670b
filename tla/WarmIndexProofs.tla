---------------------------- MODULE WarmIndexProofs ----------------------------
(***************************************************************************)
(* Proofs about WarmIndex, for any number of notes, map sizes, edits, maps *)
(* and requests: the types, with how often a request may regenerate the    *)
(* map, and the view without tests; and, when no two writes share a        *)
(* timestamp, what a signature says of the file and what a request answers *)
(* from.                                                                   *)
(***************************************************************************)
EXTENDS WarmIndex, FiniteSetTheorems, TLAPS

Indexes ==
    [held : {TRUE}, map : Maps, mapStat : Stats, notes : SUBSET Notes,
     notesStat : Stats, view : {{}} \cup {{v} : v \in SUBSET Notes}]

\* The note commands that have emptied the file, and those that are over.
Emptied == {n \in Notes : at[n] \in {"write", "done"}}
Over == {n \in Notes : at[n] = "done"}

(***************************************************************************)
(* Time passes with every write, of which a request makes one at most: it  *)
(* does not judge a map again that it has written itself.                  *)
(***************************************************************************)
CountInv ==
    /\ tree <= edits
    /\ clock <= maps + Cardinality(Emptied) + Cardinality(Over)
    /\ MidRequest => requests >= 1
    /\ maps <= MaxMaps + requests
    /\ MidRequest /\ ~own => maps < MaxMaps + requests
    /\ pc \notin {"idle", "done", "stat", "load", "notes-stat", "notes-load"}
            => ~own

\* Where there is an index, and where nobody has filtered it yet.
HeldInv ==
    /\ pc \in {"match", "fresh", "notes", "refresh", "notes-stat", "notes-load",
               "recheck", "done"} => index.held
    /\ pc \in {"notes-stat", "notes-load"} => index.view = {}

WarmInv == TypeOK /\ CountInv /\ HeldInv /\ ViewsAgree

-----------------------------------------------------------------------------
LEMMA IndexType ==
    /\ NoIndex.held = FALSE
    /\ \A i \in Indexes : i.held = TRUE
    /\ TypeOK => (index.held => index \in Indexes)
<1>1. NoIndex.held = FALSE
  BY DEF NoIndex
<1>2. TypeOK => index = NoIndex \/ index \in Indexes
  BY DEF TypeOK, Indexes
<1> QED BY <1>1, <1>2 DEF Indexes

LEMMA Counted ==
    /\ Cardinality(Notes) \in Nat
    /\ \A S : S \subseteq Notes =>
         Cardinality(S) \in Nat /\ Cardinality(S) <= Cardinality(Notes)
    /\ \A S, T : S \subseteq T /\ T \subseteq Notes =>
         Cardinality(S) <= Cardinality(T)
    /\ \A S : \A n \in Notes \ S : S \subseteq Notes =>
         Cardinality(S \cup {n}) = Cardinality(S) + 1
<1>1. IsFiniteSet(Notes)
  BY WarmIndexAssumption
<1>2. \A S : S \subseteq Notes => IsFiniteSet(S)
  BY <1>1, FS_Subset
<1> QED BY <1>1, <1>2, FS_Subset, FS_CardinalityType, FS_AddElement

\* The bound of Times is never met before everything is over.
LEMMA InTimes ==
    ASSUME NEW t \in Nat, NEW m \in Nat, NEW r \in 0 .. MaxRequests,
           m <= MaxMaps + r, NEW S \in SUBSET Notes, NEW T \in SUBSET Notes,
           t <= m + Cardinality(S) + Cardinality(T)
    PROVE  t \in Times
<1>1. /\ Cardinality(S) \in Nat /\ Cardinality(T) \in Nat
      /\ Cardinality(S) <= Cardinality(Notes)
      /\ Cardinality(T) <= Cardinality(Notes)
      /\ Cardinality(Notes) \in Nat
  BY Counted
<1> QED BY <1>1, WarmIndexAssumption DEF Times

LEMMA TimesAreNumbers ==
    Times \subseteq Nat
<1>1. Cardinality(Notes) \in Nat
  BY Counted
<1> QED BY <1>1, WarmIndexAssumption DEF Times

LEMMA SetsOfNotes ==
    /\ Emptied \in SUBSET Notes /\ Over \in SUBSET Notes
    /\ Cardinality(Emptied) \in Nat /\ Cardinality(Over) \in Nat
<1>1. Emptied \in SUBSET Notes /\ Over \in SUBSET Notes
  BY DEF Emptied, Over
<1> QED BY <1>1, Counted

LEMMA InitHolds == Init => WarmInv
<1> SUFFICES ASSUME Init PROVE WarmInv
  OBVIOUS
<1>1. /\ Cardinality(Notes) \in Nat /\ clock = 0 /\ 0 \in Times
      /\ MaxMaps \in Nat /\ MaxRequests \in Nat /\ MaxEdits \in Nat
  BY Counted, WarmIndexAssumption DEF Init, Times
<1>2. map \in Maps
  BY <1>1, WarmIndexAssumption DEF Init, Maps, Stats
<1>3. notes \in [records : SUBSET Notes, whole : BOOLEAN, stat : Stats]
  <2> DEFINE there == {n \in Notes : job[n] = "remove"}
  <2>1. Cardinality(there) \in Nat
    BY Counted
  <2> HIDE DEF there
  <2>2. Cardinality(there) + 1 \in Nat
    BY <2>1
  <2>3. there \subseteq Notes
    BY DEF there
  <2>4. notes = [records |-> there, whole |-> TRUE,
                 stat |-> [mtime |-> 0, size |-> Cardinality(there) + 1]]
    BY DEF Init, there
  <2> QED BY <1>1, <2>2, <2>3, <2>4 DEF Stats
<1>4. TypeOK
  <2>1. stat \in Stats /\ NoStat \in Stats
    BY <1>1 DEF Init, NoStat, Stats
  <2>2. /\ at \in [Notes -> {"load", "truncate", "write", "done"}]
        /\ read \in [Notes -> SUBSET Notes]
        /\ job \in [Notes -> {"add", "remove"}]
    BY DEF Init
  <2>3. clock \in Times /\ tree \in 0 .. MaxEdits /\ edits \in 0 .. MaxEdits
        /\ maps \in Nat /\ requests \in 0 .. MaxRequests
    BY <1>1 DEF Init
  <2>4. index = NoIndex /\ pc = "idle" /\ own = FALSE
    BY DEF Init
  <2>5. judged \subseteq Maps /\ made \in 0 .. MaxEdits
        /\ mapped \subseteq 0 .. MaxEdits
    BY <1>1 DEF Init
  <2> QED BY <1>2, <1>3, <2>1, <2>2, <2>3, <2>4, <2>5 DEF TypeOK
<1>5. CountInv
  <2>1. Cardinality(Emptied) \in Nat /\ Cardinality(Over) \in Nat
    BY Counted DEF Emptied, Over
  <2> QED BY <1>1, <2>1 DEF Init, CountInv, MidRequest
<1>6. HeldInv /\ ViewsAgree
  BY DEF Init, HeldInv, ViewsAgree, NoIndex
<1> QED BY <1>4, <1>5, <1>6 DEF WarmInv

-----------------------------------------------------------------------------
\* A map is written: by somebody else, or by a request that has not yet.
LEMMA WriteMapTyped ==
    ASSUME WarmInv, NEW extracted \in 0 .. MaxEdits, WriteMap(extracted),
           maps < MaxMaps + requests, UNCHANGED at
    PROVE  /\ clock' \in Times /\ map' \in Maps /\ map'.of = extracted
           /\ mapped' \subseteq 0 .. MaxEdits
           /\ maps' \in Nat /\ maps' = maps + 1
           /\ clock' <= maps' + Cardinality(Emptied') + Cardinality(Over')
           /\ MidRequest => map' \in mapsSeen'
<1>1. /\ clock \in Nat /\ maps \in Nat /\ requests \in 0 .. MaxRequests
      /\ clock <= maps + Cardinality(Emptied) + Cardinality(Over)
  BY TimesAreNumbers DEF WarmInv, TypeOK, CountInv
<1>2. maps' = maps + 1 /\ clock' \in {clock, clock + 1}
  BY DEF WriteMap, Tick
<1>3. Emptied' = Emptied /\ Over' = Over
  BY DEF Emptied, Over
<1>4. /\ clock' \in Nat /\ maps' \in Nat /\ maps' <= MaxMaps + requests
      /\ clock' <= maps' + Cardinality(Emptied') + Cardinality(Over')
  BY <1>1, <1>2, <1>3, SetsOfNotes, WarmIndexAssumption
<1>5. clock' \in Times
  BY <1>1, <1>3, <1>4, InTimes, SetsOfNotes
<1>6. PICK size \in MapSizes :
        map' = [of |-> extracted, rewrite |-> maps',
                stat |-> [mtime |-> clock', size |-> size]]
  BY DEF WriteMap
<1>7. map' \in Maps /\ map'.of = extracted
  BY <1>4, <1>5, <1>6, WarmIndexAssumption DEF Maps, Stats
<1>8. /\ MidRequest => map' \in mapsSeen'
      /\ mapped' \subseteq 0 .. MaxEdits
  BY DEF WriteMap, See, WarmInv, TypeOK
<1> QED BY <1>2, <1>4, <1>5, <1>7, <1>8

LEMMA MapStep ==
    ASSUME WarmInv, Map
    PROVE  WarmInv'
<1>1. /\ maps < MaxMaps /\ requests \in Nat /\ maps \in Nat
      /\ \E extracted \in 0 .. tree : WriteMap(extracted)
      /\ UNCHANGED <<tree, notes, requestVars, trees, noteVars, edits, requests>>
  BY DEF Map, WarmInv, TypeOK
<1>2. maps < MaxMaps + requests
  BY <1>1, WarmIndexAssumption
<1>3. UNCHANGED <<at, tree, pc, index, own, requests>>
  BY <1>1 DEF requestVars, noteVars
<1>4. /\ clock' \in Times /\ map' \in Maps /\ mapped' \subseteq 0 .. MaxEdits
      /\ maps' \in Nat /\ maps' = maps + 1
      /\ clock' <= maps' + Cardinality(Emptied') + Cardinality(Over')
      /\ MidRequest => map' \in mapsSeen'
  <2>1. PICK extracted \in 0 .. tree : WriteMap(extracted)
    BY <1>1
  <2>2. extracted \in 0 .. MaxEdits
    BY <2>1, WarmIndexAssumption DEF WarmInv, TypeOK
  <2>3. UNCHANGED at
    BY <1>3
  <2> QED BY <1>2, <2>1, <2>2, <2>3, WriteMapTyped
<1>5. TypeOK'
  BY <1>1, <1>4 DEF WarmInv, TypeOK, requestVars, noteVars, MidRequest
<1>6. CountInv'
  BY <1>1, <1>3, <1>4, WarmIndexAssumption DEF WarmInv, CountInv, MidRequest
<1>7. HeldInv' /\ ViewsAgree'
  BY <1>3 DEF WarmInv, HeldInv, ViewsAgree
<1> QED BY <1>5, <1>6, <1>7 DEF WarmInv

LEMMA EditStep ==
    ASSUME WarmInv, Edit
    PROVE  WarmInv'
<1>1. /\ edits < MaxEdits /\ edits' = edits + 1 /\ tree' = tree + 1
      /\ trees' = See(trees, tree')
      /\ UNCHANGED <<clock, map, notes, mapsSeen, mapped, maps, requests>>
      /\ UNCHANGED <<index, pc, stat, judged, made, own, job, at, read>>
  BY DEF Edit, requestVars, noteVars
<1>2. edits \in 0 .. MaxEdits /\ tree \in 0 .. MaxEdits /\ tree <= edits
  BY DEF WarmInv, TypeOK, CountInv
<1>3. tree' \in 0 .. MaxEdits /\ edits' \in 0 .. MaxEdits /\ tree' <= edits'
  BY <1>1, <1>2, WarmIndexAssumption
<1>4. MidRequest => tree' \in trees'
  BY <1>1 DEF See
<1>5. TypeOK'
  BY <1>1, <1>3, <1>4 DEF WarmInv, TypeOK, MidRequest
<1>6. Emptied' = Emptied /\ Over' = Over
  BY <1>1 DEF Emptied, Over
<1>7. CountInv'
  BY <1>1, <1>3, <1>6 DEF WarmInv, CountInv, MidRequest
<1>8. HeldInv' /\ ViewsAgree'
  BY <1>1 DEF WarmInv, HeldInv, ViewsAgree
<1> QED BY <1>5, <1>7, <1>8 DEF WarmInv

LEMMA NoteTyped ==
    ASSUME WarmInv, NEW n \in Notes, NoteStep(n)
    PROVE  /\ clock' \in Times
           /\ clock' <= maps + Cardinality(Emptied') + Cardinality(Over')
           /\ notes' \in [records : SUBSET Notes, whole : BOOLEAN, stat : Stats]
           /\ at' \in [Notes -> {"load", "truncate", "write", "done"}]
           /\ read' \in [Notes -> SUBSET Notes]
<1>1. /\ clock \in Nat /\ clock \in Times /\ maps \in Nat
      /\ requests \in 0 .. MaxRequests /\ maps <= MaxMaps + requests
      /\ clock <= maps + Cardinality(Emptied) + Cardinality(Over)
      /\ notes \in [records : SUBSET Notes, whole : BOOLEAN, stat : Stats]
      /\ at \in [Notes -> {"load", "truncate", "write", "done"}]
      /\ read \in [Notes -> SUBSET Notes]
  BY TimesAreNumbers DEF WarmInv, TypeOK, CountInv
<1>2. Emptied' \in SUBSET Notes /\ Over' \in SUBSET Notes
  BY DEF Emptied, Over
<1>3. /\ Cardinality(Emptied') \in Nat /\ Cardinality(Over') \in Nat
      /\ Cardinality(Emptied) \in Nat /\ Cardinality(Over) \in Nat
  BY <1>2, Counted, SetsOfNotes
<1>4. /\ at' \in [Notes -> {"load", "truncate", "write", "done"}]
      /\ read' \in [Notes -> SUBSET Notes]
      /\ Emptied \subseteq Emptied' /\ Over \subseteq Over'
  <2>1. Parsed \subseteq Notes
    BY <1>1 DEF Parsed
  <2>2. at' \in [Notes -> {"load", "truncate", "write", "done"}]
    BY <1>1 DEF NoteStep, NoteLoad, NoteTruncate, NoteWrite, NoteDies
  <2>3. read' \in [Notes -> SUBSET Notes]
    BY <1>1, <2>1 DEF NoteStep, NoteLoad, NoteTruncate, NoteWrite, NoteDies
  <2>4. \A m \in Notes : at'[m] = at[m] \/ (m = n /\ at'[m] = "done")
                             \/ at[m] \in {"load", "truncate"}
    BY <1>1 DEF NoteStep, NoteLoad, NoteTruncate, NoteWrite, NoteDies
  <2> QED BY <2>2, <2>3, <2>4 DEF Emptied, Over
<1>5. /\ Cardinality(Emptied) <= Cardinality(Emptied')
      /\ Cardinality(Over) <= Cardinality(Over')
  BY <1>2, <1>4, Counted
<1>6. CASE NoteLoad(n) \/ NoteDies(n)
  <2>1. UNCHANGED <<clock, notes>>
    BY <1>6 DEF NoteLoad, NoteDies
  <2> QED BY <1>1, <1>3, <1>4, <1>5, <2>1
<1>7. CASE NoteTruncate(n) \/ NoteWrite(n)
  <2>1. clock' \in {clock, clock + 1} /\ clock' \in Nat
    BY <1>1, <1>7 DEF NoteTruncate, NoteWrite, Tick
  <2>2. clock' <= maps + Cardinality(Emptied') + Cardinality(Over')
    <3>1. CASE NoteTruncate(n)
      <4>1. n \notin Emptied /\ Emptied' = Emptied \cup {n}
        BY <1>1, <3>1 DEF NoteTruncate, Emptied
      <4>2. Cardinality(Emptied') = Cardinality(Emptied) + 1
        BY <4>1, SetsOfNotes, Counted
      <4> QED BY <1>1, <1>3, <1>5, <2>1, <4>2
    <3>2. CASE NoteWrite(n)
      <4>1. n \notin Over /\ Over' = Over \cup {n}
        BY <1>1, <3>2 DEF NoteWrite, Over
      <4>2. Cardinality(Over') = Cardinality(Over) + 1
        BY <4>1, SetsOfNotes, Counted
      <4> QED BY <1>1, <1>3, <1>5, <2>1, <4>2
    <3> QED BY <1>7, <3>1, <3>2
  <2>3. clock' \in Times
    BY <1>1, <1>2, <2>1, <2>2, InTimes
  <2>4. notes' \in [records : SUBSET Notes, whole : BOOLEAN, stat : Stats]
    <3>1. CASE NoteTruncate(n)
      BY <2>3, <3>1 DEF NoteTruncate, Stats
    <3>2. CASE NoteWrite(n)
      <4> DEFINE records == IF job[n] = "add" THEN read[n] \cup {n}
                                             ELSE read[n] \ {n}
      <4>1. records \in SUBSET Notes
        BY <1>1
      <4> HIDE DEF records
      <4>2. Cardinality(records) + 1 \in Nat
        <5>1. Cardinality(records) \in Nat
          BY <4>1, Counted
        <5> QED BY <5>1
      <4>3. notes' = [records |-> records, whole |-> TRUE,
                      stat |-> [mtime |-> clock',
                                size |-> Cardinality(records) + 1]]
        BY <3>2 DEF NoteWrite, records
      <4> QED BY <2>3, <4>1, <4>2, <4>3 DEF Stats
    <3> QED BY <1>7, <3>1, <3>2
  <2> QED BY <1>4, <2>2, <2>3, <2>4
<1> QED BY <1>6, <1>7 DEF NoteStep

LEMMA NoteStepHolds ==
    ASSUME WarmInv, NEW n \in Notes, NoteStep(n)
    PROVE  WarmInv'
<1>1. /\ UNCHANGED <<tree, map, trees, mapsSeen, mapped, edits, maps, requests>>
      /\ UNCHANGED <<index, pc, stat, judged, made, own, job>>
  BY DEF NoteStep, NoteLoad, NoteTruncate, NoteWrite, NoteDies, requestVars,
         seenVars, counters
<1>2. TypeOK'
  BY <1>1, NoteTyped DEF WarmInv, TypeOK
<1>3. CountInv'
  BY <1>1, NoteTyped DEF WarmInv, CountInv, MidRequest
<1>4. HeldInv' /\ ViewsAgree'
  BY <1>1 DEF WarmInv, HeldInv, ViewsAgree
<1> QED BY <1>2, <1>3, <1>4 DEF WarmInv

-----------------------------------------------------------------------------
\* The request.

Labels == {"idle", "match", "fresh", "notes", "refresh", "judge", "stat",
           "load", "recheck", "notes-stat", "notes-load", "regen", "write",
           "done"}

\* A step that only looks at what is on disk.
LookSteps == \/ MatchDisk \/ CheckFresh \/ StatNotes \/ RefreshNotes \/ Judge
             \/ StatMap \/ LoadMap \/ Recheck \/ StatNotesFirst \/ LoadNotes
             \/ Wait \/ Extract \/ FilterTests

LEMMA LookLeaves ==
    LookSteps => UNCHANGED <<world, counters, seenVars, own>>
  BY DEF LookSteps, MatchDisk, CheckFresh, StatNotes, RefreshNotes, Judge, StatMap,
         LoadMap, Recheck, StatNotesFirst, LoadNotes, Wait, Extract, FilterTests

LEMMA LookStep ==
    ASSUME WarmInv, UNCHANGED <<world, counters, seenVars, own>>,
           pc' \in Labels \ {"idle"}, stat' \in Stats, judged' \subseteq Maps,
           made' \in 0 .. MaxEdits,
           index' = NoIndex \/ index' \in Indexes,
           MidRequest \/ pc' = "done",
           pc' \notin {"idle", "done", "stat", "load", "notes-stat",
                       "notes-load"} => ~own,
           HeldInv', ViewsAgree'
    PROVE  WarmInv'
<1>1. /\ UNCHANGED <<clock, tree, map, notes, job, at, read>>
      /\ UNCHANGED <<edits, maps, requests, trees, mapsSeen, mapped, own>>
  BY DEF world, noteVars, counters, seenVars
<1>2. TypeOK'
  BY <1>1 DEF WarmInv, TypeOK, Labels, Indexes, MidRequest
<1>3. Emptied' = Emptied /\ Over' = Over
  BY <1>1 DEF Emptied, Over
<1>4. CountInv'
  BY <1>1, <1>3 DEF WarmInv, CountInv, MidRequest
<1> QED BY <1>2, <1>4 DEF WarmInv

LEMMA IndexSteps ==
    ASSUME WarmInv, RefreshNotes \/ LoadMap \/ LoadNotes \/ FilterTests
    PROVE  WarmInv'
<1>1. UNCHANGED <<world, counters, seenVars, own>>
  BY LookLeaves DEF LookSteps
<1>2. stat' \in Stats /\ judged' \subseteq Maps /\ made' \in 0 .. MaxEdits
  BY DEF RefreshNotes, LoadMap, LoadNotes, FilterTests, WarmInv, TypeOK
<1>3. /\ Parsed \in SUBSET Notes /\ map \in Maps /\ stat \in Stats
      /\ NoStat \in Stats
  <2>1. /\ notes \in [records : SUBSET Notes, whole : BOOLEAN, stat : Stats]
        /\ map \in Maps /\ stat \in Stats
    BY DEF WarmInv, TypeOK
  <2>2. NoStat \in Stats
    BY WarmIndexAssumption, Counted DEF NoStat, Stats, Times
  <2> QED BY <2>1, <2>2 DEF Parsed
<1>4. CASE RefreshNotes
  <2>1. index \in Indexes
    BY <1>4, IndexType DEF RefreshNotes, WarmInv, HeldInv
  <2>2. /\ index' = [index EXCEPT !.notes = Parsed, !.notesStat = stat,
                                  !.view = {}]
        /\ pc = "refresh" /\ pc' = "done"
    BY <1>4 DEF RefreshNotes, Reset, Goto
  <2>3. index' \in Indexes /\ index'.held /\ index'.view = {}
    BY <1>3, <2>1, <2>2 DEF Indexes
  <2>4. HeldInv' /\ ViewsAgree'
    BY <2>2, <2>3 DEF HeldInv, ViewsAgree
  <2> QED BY <1>1, <1>2, <2>2, <2>3, <2>4, LookStep DEF Labels
<1>5. CASE LoadMap
  <2>1. index' = Loaded(map) /\ pc' = "notes-stat" /\ pc = "load"
    BY <1>5 DEF LoadMap, Goto
  <2>2. index' \in Indexes /\ index'.held /\ index'.view = {}
    BY <1>3, <2>1 DEF Loaded, Indexes
  <2>3. HeldInv' /\ ViewsAgree'
    BY <2>1, <2>2 DEF HeldInv, ViewsAgree
  <2> QED BY <1>1, <1>2, <2>1, <2>2, <2>3, LookStep DEF Labels, MidRequest
<1>6. CASE LoadNotes
  <2>1. index \in Indexes /\ index.view = {}
    BY <1>6, IndexType DEF LoadNotes, WarmInv, HeldInv
  <2>2. /\ index' = [index EXCEPT !.notes = Parsed, !.notesStat = stat]
        /\ pc = "notes-load" /\ pc' \in {"done", "recheck"}
        /\ pc' = "recheck" => ~own
    BY <1>6 DEF LoadNotes, Goto, Vouched
  <2>3. index' \in Indexes /\ index'.held /\ index'.view = {}
    BY <1>3, <2>1, <2>2 DEF Indexes
  <2>4. HeldInv' /\ ViewsAgree'
    BY <2>2, <2>3 DEF HeldInv, ViewsAgree
  <2> QED BY <1>1, <1>2, <2>2, <2>3, <2>4, LookStep DEF Labels, MidRequest
<1>7. CASE FilterTests
  <2>1. /\ index \in Indexes /\ index.notes \in SUBSET Notes
        /\ index' = [index EXCEPT !.view = {index.notes}]
        /\ pc = "done" /\ pc' = "done"
    BY <1>7, IndexType DEF FilterTests, WarmInv, Indexes
  <2>2. /\ index' \in Indexes /\ index'.held /\ index'.view = {index'.notes}
    BY <2>1 DEF Indexes
  <2>3. HeldInv' /\ ViewsAgree'
    BY <2>1, <2>2 DEF HeldInv, ViewsAgree
  <2> QED BY <1>1, <1>2, <2>1, <2>2, <2>3, LookStep DEF Labels
<1> QED BY <1>4, <1>5, <1>6, <1>7

LEMMA OtherLooks ==
    ASSUME WarmInv,
           \/ MatchDisk \/ CheckFresh \/ StatNotes \/ Judge \/ StatMap
           \/ Recheck \/ StatNotesFirst \/ Wait \/ Extract
    PROVE  WarmInv'
<1>1. UNCHANGED <<world, counters, seenVars, own>>
  BY LookLeaves DEF LookSteps
<1>2. UNCHANGED index /\ (index' = NoIndex \/ index' \in Indexes)
  BY DEF MatchDisk, CheckFresh, StatNotes, Judge, StatMap, Recheck,
         StatNotesFirst, Wait, Extract, WarmInv, TypeOK, Indexes
<1>3. stat' \in Stats /\ judged' \subseteq Maps /\ made' \in 0 .. MaxEdits
  <2>1. /\ stat \in Stats /\ judged \subseteq Maps /\ map \in Maps
        /\ map.stat \in Stats /\ notes.stat \in Stats
        /\ made \in 0 .. MaxEdits /\ tree \in 0 .. MaxEdits
    BY DEF WarmInv, TypeOK, Maps
  <2> QED BY <2>1 DEF MatchDisk, CheckFresh, StatNotes, Judge, StatMap, Recheck,
                      StatNotesFirst, Wait, Extract
<1>4. /\ MidRequest /\ pc' \in Labels \ {"idle"}
      /\ pc' \notin {"idle", "done", "stat", "load", "notes-stat",
                     "notes-load"} => ~own
  BY DEF MatchDisk, CheckFresh, StatNotes, Judge, StatMap, Recheck,
         StatNotesFirst, Wait, Extract, Goto, MidRequest, Labels, WarmInv, CountInv
<1>5. HeldInv'
  BY <1>2 DEF MatchDisk, CheckFresh, StatNotes, Judge, StatMap, Recheck,
              StatNotesFirst, Wait, Extract, Goto, WarmInv, HeldInv
<1>6. ViewsAgree'
  BY <1>2 DEF WarmInv, ViewsAgree
<1> QED BY <1>1, <1>2, <1>3, <1>4, <1>5, <1>6, LookStep

LEMMA BeginStep ==
    ASSUME WarmInv, Request
    PROVE  WarmInv'
<1>1. /\ ~MidRequest /\ requests < MaxRequests /\ requests' = requests + 1
      /\ pc' = (IF index = NoIndex THEN "judge" ELSE "match") /\ own' = FALSE
      /\ stat' = NoStat /\ judged' = {} /\ made' = 0
      /\ trees' = {tree} /\ mapsSeen' = {map}
      /\ UNCHANGED <<clock, tree, map, notes, job, at, read>>
      /\ UNCHANGED <<index, mapped, edits, maps>>
  BY DEF Request, Goto, world, noteVars
<1>2. requests' \in 0 .. MaxRequests /\ requests' >= 1
  BY <1>1, WarmIndexAssumption DEF WarmInv, TypeOK
<1>3. TypeOK'
  <2>1. stat' \in Stats /\ made' \in 0 .. MaxEdits
    BY <1>1, WarmIndexAssumption, Counted DEF NoStat, Stats, Times
  <2> QED BY <1>1, <1>2, <2>1 DEF WarmInv, TypeOK
<1>4. CountInv'
  <2>1. Emptied' = Emptied /\ Over' = Over
    BY <1>1 DEF Emptied, Over
  <2>2. maps' <= MaxMaps + requests /\ maps' \in Nat /\ requests \in Nat
    BY <1>1 DEF WarmInv, TypeOK, CountInv
  <2>3. maps' < MaxMaps + requests' /\ maps' <= MaxMaps + requests'
    BY <1>1, <2>2, WarmIndexAssumption
  <2> QED BY <1>1, <1>2, <2>1, <2>3 DEF WarmInv, CountInv, MidRequest
<1>5. HeldInv' /\ ViewsAgree'
  BY <1>1, IndexType DEF WarmInv, TypeOK, HeldInv, ViewsAgree, Indexes
<1> QED BY <1>3, <1>4, <1>5 DEF WarmInv

LEMMA RegenStep ==
    ASSUME WarmInv, Regen
    PROVE  WarmInv'
<1>1. /\ pc = "write" /\ pc' = "stat" /\ WriteMap(made) /\ own' = TRUE
      /\ UNCHANGED <<tree, notes, index, stat, judged, made, trees, job, at, read>>
      /\ UNCHANGED <<edits, requests>> /\ made \in 0 .. MaxEdits
  BY DEF Regen, Goto, noteVars, WarmInv, TypeOK
<1>2. MidRequest /\ maps < MaxMaps + requests
  BY <1>1 DEF WarmInv, CountInv, MidRequest
<1>3. /\ clock' \in Times /\ map' \in Maps
      /\ maps' \in Nat /\ maps' = maps + 1
      /\ clock' <= maps' + Cardinality(Emptied') + Cardinality(Over')
      /\ map' \in mapsSeen' /\ mapped' \subseteq 0 .. MaxEdits
  BY <1>1, <1>2, WriteMapTyped
<1>4. TypeOK'
  BY <1>1, <1>2, <1>3 DEF WarmInv, TypeOK, MidRequest
<1>5. CountInv'
  <2>1. maps' <= MaxMaps + requests /\ requests >= 1
    BY <1>2, <1>3, WarmIndexAssumption DEF WarmInv, TypeOK, CountInv
  <2> QED BY <1>1, <1>3, <2>1 DEF WarmInv, CountInv
<1>6. HeldInv' /\ ViewsAgree'
  BY <1>1 DEF WarmInv, HeldInv, ViewsAgree
<1> QED BY <1>4, <1>5, <1>6 DEF WarmInv

\* A regen that finds nothing to do only marks the map as its own.
LEMMA NoopStep ==
    ASSUME WarmInv, Noop
    PROVE  WarmInv'
<1>1. /\ pc = "regen" /\ pc' = "stat" /\ own' = TRUE
      /\ UNCHANGED <<clock, tree, map, notes, job, at, read>>
      /\ UNCHANGED <<index, stat, judged, made, trees, mapsSeen, mapped>>
      /\ UNCHANGED <<edits, maps, requests>>
  BY DEF Noop, Goto, world, noteVars, seenVars, counters
<1>2. TypeOK'
  BY <1>1 DEF WarmInv, TypeOK, MidRequest
<1>3. Emptied' = Emptied /\ Over' = Over
  BY <1>1 DEF Emptied, Over
<1>4. CountInv'
  BY <1>1, <1>3 DEF WarmInv, CountInv, MidRequest
<1>5. HeldInv' /\ ViewsAgree'
  BY <1>1 DEF WarmInv, HeldInv, ViewsAgree
<1> QED BY <1>2, <1>4, <1>5 DEF WarmInv

LEMMA WarmStep == WarmInv /\ [Next]_vars => WarmInv'
<1> SUFFICES ASSUME WarmInv, [Next]_vars PROVE WarmInv'
  OBVIOUS
<1>1. CASE UNCHANGED vars
  <2>1. /\ UNCHANGED <<clock, tree, map, notes, job, at, read>>
        /\ UNCHANGED <<index, pc, stat, judged, made, own, trees, mapsSeen, mapped>>
        /\ UNCHANGED <<edits, maps, requests>>
    BY <1>1 DEF vars, requestVars, seenVars, noteVars, counters
  <2>2. Emptied' = Emptied /\ Over' = Over
    BY <2>1 DEF Emptied, Over
  <2> QED BY <2>1, <2>2 DEF WarmInv, TypeOK, CountInv, HeldInv, ViewsAgree,
                            MidRequest
<1>2. CASE Step
  BY <1>2, IndexSteps, OtherLooks, BeginStep, NoopStep, RegenStep DEF Step
<1>3. CASE Edit \/ Map \/ \E n \in Notes : NoteStep(n)
  BY <1>3, EditStep, MapStep, NoteStepHolds
<1> QED BY <1>1, <1>2, <1>3 DEF Next

LEMMA WarmInvariant == Spec => []WarmInv
  BY InitHolds, WarmStep, PTL DEF Spec

(***************************************************************************)
(* The index, the request and the files keep their types; with it, that    *)
(* the clock never passes its bound: a request regenerates the map once at *)
(* most, and is not sent round again by what it wrote (load_or_regen).     *)
(***************************************************************************)
THEOREM TypeCorrect == Spec => []TypeOK
<1>1. WarmInv => TypeOK
  BY DEF WarmInv
<1> QED BY <1>1, WarmInvariant, PTL

(***************************************************************************)
(* The copy of the index without tests never shows other notes than the    *)
(* index (refresh_notes drops it, without_tests makes it anew).            *)
(***************************************************************************)
THEOREM ViewsSafe == Spec => []ViewsAgree
<1>1. WarmInv => ViewsAgree
  BY DEF WarmInv
<1> QED BY <1>1, WarmInvariant, PTL

-----------------------------------------------------------------------------
(***************************************************************************)
(* When every write has a tick of its own, a file that is written gets a   *)
(* signature nobody can have taken before, and the one the index starts    *)
(* with is no file's.  So a signature taken before the read is either that *)
(* of what was read, or of no file that will ever be there.                *)
(***************************************************************************)
SignatureInv ==
    /\ map.stat.mtime <= clock /\ notes.stat.mtime <= clock
    /\ stat.mtime <= clock
    /\ notes.stat # NoStat
    /\ index.held =>
        /\ index.mapStat.mtime <= clock /\ index.notesStat.mtime <= clock
        /\ index.mapStat = map.stat => index.map = map
        /\ index.notesStat = notes.stat => index.notes = Parsed

LEMMA MtimesAreNumbers ==
    ASSUME WarmInv
    PROVE  /\ map.stat.mtime \in Nat /\ notes.stat.mtime \in Nat
           /\ stat.mtime \in Nat /\ clock \in Nat
           /\ index.held => /\ index.mapStat.mtime \in Nat
                            /\ index.notesStat.mtime \in Nat
<1>1. \A s \in Stats : s.mtime \in Nat
  BY TimesAreNumbers DEF Stats
<1>2. map.stat \in Stats /\ notes.stat \in Stats /\ stat \in Stats
      /\ clock \in Nat
  BY TimesAreNumbers DEF WarmInv, TypeOK, Maps
<1>3. index.held => index.mapStat \in Stats /\ index.notesStat \in Stats
  BY IndexType DEF WarmInv, Indexes
<1> QED BY <1>1, <1>2, <1>3

LEMMA SignatureInit == Init => SignatureInv
<1> SUFFICES ASSUME Init PROVE SignatureInv
  OBVIOUS
<1>1. map.stat.mtime = 0 /\ stat.mtime = 0 /\ clock = 0 /\ ~index.held
  BY DEF Init, NoStat, NoIndex
<1>2. notes.stat.mtime = 0 /\ notes.stat # NoStat
  <2> DEFINE there == {n \in Notes : job[n] = "remove"}
  <2>1. Cardinality(there) \in Nat
    BY Counted
  <2> HIDE DEF there
  <2>2. notes = [records |-> there, whole |-> TRUE,
                 stat |-> [mtime |-> 0, size |-> Cardinality(there) + 1]]
    BY DEF Init, there
  <2>3. notes.stat.size = Cardinality(there) + 1 /\ notes.stat.mtime = 0
    BY <2>2
  <2>4. NoStat.size = 0
    BY DEF NoStat
  <2> QED BY <2>1, <2>3, <2>4
<1> QED BY <1>1, <1>2 DEF SignatureInv

LEMMA SignatureStep ==
    ASSUME CoarseClock = FALSE, WarmInv, WarmInv', SignatureInv, [Next]_vars
    PROVE  SignatureInv'
<1> USE MtimesAreNumbers
<1>1. CASE Map \/ Regen
  <2>1. /\ clock' = clock + 1 /\ map'.stat.mtime = clock'
        /\ UNCHANGED <<notes, index, stat>>
    <3>1. PICK extracted \in 0 .. tree \cup {made} : WriteMap(extracted)
      BY <1>1 DEF Map, Regen
    <3> QED BY <1>1, <3>1 DEF Map, Regen, WriteMap, Tick, requestVars
  <2>2. index.held => index.mapStat # map'.stat
    BY <2>1 DEF SignatureInv
  <2> QED BY <2>1, <2>2 DEF SignatureInv, Parsed
<1>2. CASE \E n \in Notes : NoteTruncate(n) \/ NoteWrite(n)
  <2>1. PICK n \in Notes : NoteTruncate(n) \/ NoteWrite(n)
    BY <1>2
  <2>2. /\ clock' = clock + 1 /\ notes'.stat.mtime = clock'
        /\ UNCHANGED <<map, index, stat>>
    BY <2>1 DEF NoteTruncate, NoteWrite, Tick, requestVars
  <2>3. index.held => index.notesStat # notes'.stat
    BY <2>2 DEF SignatureInv
  <2>4. notes'.stat # NoStat
    <3>1. NoStat.mtime = 0
      BY DEF NoStat
    <3> QED BY <2>2, <3>1
  <2> QED BY <2>2, <2>3, <2>4 DEF SignatureInv
<1>3. CASE UNCHANGED <<clock, map, notes>> /\ UNCHANGED index
            /\ stat' \in {stat, map.stat, notes.stat, NoStat}
  <2>1. NoStat.mtime = 0
    BY DEF NoStat
  <2> QED BY <1>3, <2>1 DEF SignatureInv, Parsed
<1>4. CASE LoadMap
  <2>1. /\ index' = Loaded(map) /\ UNCHANGED <<clock, map, notes, stat>>
    BY <1>4 DEF LoadMap, world
  <2>2. /\ index'.map = map /\ index'.mapStat = stat
        /\ index'.notesStat = NoStat /\ NoStat.mtime = 0
    BY <2>1 DEF Loaded, NoStat
  <2> QED BY <2>1, <2>2 DEF SignatureInv
<1>5. CASE RefreshNotes \/ LoadNotes
  <2>1. index \in Indexes /\ index.held
    BY <1>5, IndexType DEF RefreshNotes, LoadNotes, WarmInv, HeldInv
  <2>2. UNCHANGED <<clock, map, notes, stat>>
    BY <1>5 DEF RefreshNotes, LoadNotes, world
  <2>3. /\ index'.map = index.map /\ index'.mapStat = index.mapStat
        /\ index'.notesStat = stat /\ index'.notes = Parsed
    BY <1>5, <2>1 DEF RefreshNotes, LoadNotes, Indexes
  <2> QED BY <2>1, <2>2, <2>3 DEF SignatureInv, Parsed
<1>6. CASE FilterTests
  <2>1. index \in Indexes /\ UNCHANGED <<clock, map, notes, stat>>
    BY <1>6, IndexType DEF FilterTests, WarmInv, world
  <2>2. /\ index'.map = index.map /\ index'.mapStat = index.mapStat
        /\ index'.notesStat = index.notesStat /\ index'.notes = index.notes
        /\ index.held
    BY <1>6, <2>1 DEF FilterTests, Indexes
  <2> QED BY <2>1, <2>2 DEF SignatureInv, Parsed
<1>7. CASE UNCHANGED vars
  BY <1>3, <1>7 DEF vars, requestVars
<1>8. CASE \/ Request \/ MatchDisk \/ CheckFresh \/ StatNotes \/ Judge
           \/ StatMap \/ StatNotesFirst \/ Recheck \/ Wait \/ Extract \/ Noop
  BY <1>3, <1>8 DEF Request, MatchDisk, CheckFresh, StatNotes, Judge, StatMap,
                    StatNotesFirst, Recheck, Wait, Extract, Noop, world
<1>9. CASE Edit \/ \E n \in Notes : NoteLoad(n) \/ NoteDies(n)
  BY <1>3, <1>9 DEF Edit, NoteLoad, NoteDies, requestVars
<1> QED BY <1>1, <1>2, <1>4, <1>5, <1>6, <1>7, <1>8, <1>9 DEF Next, Step, NoteStep

(***************************************************************************)
(* An index whose signatures are those of the files holds what the files   *)
(* hold, so that nothing stale can be served for longer than one request   *)
(* (load_map and notes.load take the signature before they read), provided *)
(* that no two writes share a timestamp.                                   *)
(***************************************************************************)
THEOREM SignaturesSafe ==
    ASSUME CoarseClock = FALSE
    PROVE  Spec => []SignatureMeansContent
<1>1. SignatureInv => SignatureMeansContent
  BY DEF SignatureInv, SignatureMeansContent
<1>2. WarmInv /\ WarmInv' /\ SignatureInv /\ [Next]_vars => SignatureInv'
  BY SignatureStep
<1> QED BY <1>1, <1>2, SignatureInit, WarmInvariant, PTL DEF Spec

-----------------------------------------------------------------------------
(***************************************************************************)
(* What a request knows of the map it will answer from.  Judging a map and *)
(* parsing it are two reads, and between them the map may be replaced by   *)
(* any other, an older one too.  The tree is one the request saw because   *)
(* it held an index of it, because the sidecar it judged was of the map it *)
(* then parsed, or because it looked once more; after a regen of its own   *)
(* it does not know.                                                       *)
(***************************************************************************)
AnswerInv ==
    /\ pc \in {"fresh", "notes", "refresh", "notes-stat", "notes-load",
               "recheck", "done"} => index.map \in mapsSeen
    /\ pc \in {"notes", "refresh"} => index.map.of \in trees
    /\ pc = "done" /\ ~own => index.map.of \in trees
    /\ pc \in {"stat", "load", "notes-stat", "notes-load"} =>
            own \/ \A m \in judged : m.of \in trees

LEMMA AnswerStep ==
    ASSUME WarmInv, WarmInv', SignatureInv, AnswerInv, [Next]_vars
    PROVE  AnswerInv'
<1>1. MidRequest => tree \in trees /\ map \in mapsSeen
  BY DEF WarmInv, TypeOK, MidRequest
<1>2. CASE Map
  <2>1. UNCHANGED <<trees, index, pc, own, judged>> /\ mapsSeen \subseteq mapsSeen'
    BY <1>2 DEF Map, WriteMap, See, requestVars
  <2> QED BY <2>1 DEF AnswerInv
<1>3. CASE Regen \/ Noop
  <2>1. pc' = "stat" /\ own'
    BY <1>3 DEF Regen, Noop, Goto
  <2> QED BY <2>1 DEF AnswerInv
<1>4. CASE Edit \/ (\E n \in Notes : NoteStep(n)) \/ UNCHANGED vars
  <2>1. /\ UNCHANGED <<map, mapsSeen, index, pc, own, judged>>
        /\ trees \subseteq trees'
    BY <1>4 DEF Edit, See, NoteStep, NoteLoad, NoteTruncate, NoteWrite, NoteDies,
                requestVars, seenVars, vars
  <2> QED BY <2>1 DEF AnswerInv
<1>5. CASE Request
  BY <1>5 DEF Request, Goto, AnswerInv
<1>6. CASE LookSteps
  <2>1. UNCHANGED <<tree, map, trees, mapsSeen, own>>
    BY <1>6, LookLeaves DEF world, seenVars
  <2>2. CASE MatchDisk
    <3>1. pc = "match" /\ UNCHANGED index /\ index.held
          /\ pc' = IF Matches THEN "fresh" ELSE "judge"
      BY <2>2 DEF MatchDisk, Goto, WarmInv, HeldInv
    <3>2. Matches => index.map = map
      BY <3>1 DEF Matches, SignatureInv
    <3> QED BY <1>1, <2>1, <3>1, <3>2 DEF AnswerInv, MidRequest
  <2>3. CASE CheckFresh \/ StatNotes \/ StatMap \/ StatNotesFirst \/ Recheck
    BY <1>1, <2>1, <2>3
    DEF CheckFresh, StatNotes, StatMap, StatNotesFirst, Recheck, Goto, AnswerInv,
        MidRequest
  <2>4. CASE Judge \/ Wait \/ Extract
    BY <1>1, <2>1, <2>4 DEF Judge, Wait, Extract, Goto, AnswerInv, MidRequest
  <2>5. CASE LoadMap
    <3>1. /\ pc = "load" /\ pc' = "notes-stat" /\ UNCHANGED judged
          /\ index'.map = map
      BY <2>5 DEF LoadMap, Goto, Loaded
    <3> QED BY <1>1, <2>1, <3>1 DEF AnswerInv, MidRequest
  <2>6. CASE RefreshNotes \/ LoadNotes \/ FilterTests
    <3>1. index \in Indexes
      BY <2>6, IndexType DEF RefreshNotes, LoadNotes, FilterTests, WarmInv, HeldInv
    <3>2. index'.map = index.map
      BY <2>6, <3>1 DEF RefreshNotes, LoadNotes, FilterTests, Indexes
    <3> QED BY <2>1, <2>6, <3>2
            DEF RefreshNotes, LoadNotes, FilterTests, Goto, Vouched, AnswerInv
  <2> QED BY <1>6, <2>2, <2>3, <2>4, <2>5, <2>6 DEF LookSteps
<1> QED BY <1>2, <1>3, <1>4, <1>5, <1>6 DEF Next, Step, LookSteps

(***************************************************************************)
(* The index a request answers from was map.json at some moment since the  *)
(* request began and, unless it was loaded after a regen of the request's  *)
(* own, of a tree that was there since then (_WarmCache.get,               *)
(* load_or_regen, _index_for).  Other processes may replace the map at any *)
(* moment by one of any earlier tree; no two writes share a timestamp.     *)
(***************************************************************************)
THEOREM AnswersSafe ==
    ASSUME CoarseClock = FALSE
    PROVE  Spec => []AnswerIsCurrent
<1>1. Init => AnswerInv
  BY DEF Init, AnswerInv
<1>2. WarmInv /\ WarmInv' /\ SignatureInv /\ [Next]_vars => SignatureInv'
  BY SignatureStep
<1>3. WarmInv /\ WarmInv' /\ SignatureInv /\ AnswerInv /\ [Next]_vars
        => AnswerInv'
  BY AnswerStep
<1>4. AnswerInv => AnswerIsCurrent
  BY DEF AnswerInv, AnswerIsCurrent
<1> QED BY <1>1, <1>2, <1>3, <1>4, SignatureInit, WarmInvariant, PTL DEF Spec
===============================================================================
