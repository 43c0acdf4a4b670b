------------------------------- MODULE WarmIndex -------------------------------
(***************************************************************************)
(* The index a long-lived process keeps in memory: the daemon's _WarmCache  *)
(* and the MCP server's index_cache, over a map.json that other processes   *)
(* replace and a notes.json that other processes edit.                      *)
(*                                                                         *)
(* Whether the copy is still the file on disk is told from signatures, the  *)
(* modification time and the size; the time only advances in ticks.         *)
(***************************************************************************)
EXTENDS Naturals, FiniteSets

CONSTANTS
    Notes,              \* note records, each added by a command of its own
    MapSizes,           \* sizes map.json may have
    MaxEdits, MaxMaps, MaxRequests,     \* bounds
    CoarseClock,        \* may two writes share a timestamp?
    Dies                \* may a note command be killed?

ASSUME WarmIndexAssumption ==
    /\ {MaxEdits, MaxMaps, MaxRequests} \subseteq Nat
    /\ MapSizes \subseteq Nat
    /\ IsFiniteSet(Notes)
    /\ {CoarseClock, Dies} \subseteq BOOLEAN

VARIABLES
    clock,
    tree,       \* the working tree, by the number of edits so far
    map,        \* map.json: the tree it was made of, which rewrite it is, its stat
    notes,      \* notes.json: its records, whether it parses, its stat
    index,      \* the MapIndex in memory
    pc,         \* the request
    stat,       \* the signature the request took last
    judged,     \* the map whose sidecar it found fresh, if any
    made,       \* the tree it extracted last
    own,        \* has it regenerated the map?
    trees, mapsSeen,    \* history: what was there since the request began
    mapped,     \* history: the trees a map has been written of
    job,        \* each note command: add it or remove it
    at,         \* where it is
    read,       \* what it loaded
    edits, maps, requests

requestVars == <<index, pc, stat, judged, made, own>>
seenVars == <<trees, mapsSeen, mapped>>
noteVars == <<job, at, read>>
counters == <<edits, maps, requests>>
vars == <<clock, tree, map, notes, requestVars, seenVars, noteVars, counters>>

Times == 0 .. MaxMaps + MaxRequests + 2 * Cardinality(Notes)
Stats == [mtime : Times, size : Nat]
Maps == [of : 0 .. MaxEdits, rewrite : Nat, stat : Stats]
NoStat == [mtime |-> 0, size |-> 0]
NoIndex == [held |-> FALSE]

TypeOK ==
    /\ clock \in Times
    /\ tree \in 0 .. MaxEdits
    /\ map \in Maps
    /\ notes \in [records : SUBSET Notes, whole : BOOLEAN, stat : Stats]
    /\ index = NoIndex \/ index \in
        [held : {TRUE}, map : Maps, mapStat : Stats, notes : SUBSET Notes,
         notesStat : Stats, view : {{}} \cup {{v} : v \in SUBSET Notes}]
    /\ pc \in {"idle", "match", "fresh", "notes", "refresh", "judge", "stat",
               "load", "recheck", "notes-stat", "notes-load", "regen", "write",
               "done"}
    /\ stat \in Stats
    /\ judged \subseteq Maps /\ made \in 0 .. MaxEdits /\ own \in BOOLEAN
    /\ pc \notin {"idle", "done"} => tree \in trees /\ map \in mapsSeen
    /\ mapped \subseteq 0 .. MaxEdits
    /\ job \in [Notes -> {"add", "remove"}]
    /\ at \in [Notes -> {"load", "truncate", "write", "done"}]
    /\ read \in [Notes -> SUBSET Notes]
    /\ edits \in 0 .. MaxEdits /\ maps \in Nat /\ requests \in 0 .. MaxRequests

Init ==
    /\ clock = 0 /\ tree = 0
    /\ \E size \in MapSizes :
        map = [of |-> 0, rewrite |-> 0, stat |-> [mtime |-> 0, size |-> size]]
    /\ job \in [Notes -> {"add", "remove"}]
    /\ LET there == {n \in Notes : job[n] = "remove"}
       IN  notes = [records |-> there, whole |-> TRUE,
                    stat |-> [mtime |-> 0, size |-> Cardinality(there) + 1]]
    /\ index = NoIndex
    /\ pc = "idle" /\ stat = NoStat /\ judged = {} /\ made = 0 /\ own = FALSE
    /\ trees = {} /\ mapsSeen = {} /\ mapped = {0}
    /\ at = [n \in Notes |-> "load"]
    /\ read = [n \in Notes |-> {}]
    /\ edits = 0 /\ maps = 0 /\ requests = 0

MidRequest == pc \notin {"idle", "done"}
See(set, x) == IF MidRequest THEN set \cup {x} ELSE set

\* A write happens now: in a tick of its own, unless the clock is coarse.
Tick == clock' \in {clock + 1} \cup (IF CoarseClock THEN {clock} ELSE {})

-----------------------------------------------------------------------------
\* Other processes.

Edit ==
    /\ edits < MaxEdits /\ edits' = edits + 1
    /\ tree' = tree + 1
    /\ trees' = See(trees, tree')
    /\ UNCHANGED <<clock, map, notes, requestVars, mapsSeen, mapped, noteVars,
                   maps, requests>>

\* atomic_write_bytes of a new map.json, of a tree extracted earlier.
WriteMap(extracted) ==
    /\ Tick
    /\ maps' = maps + 1
    /\ \E size \in MapSizes :
        map' = [of |-> extracted, rewrite |-> maps',
                stat |-> [mtime |-> clock', size |-> size]]
    /\ mapsSeen' = See(mapsSeen, map')
    /\ mapped' = mapped \cup {extracted}

\* Another process's `dekko map`, by whatever build.  It takes no lock, and may
\* have extracted any tree there has been, so it can put an older map over a
\* newer one.
Map ==
    /\ maps < MaxMaps
    /\ \E extracted \in 0 .. tree : WriteMap(extracted)
    /\ UNCHANGED <<tree, notes, requestVars, trees, noteVars, edits, requests>>

\* notes.load: a file that does not parse holds no notes.
Parsed == IF notes.whole THEN notes.records ELSE {}

NoteLoad(n) ==
    /\ at[n] = "load"
    /\ read' = [read EXCEPT ![n] = Parsed]
    /\ at' = [at EXCEPT ![n] =
                IF job[n] = "remove" /\ n \notin Parsed THEN "done" ELSE "truncate"]
    /\ UNCHANGED <<clock, tree, map, notes, requestVars, seenVars, job, counters>>

\* write_text opens the file, which empties it ...
NoteTruncate(n) ==
    /\ at[n] = "truncate"
    /\ Tick
    /\ notes' = [records |-> {}, whole |-> FALSE,
                 stat |-> [mtime |-> clock', size |-> 0]]
    /\ at' = [at EXCEPT ![n] = "write"]
    /\ UNCHANGED <<tree, map, requestVars, seenVars, job, read, counters>>

\* ... and then writes what was loaded, changed.
NoteWrite(n) ==
    /\ at[n] = "write"
    /\ Tick
    /\ LET records == IF job[n] = "add" THEN read[n] \cup {n} ELSE read[n] \ {n}
       IN  notes' = [records |-> records, whole |-> TRUE,
                     stat |-> [mtime |-> clock', size |-> Cardinality(records) + 1]]
    /\ at' = [at EXCEPT ![n] = "done"]
    /\ UNCHANGED <<tree, map, requestVars, seenVars, job, read, counters>>

NoteDies(n) ==
    /\ Dies /\ at[n] # "done"
    /\ at' = [at EXCEPT ![n] = "done"]
    /\ UNCHANGED <<clock, tree, map, notes, requestVars, seenVars, job, read,
                   counters>>

-----------------------------------------------------------------------------
\* One request of the long-lived process: _WarmCache.get and load_or_regen, or
\* _index_for.

Goto(label) == pc' = label
world == <<clock, tree, map, notes, noteVars>>

Request ==
    /\ ~MidRequest
    /\ requests < MaxRequests /\ requests' = requests + 1
    /\ Goto(IF index = NoIndex THEN "judge" ELSE "match")
    /\ stat' = NoStat /\ judged' = {} /\ made' = 0 /\ own' = FALSE
    /\ trees' = {tree} /\ mapsSeen' = {map}
    /\ UNCHANGED <<world, index, mapped, edits, maps>>

\* Mutant of Matches: an upgrade's rewrite of the map goes unnoticed.
AnyMap == TRUE

\* index_matches_disk
Matches == index.mapStat = map.stat

MatchDisk ==
    /\ pc = "match"
    /\ Goto(IF Matches THEN "fresh" ELSE "judge")
    /\ UNCHANGED <<world, index, stat, judged, made, own, seenVars, counters>>

\* check_freshness of the copy's own provenance
CheckFresh ==
    /\ pc = "fresh"
    /\ Goto(IF index.map.of = tree THEN "notes" ELSE "judge")
    /\ UNCHANGED <<world, index, stat, judged, made, own, seenVars, counters>>

\* refresh_notes: the stat, and only if it has changed the read.
StatNotes ==
    /\ pc = "notes"
    /\ stat' = notes.stat
    /\ Goto(IF notes.stat = index.notesStat THEN "done" ELSE "refresh")
    /\ UNCHANGED <<world, index, judged, made, own, seenVars, counters>>

\* Mutant of Reset: the filtered copy keeps the notes it was made with.
KeepView(view) == view

\* index._without_tests = None
Reset(view) == {}

RefreshNotes ==
    /\ pc = "refresh"
    /\ index' = [index EXCEPT !.notes = Parsed, !.notesStat = stat,
                              !.view = Reset(@)]
    /\ Goto("done")
    /\ UNCHANGED <<world, stat, judged, made, own, seenVars, counters>>

\* _judge_current_map, by the provenance sidecar; without a usable one the map
\* is parsed first.
Judge ==
    /\ pc = "judge"
    /\ \/ judged' = {map} /\ Goto(IF map.of = tree THEN "stat" ELSE "regen")
       \/ judged' = {} /\ Goto("stat")
    /\ UNCHANGED <<world, index, stat, made, own, seenVars, counters>>

\* load_map takes the signature before it reads.
StatMap ==
    /\ pc = "stat"
    /\ stat' = map.stat
    /\ Goto("load")
    /\ UNCHANGED <<world, index, judged, made, own, seenVars, counters>>

Loaded(content) ==
    [held |-> TRUE, map |-> content, mapStat |-> stat, notes |-> {},
     notesStat |-> NoStat, view |-> {}]

\* Mutant of LoadMap: what it parses was read before the signature was taken.
LoadMapReadFirst ==
    /\ pc = "load"
    /\ \E content \in judged : index' = Loaded(content)
    /\ Goto("notes-stat")
    /\ UNCHANGED <<world, stat, judged, made, own, seenVars, counters>>

LoadMap ==
    /\ pc = "load"
    /\ index' = Loaded(map)
    /\ Goto("notes-stat")
    /\ UNCHANGED <<world, stat, judged, made, own, seenVars, counters>>

StatNotesFirst ==
    /\ pc = "notes-stat"
    /\ stat' = notes.stat
    /\ Goto("notes-load")
    /\ UNCHANGED <<world, index, judged, made, own, seenVars, counters>>

\* Mutant of Vouched: any map is taken for the one the sidecar was of.
AnySidecar == own \/ judged # {}

\* Is what was loaded not judged again?  It is what a sidecar found fresh was
\* of, or it was loaded after a regen of the request's own.
Vouched == own \/ \E m \in judged : m.of = index.map.of

LoadNotes ==
    /\ pc = "notes-load"
    /\ index' = [index EXCEPT !.notes = Parsed, !.notesStat = stat]
    /\ Goto(IF Vouched THEN "done" ELSE "recheck")
    /\ UNCHANGED <<world, stat, judged, made, own, seenVars, counters>>

Recheck ==
    /\ pc = "recheck"
    /\ Goto(IF index.map.of = tree THEN "done" ELSE "regen")
    /\ UNCHANGED <<world, index, stat, judged, made, own, seenVars, counters>>

\* _wait_for_other_regen: what the lock's holder leaves is loaded and judged.
Wait ==
    /\ pc = "regen"
    /\ judged' = {}
    /\ Goto("stat")
    /\ UNCHANGED <<world, index, stat, made, own, seenVars, counters>>

\* _locked_regen under the lock, or after giving up on it: extract the tree ...
Extract ==
    /\ pc = "regen"
    /\ made' = tree
    /\ Goto("write")
    /\ UNCHANGED <<world, index, stat, judged, own, seenVars, counters>>

\* ... unless cache.json, left by a run that mapped this very tree, says that
\* nothing has changed: then map.json stays, whatever it is of ...
Noop ==
    /\ pc = "regen" /\ tree \in mapped
    /\ own' = TRUE
    /\ Goto("stat")
    /\ UNCHANGED <<world, index, stat, judged, made, seenVars, counters>>

\* Mutant of Regen: what was regenerated is taken for stale again.
RegenForever ==
    /\ pc = "write"
    /\ WriteMap(made)
    /\ own' = TRUE
    /\ Goto("regen")
    /\ UNCHANGED <<tree, notes, index, stat, judged, made, trees, noteVars,
                   edits, requests>>

\* ... write the map of it, and load what is there.
Regen ==
    /\ pc = "write"
    /\ WriteMap(made)
    /\ own' = TRUE
    /\ Goto("stat")
    /\ UNCHANGED <<tree, notes, index, stat, judged, made, trees, noteVars,
                   edits, requests>>

\* without_tests: the filtered copy is made once and kept on the index.
FilterTests ==
    /\ pc = "done" /\ index.held /\ index.view = {}
    /\ index' = [index EXCEPT !.view = {index.notes}]
    /\ UNCHANGED <<world, pc, stat, judged, made, own, seenVars, counters>>

-----------------------------------------------------------------------------
Step ==
    \/ Request \/ MatchDisk \/ CheckFresh \/ StatNotes \/ RefreshNotes \/ Judge
    \/ StatMap \/ LoadMap \/ Recheck \/ StatNotesFirst \/ LoadNotes \/ Wait
    \/ Extract \/ Noop \/ Regen \/ FilterTests

NoteStep(n) == NoteLoad(n) \/ NoteTruncate(n) \/ NoteWrite(n) \/ NoteDies(n)

Next == Step \/ Edit \/ Map \/ \E n \in Notes : NoteStep(n)

Spec == Init /\ [][Next]_vars

-----------------------------------------------------------------------------
(***************************************************************************)
(* Properties                                                              *)
(***************************************************************************)

\* An edit or an out-of-band map "is never served stale" (docs/cli.md): the
\* index a request answers from was map.json at some moment since the request
\* began and, unless it was loaded after a regen of the request's own, of a tree
\* that was there since then, whatever older maps other processes put in place.
AnswerIsCurrent ==
    pc = "done" =>
        /\ index.map \in mapsSeen
        /\ ~own => index.map.of \in trees

\* What is loaded after a regen is not judged; a map another process extracted
\* earlier may have replaced it, or have made the regen find nothing to do.
RegeneratedIsCurrent ==
    pc = "done" /\ own => index.map.of \in trees

\* Between requests an index whose signature is the file's holds what the file
\* holds, so no later request can go on answering from an older map or older
\* notes.  This is what the stat before the read is for.
SignatureMeansContent ==
    index.held /\ ~MidRequest =>
        /\ index.mapStat = map.stat => index.map = map
        /\ index.notesStat = notes.stat => index.notes = Parsed

\* The index without tests never shows other notes than the index does.
ViewsAgree == index.held => index.view \subseteq {index.notes}

\* notes.py calls notes "durable": when every command is over, the file holds
\* each note whose adding was not cut short, and none that was removed.
NotesAreDurable ==
    (\A n \in Notes : at[n] = "done") =>
        notes.records = {n \in Notes : job[n] = "add"}
===============================================================================
