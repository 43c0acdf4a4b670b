------------------------------ MODULE MapRegen ------------------------------
(***************************************************************************)
(* The map on disk and the processes that judge, rebuild and read it.      *)
(*                                                                         *)
(* Every dekko process (a bare CLI command, the daemon, the MCP server)    *)
(* answers from .dekko/map.json.  A request judges the map against the     *)
(* working tree (provenance sidecar first), and when it is stale rebuilds  *)
(* it under the advisory lock .dekko/regen.lock: extract through           *)
(* cache.json, stamp a provenance, replace map.json, then provenance.json, *)
(* then cache.json.  Nothing else coordinates the processes, the tree is   *)
(* edited underneath them, and any of them may die between two writes.     *)
(*                                                                         *)
(* A file's content, its hash and what extraction makes of it are the same *)
(* value here: hashing and extracting are deterministic functions of the   *)
(* bytes, so a hash/extraction pair is honest when its halves are equal.   *)
(* All processes run one build of dekko and one set of discovery options.  *)
(***************************************************************************)
EXTENDS Naturals, FiniteSets

CONSTANTS
    Procs,              \* processes that run dekko against one root
    Files,              \* repo-relative paths discovery can see
    Contents,           \* contents of a source file
    Absent,             \* no such file / no such entry
    Unreadable,         \* what hashing or extracting a vanished file gives
    Kinds,              \* request kinds issued (see RequestKinds)
    EditsDuringRegen,   \* may the tree change between extraction and stamp?
    Crashes,            \* may a process die?
    LockUnavailable,    \* may the lock primitive fail?
    WaitCapExpires,     \* may a waiter reach _REGEN_LOCK_WAIT_CAP?
    MaxEdits,           \* bound: edits of the working tree
    MaxRequests         \* bound: requests issued

\* "read" is load_or_regen, "peek" load_or_regen with --no-regen, "diff"
\* the current side of diff/affected, "map" a `dekko map` or refresh_map,
\* and "mapto" a `dekko map --json-output ELSEWHERE`.
RequestKinds == {"read", "peek", "diff", "map", "mapto"}

ASSUME ConstantsAssumption ==
    /\ Absent \notin Contents /\ Unreadable \notin Contents
    /\ Absent # Unreadable
    /\ Kinds \subseteq RequestKinds
    /\ {EditsDuringRegen, Crashes, LockUnavailable, WaitCapExpires}
         \subseteq BOOLEAN
    /\ MaxEdits \in Nat /\ MaxRequests \in Nat

VARIABLES
    tree,       \* the working tree: content of each file
    mtime,      \* stat signature of each file
    clock,      \* the last stat signature handed out to a source file
    mapjson,    \* .dekko/map.json; sig 0 means there is no file
    sidecar,    \* .dekko/provenance.json
    cache,      \* .dekko/cache.json
    writes,     \* the last stat signature handed out to map.json
    holder,     \* who holds .dekko/regen.lock
    pc,         \* what each process does next
    kind,       \* the kind of its current (or last) request
    cand,       \* the sidecar it read; sig 0 when the sidecar can't vouch
    idx,        \* the map.json it loaded
    misses,     \* the files it has to extract
    work,       \* its IncrementalCache.entries: extraction and its hash
    prov,       \* the provenance it computed
    ans,        \* the answer it gave
    seen,       \* history: contents each file held since its request began
    requests    \* requests issued so far

treeVars  == <<tree, mtime, clock>>
diskVars  == <<mapjson, sidecar, cache, writes>>
localVars == <<cand, idx, misses, work, prov>>
askVars   == <<kind, ans, seen, requests>>
vars == <<treeVars, diskVars, holder, pc, localVars, askVars>>

-----------------------------------------------------------------------------
\* Documents.

Hash == Contents \cup {Absent, Unreadable}
NoStat == 0

Provenance == [hash : [Files -> Hash], stat : [Files -> Nat]]
MapDoc     == [body : [Files -> Hash], prov : Provenance, sig : Nat]
SidecarDoc == [prov : Provenance, sig : Nat]
CacheDoc   == [hash : [Files -> Hash], body : [Files -> Hash]]

NoFiles   == [f \in Files |-> Absent]
EmptyProv == [hash |-> NoFiles, stat |-> [f \in Files |-> NoStat]]
NoMap     == [body |-> NoFiles, prov |-> EmptyProv, sig |-> 0]
NoSidecar == [prov |-> EmptyProv, sig |-> 0]
NoEntries == [hash |-> NoFiles, body |-> NoFiles]

Present == {f \in Files : tree[f] # Absent}

\* Reading a file that vanished yields an error FileMap, and the hash
\* "unreadable".
ReadFile(f) == IF tree[f] = Absent THEN Unreadable ELSE tree[f]

\* _content_freshness: no file added or removed, and each one's recorded
\* stat signature is still there or else its content hash is.
Fresh(p) ==
    /\ \A f \in Files : (p.hash[f] = Absent) <=> (tree[f] = Absent)
    /\ \A f \in Present : p.stat[f] = mtime[f] \/ p.hash[f] = tree[f]

-----------------------------------------------------------------------------
Steps == {"idle", "sidecar", "judge", "load", "recheck", "lock", "wait",
          "reuse", "extract", "store", "persist", "noop", "hash", "stat",
          "map", "side", "cache", "reload"}

\* Between the first read of a source file and its stat signature.
Window == {"extract", "store", "persist", "noop", "hash", "stat"}

\* Inside the body of a `with try_regen_lock(...)` that got the lock.
LockedSteps == {"reuse", "extract", "store", "noop", "hash", "stat",
                "map", "side", "cache", "reload"}

TypeOK ==
    /\ tree \in [Files -> Contents \cup {Absent}]
    /\ mtime \in [Files -> Nat \ {NoStat}]
    /\ clock \in Nat \ {NoStat}
    /\ mapjson \in MapDoc /\ sidecar \in SidecarDoc /\ cache \in CacheDoc
    /\ writes \in Nat
    /\ holder \in SUBSET Procs
    /\ pc \in [Procs -> Steps]
    /\ kind \in [Procs -> RequestKinds]
    /\ cand \in [Procs -> SidecarDoc]
    /\ idx \in [Procs -> MapDoc]
    /\ misses \in [Procs -> SUBSET Files]
    /\ work \in [Procs -> CacheDoc]
    /\ prov \in [Procs -> Provenance]
    /\ ans \in [Procs -> [how : {"none", "judged", "regen", "memory",
                                 "written", "failed"},
                          body : [Files -> Hash]]]
    /\ seen \in [Procs -> [Files -> SUBSET (Contents \cup {Absent})]]
    /\ requests \in Nat

NoAnswer == [how |-> "none", body |-> NoFiles]

\* A clean checkout that was never mapped.
Init ==
    /\ tree \in [Files -> Contents]
    /\ clock = 1 /\ mtime = [f \in Files |-> 1]
    /\ mapjson = NoMap /\ sidecar = NoSidecar /\ cache = NoEntries
    /\ writes = 0
    /\ holder = {}
    /\ pc = [p \in Procs |-> "idle"]
    /\ kind = [p \in Procs |-> "read"]
    /\ cand = [p \in Procs |-> NoSidecar]
    /\ idx = [p \in Procs |-> NoMap]
    /\ misses = [p \in Procs |-> {}]
    /\ work = [p \in Procs |-> NoEntries]
    /\ prov = [p \in Procs |-> EmptyProv]
    /\ ans = [p \in Procs |-> NoAnswer]
    /\ seen = [p \in Procs |-> [f \in Files |-> {}]]
    /\ requests = 0

Goto(p, s) == pc' = [pc EXCEPT ![p] = s]

\* The request ends: whatever lock is held is released on the way out of
\* the `with` block, and the call's locals go.
ReturnTo(p, how, body) ==
    /\ pc' = [pc EXCEPT ![p] = "idle"]
    /\ ans' = [ans EXCEPT ![p] = [how |-> how, body |-> body]]
    /\ holder' = holder \ {p}
    /\ cand' = [cand EXCEPT ![p] = NoSidecar]
    /\ idx' = [idx EXCEPT ![p] = NoMap]
    /\ misses' = [misses EXCEPT ![p] = {}]
    /\ work' = [work EXCEPT ![p] = NoEntries]
    /\ prov' = [prov EXCEPT ![p] = EmptyProv]
    /\ UNCHANGED <<kind, seen, requests>>

-----------------------------------------------------------------------------
\* The environment: an editor, a `git checkout`, a killed process.

Edit(f, c) ==
    /\ clock <= MaxEdits
    /\ c # tree[f]
    /\ EditsDuringRegen \/ \A p \in Procs : pc[p] \notin Window
    /\ tree' = [tree EXCEPT ![f] = c]
    /\ clock' = clock + 1
    /\ mtime' = [mtime EXCEPT ![f] = clock + 1]
    /\ seen' = [p \in Procs |-> IF pc[p] = "idle" THEN seen[p]
                                ELSE [seen[p] EXCEPT ![f] = @ \cup {c}]]
    /\ UNCHANGED <<diskVars, holder, pc, localVars, kind, ans, requests>>

\* The operating system drops a dead holder's flock.
Crash(p) ==
    /\ Crashes /\ pc[p] # "idle"
    /\ ReturnTo(p, "failed", NoFiles)
    /\ UNCHANGED <<treeVars, diskVars>>

StartRequest(p, k) ==
    /\ pc[p] = "idle" /\ requests < MaxRequests
    /\ requests' = requests + 1
    /\ kind' = [kind EXCEPT ![p] = k]
    /\ ans' = [ans EXCEPT ![p] = NoAnswer]
    /\ seen' = [seen EXCEPT ![p] = [f \in Files |-> {tree[f]}]]
    /\ Goto(p, IF k \in {"map", "mapto"} THEN "reuse" ELSE "sidecar")
    /\ UNCHANGED <<treeVars, diskVars, holder, localVars>>

-----------------------------------------------------------------------------
\* Judging the map on disk.

\* load_sidecar_provenance: only a sidecar stamped with the signature of
\* the map.json next to it may speak for it.
ReadSidecar(p) ==
    /\ pc[p] = "sidecar"
    /\ IF sidecar.sig = mapjson.sig /\ mapjson.sig # 0
         THEN cand' = [cand EXCEPT ![p] = sidecar] /\ Goto(p, "judge")
         ELSE cand' = [cand EXCEPT ![p] = NoSidecar] /\ Goto(p, "load")
    /\ UNCHANGED <<treeVars, diskVars, holder, idx, misses, work, prov,
                   askVars>>

\* What a stale or missing map leads to: a read regenerates it, --no-regen
\* fails with exit code 5, a diff re-maps the tree in memory.
OnStale(p) ==
    \/ /\ kind[p] = "read" /\ Goto(p, "lock")
       /\ UNCHANGED <<holder, cand, misses, work, prov, askVars>>
    \/ /\ kind[p] = "diff" /\ Goto(p, "reuse")
       /\ UNCHANGED <<holder, cand, misses, work, prov, askVars>>

JudgeSidecar(p) ==
    /\ pc[p] = "judge"
    /\ \/ /\ Fresh(cand[p].prov) /\ Goto(p, "load")
          /\ UNCHANGED <<holder, localVars, askVars>>
       \/ /\ ~Fresh(cand[p].prov) /\ OnStale(p) /\ UNCHANGED idx
       \/ /\ ~Fresh(cand[p].prov) /\ kind[p] = "peek"
          /\ ReturnTo(p, "failed", NoFiles)
    /\ UNCHANGED <<treeVars, diskVars>>

\* Mutant of Vouched: load_or_regen trusts the sidecar's verdict for
\* whatever map.json holds by the time it is read.
VouchedByVerdict(p) == cand[p].sig # 0

\* load_map, and load_or_regen's check that the map it loaded is the one
\* the sidecar was judged for.  _current_side_from_provenance has no such
\* check: it returns whatever map.json holds by now.
Vouched(p) ==
    /\ cand[p].sig # 0
    /\ kind[p] = "diff" \/ mapjson.prov = cand[p].prov

LoadMap(p) ==
    /\ pc[p] = "load"
    /\ \/ /\ mapjson.sig # 0 /\ Vouched(p)
          /\ ReturnTo(p, "judged", mapjson.body)
       \/ /\ mapjson.sig # 0 /\ ~Vouched(p)
          /\ idx' = [idx EXCEPT ![p] = mapjson]
          /\ Goto(p, "recheck")
          /\ UNCHANGED <<holder, cand, misses, work, prov, askVars>>
       \/ /\ mapjson.sig = 0 /\ OnStale(p) /\ UNCHANGED idx
       \/ /\ mapjson.sig = 0 /\ kind[p] = "peek"
          /\ ReturnTo(p, "failed", NoFiles)
    /\ UNCHANGED <<treeVars, diskVars>>

\* check_freshness of the loaded index, when no sidecar vouched for it.
JudgeIndex(p) ==
    /\ pc[p] = "recheck"
    /\ \/ /\ Fresh(idx[p].prov) /\ ReturnTo(p, "judged", idx[p].body)
       \/ /\ ~Fresh(idx[p].prov) /\ OnStale(p) /\ UNCHANGED idx
       \/ /\ ~Fresh(idx[p].prov) /\ kind[p] = "peek"
          /\ ReturnTo(p, "failed", NoFiles)
    /\ UNCHANGED <<treeVars, diskVars>>

-----------------------------------------------------------------------------
\* The advisory lock.

\* Mutant of TakeLock: a lock file that is merely opened excludes nobody.
TakeLockOpenOnly(p, then) == holder' = holder \cup {p} /\ Goto(p, then)

\* try_named_lock: flock LOCK_EX|LOCK_NB, which never blocks.  A lock file that
\* cannot be opened fails open: proceed without holding anything.
TakeLock(p, then) ==
    /\ \/ holder = {} /\ holder' = {p}
       \/ LockUnavailable /\ holder' = holder
    /\ Goto(p, then)

\* Any error of flock itself is taken for another process's holding it.
LooksHeld == holder # {} \/ LockUnavailable

\* Mutant of TryLock: a held lock is taken to mean the other process is done.
TryLockNoWait(p) ==
    /\ pc[p] = "lock"
    /\ \/ TakeLock(p, "reuse")
       \/ LooksHeld /\ Goto(p, "reload") /\ UNCHANGED holder
    /\ UNCHANGED <<treeVars, diskVars, localVars, askVars>>

TryLock(p) ==
    /\ pc[p] = "lock"
    /\ \/ TakeLock(p, "reuse")
       \/ LooksHeld /\ Goto(p, "wait") /\ UNCHANGED holder
    /\ UNCHANGED <<treeVars, diskVars, localVars, askVars>>

\* _wait_for_other_regen: a poll that finds a fresh map ends the wait.
WaitSucceeds(p) ==
    /\ pc[p] = "wait"
    /\ mapjson.sig # 0 /\ Fresh(mapjson.prov)
    /\ ReturnTo(p, "judged", mapjson.body)
    /\ UNCHANGED <<treeVars, diskVars>>

\* Mutant of WaitGivesUp: wait for as long as somebody holds the lock, and
\* then for the fresh map that never came.
WaitForever(p) ==
    /\ pc[p] = "wait" /\ WaitCapExpires /\ FALSE
    /\ UNCHANGED vars

\* The cap is hit: an uncoordinated regen beside the holder's.
WaitGivesUp(p) ==
    /\ pc[p] = "wait" /\ WaitCapExpires
    /\ Goto(p, "reuse")
    /\ UNCHANGED <<treeVars, diskVars, holder, localVars, askVars>>

-----------------------------------------------------------------------------
\* map_repository: discover, reuse what cache.json has, extract the rest.

\* Mutant of Hits: reuse by path, without comparing the content hash.
HitsByPath == {f \in Present : cache.hash[f] # Absent}

Hits == {f \in Present : cache.hash[f] = tree[f]}

\* Mutant of Reused: entries for the reused paths only.
ReusedPartial ==
    [hash |-> [f \in Hits |-> cache.hash[f]],
     body |-> [f \in Hits |-> cache.body[f]]]

\* IncrementalCache.unchanged, whose mutant forgets that a removed file
\* needs no parsing either.
SamePathsAssumed == TRUE
SamePaths == Present = {f \in Files : cache.hash[f] # Absent}

\* IncrementalCache.reuse, over every discovered path.
Reused ==
    [hash |-> [f \in Files |-> IF f \in Hits THEN cache.hash[f] ELSE Absent],
     body |-> [f \in Files |-> IF f \in Hits THEN cache.body[f] ELSE Absent]]

\* `not files` ends run_map with exit code 1; a diff maps an empty tree.
ReuseCache(p) ==
    /\ pc[p] = "reuse"
    /\ \/ /\ Present = {} /\ kind[p] # "diff"
          /\ ReturnTo(p, "failed", NoFiles)
       \/ /\ Present # {} \/ kind[p] = "diff"
          /\ misses' = [misses EXCEPT ![p] = Present \ Hits]
          /\ work' = [work EXCEPT ![p] = Reused]
          \* _map_run_is_noop's first test: nothing to parse, and the same
          \* paths as the cache on disk.
          /\ Goto(p, IF /\ kind[p] # "diff"
                        /\ Present = Hits /\ SamePaths
                     THEN "noop" ELSE "extract")
          /\ UNCHANGED <<holder, cand, idx, prov, askVars>>
    /\ UNCHANGED <<treeVars, diskVars>>

\* Read every miss now, keeping what is known of the others.
ReadMisses(p, known) ==
    [f \in Files |-> IF f \in misses[p] THEN ReadFile(f) ELSE known[f]]

Extract(p) ==
    /\ pc[p] = "extract"
    /\ work' = [work EXCEPT ![p] =
          [hash |-> work[p].hash, body |-> ReadMisses(p, work[p].body)]]
    /\ Goto(p, "store")
    /\ UNCHANGED <<treeVars, diskVars, holder, cand, idx, misses, prov,
                   askVars>>

\* IncrementalCache.store hashes the file again, after its extraction.
\* `dekko map` writes straight on; a diff goes through persist_remap when
\* there was a map to replace, and otherwise answers from memory.
Store(p) ==
    /\ pc[p] = "store"
    /\ \/ /\ kind[p] = "diff" /\ cand[p].sig = 0 /\ idx[p].sig = 0
          /\ ReturnTo(p, "memory", work[p].body)
       \/ /\ kind[p] # "diff" \/ cand[p].sig # 0 \/ idx[p].sig # 0
          /\ work' = [work EXCEPT ![p] =
                [hash |-> ReadMisses(p, work[p].hash), body |-> work[p].body]]
          /\ Goto(p, CASE kind[p] = "diff" -> "persist"
                       [] kind[p] = "mapto" -> "cache"
                       [] OTHER -> "hash")
          /\ UNCHANGED <<holder, cand, idx, misses, prov, askVars>>
    /\ UNCHANGED <<treeVars, diskVars>>

\* persist_remap takes the lock only now, after extracting, and leaves the
\* map alone while another process holds it.
PersistRemap(p) ==
    /\ pc[p] = "persist"
    /\ \/ TakeLock(p, "hash") /\ UNCHANGED <<localVars, askVars>>
       \/ LooksHeld /\ ReturnTo(p, "memory", work[p].body)
    /\ UNCHANGED <<treeVars, diskVars>>

\* _map_run_is_noop's second half: any map.json with the running build's
\* provenance will do; the hashes it recorded are not compared.
MapRunIsNoop(p) ==
    /\ pc[p] = "noop"
    /\ IF mapjson.sig # 0
         THEN IF kind[p] = "read"
                THEN /\ Goto(p, "reload")
                     /\ UNCHANGED <<holder, localVars, askVars>>
                ELSE ReturnTo(p, "written", NoFiles)
         ELSE /\ Goto(p, IF kind[p] = "mapto" THEN "cache" ELSE "hash")
              /\ UNCHANGED <<holder, localVars, askVars>>
    /\ UNCHANGED <<treeVars, diskVars>>

-----------------------------------------------------------------------------
\* write_map: four documents, each replaced atomically, one after another.

\* compute_provenance re-hashes every file, then stats every file.
HashFiles(p) ==
    /\ pc[p] = "hash"
    /\ prov' = [prov EXCEPT ![p] =
          [hash |-> [f \in Files |-> IF work[p].body[f] = Absent THEN Absent
                                     ELSE ReadFile(f)],
           stat |-> EmptyProv.stat]]
    /\ Goto(p, "stat")
    /\ UNCHANGED <<treeVars, diskVars, holder, cand, idx, misses, work,
                   askVars>>

StatFiles(p) ==
    /\ pc[p] = "stat"
    /\ prov' = [prov EXCEPT ![p] =
          [hash |-> prov[p].hash,
           stat |-> [f \in Files |-> IF work[p].body[f] = Absent
                                        \/ tree[f] = Absent
                                     THEN NoStat ELSE mtime[f]]]]
    /\ Goto(p, "map")
    /\ UNCHANGED <<treeVars, diskVars, holder, cand, idx, misses, work,
                   askVars>>

\* Mutant of WriteMapJson: stat the files when the document is written.
WriteMapJsonLateStat(p) ==
    /\ pc[p] = "map"
    /\ writes' = writes + 1
    /\ mapjson' = [body |-> work[p].body,
                   prov |-> [hash |-> prov[p].hash, stat |-> mtime],
                   sig |-> writes + 1]
    /\ Goto(p, "side")
    /\ UNCHANGED <<treeVars, sidecar, cache, holder, localVars, askVars>>

WriteMapJson(p) ==
    /\ pc[p] = "map"
    /\ writes' = writes + 1
    /\ mapjson' = [body |-> work[p].body, prov |-> prov[p],
                   sig |-> writes + 1]
    /\ Goto(p, "side")
    /\ UNCHANGED <<treeVars, sidecar, cache, holder, localVars, askVars>>

\* Mutant of WriteSidecar: stamped with the map.json it replaces.
WriteSidecarOldStamp(p) ==
    /\ pc[p] = "side"
    /\ sidecar' = [prov |-> prov[p], sig |-> mapjson.sig - 1]
    /\ Goto(p, "cache")
    /\ UNCHANGED <<treeVars, mapjson, cache, writes, holder, localVars,
                   askVars>>

\* write_provenance_sidecar stamps whatever map.json is there by now.
WriteSidecar(p) ==
    /\ pc[p] = "side"
    /\ sidecar' = [prov |-> prov[p], sig |-> mapjson.sig]
    /\ Goto(p, "cache")
    /\ UNCHANGED <<treeVars, mapjson, cache, writes, holder, localVars,
                   askVars>>

SaveCache(p) ==
    /\ pc[p] = "cache"
    /\ cache' = work[p]
    /\ \/ /\ kind[p] = "read" /\ Goto(p, "reload")
          /\ UNCHANGED <<holder, localVars, askVars>>
       \/ /\ kind[p] = "diff" /\ ReturnTo(p, "memory", work[p].body)
       \/ /\ kind[p] \in {"map", "mapto"} /\ ReturnTo(p, "written", NoFiles)
    /\ UNCHANGED <<treeVars, mapjson, sidecar, writes>>

\* _locked_regen returns the map it reloads, without judging it again.
Reload(p) ==
    /\ pc[p] = "reload"
    /\ IF mapjson.sig = 0 THEN ReturnTo(p, "failed", NoFiles)
                          ELSE ReturnTo(p, "regen", mapjson.body)
    /\ UNCHANGED <<treeVars, diskVars>>

-----------------------------------------------------------------------------
Judge(p)  == ReadSidecar(p) \/ JudgeSidecar(p) \/ LoadMap(p) \/ JudgeIndex(p)
Lock(p)   == TryLock(p) \/ WaitSucceeds(p) \/ WaitGivesUp(p)
Map(p)    == ReuseCache(p) \/ Extract(p) \/ Store(p) \/ PersistRemap(p)
               \/ MapRunIsNoop(p)
Write(p)  == HashFiles(p) \/ StatFiles(p) \/ WriteMapJson(p)
               \/ WriteSidecar(p) \/ SaveCache(p) \/ Reload(p)
Proceed(p) == Judge(p) \/ Lock(p) \/ Map(p) \/ Write(p)

Next ==
    \/ \E f \in Files, c \in Contents \cup {Absent} : Edit(f, c)
    \/ \E p \in Procs, k \in Kinds : StartRequest(p, k)
    \/ \E p \in Procs : Proceed(p) \/ Crash(p)

Spec == Init /\ [][Next]_vars

\* A running process keeps running.  Edits, requests and crashes may stop.
FairSpec == Spec /\ \A p \in Procs : WF_vars(Proceed(p))
-----------------------------------------------------------------------------
(***************************************************************************)
(* Properties.                                                             *)
(***************************************************************************)

\* A body is current for p's request when each file's part of it was in the
\* tree at some moment since that request began.
Current(p, body) == \A f \in Files : body[f] \in seen[p][f]

\* The regen lock has one holder at most, and no way out of the critical
\* section (success, no source files, another map found, a crash) keeps it:
\* repo_ops._locked_regen, repo_ops.persist_remap, filelock.try_named_lock.
LockDiscipline ==
    /\ \A p, q \in holder : p = q
    /\ \A p \in holder : pc[p] \in LockedSteps

\* Whatever map.json and cache.json are on disk, after any interleaving of
\* writers and any crash, pair each file's recorded hash with the extraction
\* of that very content (cache.IncrementalCache, mapfile.compute_provenance).
HonestDocuments ==
    /\ mapjson.body = mapjson.prov.hash
    /\ cache.body = cache.hash

\* The stat fast path of _content_freshness never vouches for a content
\* other than the one hashed: no recorded signature hides an edit.
HonestStat(pr) ==
    \A f \in Files : tree[f] # Absent /\ pr.stat[f] = mtime[f]
                       => pr.hash[f] = tree[f]
NoMaskedEdit == HonestStat(mapjson.prov) /\ HonestStat(sidecar.prov)

\* An answer given because the map was judged fresh (load_or_regen's fast
\* path, its recheck, and the wait for another process's regen) is current,
\* whatever other processes wrote to .dekko/ meanwhile.
JudgedAnswerIsCurrent ==
    \A p \in Procs : ans[p].how = "judged" /\ kind[p] # "diff"
                         => Current(p, ans[p].body)

\* What diff and affected re-map in memory over the shared cache is current.
MemoryAnswerIsCurrent ==
    \A p \in Procs : ans[p].how = "memory" => Current(p, ans[p].body)

\* The index load_or_regen returns after a regen, which nothing judges
\* again, is current.
RegenAnswerIsCurrent ==
    \A p \in Procs : ans[p].how = "regen" => Current(p, ans[p].body)

\* CurrentSide.fresh: "Whether ``index`` is loaded and matches the working
\* tree" (repo_ops.py): the index a diff compares with is current.
CurrentSideMatchesTree ==
    \A p \in Procs : ans[p].how = "judged" /\ kind[p] = "diff"
                         => Current(p, ans[p].body)

\* "A working-tree change (or an out-of-band ``dekko map`` regen) is picked
\* up on the next request, never served stale" (daemon.py; docs/cli.md says
\* the same): an answer given because the map was found fresh is current.
NeverServedStale ==
    \A p \in Procs : ans[p].how = "judged" => Current(p, ans[p].body)

\* _map_run_is_noop: "True when this run would re-write byte-identical
\* output": a run that returns without writing found on disk the map it had
\* just built.
NoopIsIdentical ==
    [][\A p \in Procs :
         pc[p] = "noop" /\ pc'[p] \in {"reload", "idle"}
             /\ ans'[p].how # "failed"
           => mapjson.body = work[p].body]_vars

\* One regen is enough: a request that regenerated an unchanging tree leaves
\* a map the next request finds fresh, instead of regenerating again.
RegenLeavesMapFresh ==
    [][\A p \in Procs :
         pc[p] = "reload" /\ ans'[p].how = "regen"
             /\ seen[p] = [f \in Files |-> {tree[f]}]
           => Fresh(mapjson.prov) /\ sidecar.sig = mapjson.sig]_vars

\* "any locking-primitive failure (a filesystem that doesn't support locks, ...)
\* yields True" (try_named_lock): nobody waits for a lock that nobody holds.
WaitsForAHolder ==
    [][\A p \in Procs :
         pc[p] = "lock" /\ pc'[p] = "wait" => holder # {}]_vars

\* Every request ends, with the holder dead, slow or racing included: a
\* non-blocking lock and a capped wait wedge nobody.
EveryRequestEnds == \A p \in Procs : pc[p] # "idle" ~> pc[p] = "idle"
=============================================================================
