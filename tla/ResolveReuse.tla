----------------------------- MODULE ResolveReuse -----------------------------
(***************************************************************************)
(* The resolved-calls cache (storage/resolvecache.py) between the runs     *)
(* that use it.                                                            *)
(*                                                                         *)
(* A run extracts the tree against .dekko/cache.json, plans with           *)
(* build_reuse which files' cached calls still hold, resolves the others,  *)
(* and a run that writes the map then saves both cache files, one after    *)
(* the other.  Runs hold no common lock: dekko map takes none, a diff      *)
(* reads without it.  A content hash is the content, extraction reads one  *)
(* tree (MapRegen has the edit that lands inside an extraction), and a     *)
(* fresh map.json accompanies every cache.json.                            *)
(***************************************************************************)
EXTENDS CallResolution

CONSTANTS Procs,
          Paths,            \* every path a file can be at
          Contents,         \* path -> what the file there may say
          Starts,           \* the [tree, config] a history starts from
          Configs,          \* what tsconfig may make of the alias
          Kinds,            \* the runs allowed, of RunKinds
          EditsInSave,      \* may the configuration change before a save?
          Kills,            \* may a run be killed between its two saves?
          MaxEdits, MaxRuns \* bounds on a behaviour's length

ASSUME BoundsAssumption == MaxEdits \in Nat /\ MaxRuns \in Nat

\* map: dekko map; full: dekko map --full; diff: a diff's new side, which may
\* also write the map; rev: a diff's old side, an exported revision that is
\* resolved with the repository's caches.
RunKinds == {"map", "full", "diff", "rev"}

ASSUME KindsAssumption == Kinds \subseteq RunKinds

\* Finitely many files, imports and re-exports; a package's name is no path;
\* "export *" gives no name another one.
ASSUME ContentsAssumption ==
    /\ IsFiniteSet(Paths) /\ External \notin Paths /\ External # Alias
    /\ \A p \in Paths : \A c \in Contents[p] :
          /\ IsFiniteSet(c.imports) /\ IsFiniteSet(c.reexports)
          /\ \A r \in c.reexports : r.name = Star => r.original = Star

ASSUME StartsAssumption ==
    \A s \in Starts :
        /\ s.tree \in [DOMAIN s.tree -> UNION {Contents[p] : p \in Paths}]
        /\ DOMAIN s.tree \subseteq Paths
        /\ \A p \in DOMAIN s.tree : s.tree[p] \in Contents[p]
        /\ s.config \in Configs

VARIABLES
    tree,         \* the working tree
    config,       \* its configuration
    head,         \* the committed [tree, config]
    extraction,   \* cache.json: path -> content last extracted
    resolution,   \* the resolved-calls cache: NoCache, or [files, config]
    run,          \* proc -> Idle or the run in progress
    edits, runs   \* used up so far

vars == <<tree, config, head, extraction, resolution, run, edits, runs>>

NoCache == [files |-> <<>>, config |-> ""]  \* what load makes of an unusable file
Idle    == [at |-> "idle"]
NoFiles == <<>>                             \* the function with no path

\* The cache document of a run: a path's hash and what its calls resolved to.
CacheDoc(files, graph, conf) ==
    [files |-> [p \in DOMAIN files |-> [hash |-> files[p], calls |-> graph[p]]],
     config |-> conf]

-----------------------------------------------------------------------------
(* build_reuse *)

\* Files whose content is not the one their cached calls were resolved from.
Dirty(files, cached) == {p \in DOMAIN files : cached.files[p].hash # files[p]}

\* Mutant of Torn: the two cache files are taken to be of one run.
NeverTorn(old, cached, dirty) == FALSE

\* The two cache files come from different runs.
Torn(old, cached, dirty) ==
    \E p \in dirty \cap DOMAIN old : old[p] # cached.files[p].hash

\* Every bare name a file's cached calls depend on.
EntryNames(calls) ==
    {e.name : e \in calls} \cup UNION {{s.name : s \in e.to} : e \in calls}

FilesNaming(files, cached, names) ==
    {p \in DOMAIN files : EntryNames(cached.files[p].calls) \cap names # {}}

FilesUsing(files, names) ==
    {p \in DOMAIN files :
        \/ \E c \in files[p].calls : c.name \in names
        \/ \E i \in files[p].imports : i.local \in names \/ i.original \in names}

FilesImporting(files, added, changed) ==
    {p \in DOMAIN files : \E i \in files[p].imports :
        \/ i.original \in added
        \/ i.original # i.local /\ i.original \in changed}

\* The clean files the dirty ones' edits can give other answers.
NameDeltaDirty(files, old, cached, dirty) ==
    LET changed == UNION {ChangedNames(old[p], files[p])
                            \cup ReexportDeltaNames(old[p], files[p]) : p \in dirty}
        added   == UNION {NewlyDefined(old[p], files[p]) : p \in dirty}
        reach   == ReexportClosure(files, changed)
    IN  FilesNaming(files, cached, reach)
          \cup FilesUsing(files, reach)
          \cup FilesImporting(files, added, changed)

\* The files to resolve anew; every file when nothing may be reused.
ToResolve(files, old, cached, conf) ==
    LET dirty  == Dirty(files, cached)
        usable == /\ cached # NoCache
                  /\ cached.config = conf
                  /\ DOMAIN files = DOMAIN cached.files
                  /\ ~Torn(old, cached, dirty)
                  /\ dirty \subseteq DOMAIN old
                  /\ \A p \in dirty : ~BlocksReuse(old[p], files[p])
    IN  IF usable THEN dirty \cup NameDeltaDirty(files, old, cached, dirty)
        ELSE DOMAIN files

\* resolve: fresh calls for those, the cached ones merged in for the others.
Resolved(files, old, cached, conf) ==
    LET fresh == ToResolve(files, old, cached, conf)
    IN  [p \in DOMAIN files |-> IF p \in fresh THEN ResolveFile(files, conf, p)
                                ELSE cached.files[p].calls]

-----------------------------------------------------------------------------
(* The runs *)

\* map_repository, against the extraction cache as it is now.
Extract(proc) ==
    /\ run[proc] = Idle
    /\ runs < MaxRuns
    /\ \E kind \in Kinds :
          run' = [run EXCEPT ![proc] =
                    [at    |-> "extracted",
                     kind  |-> kind,
                     old   |-> IF kind = "full" THEN NoFiles ELSE extraction,
                     files |-> IF kind = "rev" THEN head.tree ELSE tree,
                     config |-> IF kind = "rev" THEN head.config ELSE config]]
    /\ runs' = runs + 1
    /\ UNCHANGED <<tree, config, head, extraction, resolution, edits>>

\* _map_run_is_noop: every file came from the cache, the map is left alone.
MapIsNoop(proc) ==
    /\ run[proc].at = "extracted"
    /\ run[proc].kind = "map"
    /\ run[proc].old = run[proc].files
    /\ run' = [run EXCEPT ![proc] = Idle]
    /\ UNCHANGED <<tree, config, head, extraction, resolution, edits, runs>>

\* build_reuse and resolve, with the caches and configuration of this moment.
Resolve(proc) ==
    LET r    == run[proc]
        conf == IF r.kind = "rev" THEN r.config ELSE config
        cached == IF r.kind = "full" THEN NoCache ELSE resolution
    IN  /\ r.at = "extracted"
        /\ r.kind = "map" => r.old # r.files
        /\ run' = [run EXCEPT ![proc] =
                     [at     |-> "resolved",
                      own    |-> r.kind # "rev",   \* it is the working tree's
                      files  |-> r.files,
                      config |-> conf,
                      graph  |-> Resolved(r.files, r.old, cached, conf)]]
        /\ UNCHANGED <<tree, config, head, extraction, resolution, edits, runs>>

\* A diff that leaves the map alone has its answer; a run killed before it
\* writes ends the same way.
Leave(proc) ==
    /\ run[proc].at = "resolved"
    /\ run' = [run EXCEPT ![proc] = Idle]
    /\ UNCHANGED <<tree, config, head, extraction, resolution, edits, runs>>

\* write_map's last two steps.
SaveExtraction(proc) ==
    /\ run[proc].at = "resolved"
    /\ run[proc].own
    /\ extraction' = run[proc].files
    /\ run' = [run EXCEPT ![proc].at = "saving"]
    /\ UNCHANGED <<tree, config, head, resolution, edits, runs>>

SaveResolution(proc) ==
    /\ run[proc].at = "saving"
    /\ resolution' = CacheDoc(run[proc].files, run[proc].graph, config)
    /\ run' = [run EXCEPT ![proc] = Idle]
    /\ UNCHANGED <<tree, config, head, extraction, edits, runs>>

Kill(proc) ==
    /\ Kills
    /\ run[proc].at = "saving"
    /\ run' = [run EXCEPT ![proc] = Idle]
    /\ UNCHANGED <<tree, config, head, extraction, resolution, edits, runs>>

-----------------------------------------------------------------------------
(* The user *)

\* Only an extraction reads the tree: an edit with no extraction to come, or
\* with every process past its own, is the same edit made later.
MayEdit == edits < MaxEdits /\ runs < MaxRuns /\ \E proc \in Procs : run[proc] = Idle

EditFile ==
    /\ MayEdit
    /\ \E p \in DOMAIN tree : \E c \in Contents[p] \ {tree[p]} :
          tree' = [tree EXCEPT ![p] = c]
    /\ edits' = edits + 1
    /\ UNCHANGED <<config, head, extraction, resolution, run, runs>>

AddFile ==
    /\ MayEdit
    /\ \E p \in Paths \ DOMAIN tree : \E c \in Contents[p] :
          tree' = [q \in DOMAIN tree \cup {p} |-> IF q = p THEN c ELSE tree[q]]
    /\ edits' = edits + 1
    /\ UNCHANGED <<config, head, extraction, resolution, run, runs>>

RemoveFile ==
    /\ MayEdit
    /\ \E p \in DOMAIN tree :
          tree' = [q \in DOMAIN tree \ {p} |-> tree[q]]
    /\ edits' = edits + 1
    /\ tree' # NoFiles
    /\ UNCHANGED <<config, head, extraction, resolution, run, runs>>

EditConfig ==
    /\ edits < MaxEdits
    /\ EditsInSave \/ \A proc \in Procs : run[proc].at \notin {"resolved", "saving"}
    /\ config' \in Configs \ {config}
    /\ edits' = edits + 1
    /\ UNCHANGED <<tree, head, extraction, resolution, run, runs>>

-----------------------------------------------------------------------------

\* A history starts from a committed tree that one run has mapped.
Init ==
    /\ head \in Starts
    /\ tree = head.tree
    /\ config = head.config
    /\ extraction = tree
    /\ resolution = CacheDoc(tree, ResolveAll(tree, config), config)
    /\ run = [proc \in Procs |-> Idle]
    /\ edits = 0
    /\ runs = 0

Next ==
    \/ \E proc \in Procs :
          \/ Extract(proc) \/ MapIsNoop(proc) \/ Resolve(proc) \/ Leave(proc)
          \/ SaveExtraction(proc) \/ SaveResolution(proc) \/ Kill(proc)
    \/ EditFile \/ AddFile \/ RemoveFile \/ EditConfig

Spec == Init /\ [][Next]_vars

-----------------------------------------------------------------------------
(* Properties *)

\* An entry of the resolved calls: an edge has one target and never its own
\* caller, an ambiguous call at least two candidates, an external one none.
CallEntry(path, e) ==
    /\ DOMAIN e = {"by", "verdict", "name", "to"}
    /\ \/ e.verdict = "external"  /\ e.to = {}
       \/ e.verdict = "ambiguous" /\ Cardinality(e.to) > 1
       \/ e.verdict = "edge"      /\ \E s \in e.to : /\ e.to = {s}
                                                     /\ e.name = s.name
                                                     /\ s # CallerId(path, e.by)

IsTree(t)     == DOMAIN t \subseteq Paths /\ \A p \in DOMAIN t : t[p] \in Contents[p]
IsGraph(g, t) == DOMAIN g = DOMAIN t /\ \A p \in DOMAIN g : \A e \in g[p] : CallEntry(p, e)

IsRun(r) ==
    \/ r = Idle
    \/ r.at = "extracted" /\ r.kind \in Kinds /\ IsTree(r.old) /\ IsTree(r.files)
                          /\ r.config \in Configs
    \/ r.at \in {"resolved", "saving"} /\ r.own \in BOOLEAN /\ IsTree(r.files)
                          /\ IsGraph(r.graph, r.files) /\ r.config \in Configs

\* Every variable stays in its type (IncrementalCache, partition_resolution).
TypeOK ==
    /\ IsTree(tree) /\ IsTree(head.tree) /\ IsTree(extraction)
    /\ config \in Configs /\ head.config \in Configs
    /\ resolution # NoCache =>
          /\ resolution.config \in Configs
          /\ \A p \in DOMAIN resolution.files :
                /\ p \in Paths /\ resolution.files[p].hash \in Contents[p]
                /\ \A e \in resolution.files[p].calls : CallEntry(p, e)
    /\ \A proc \in Procs : IsRun(run[proc])
    /\ edits \in 0..MaxEdits /\ runs \in 0..MaxRuns

\* What the runs past resolution hold.
Graphs == {run[proc] : proc \in {q \in Procs : run[q].at \in {"resolved", "saving"}}}

\* Reuse changes nothing: whatever was edited, cached, torn or left behind by
\* a killed run, the calls a run ends up with are the ones that resolving every
\* file of its tree gives (build_reuse: identical "by construction").
ReuseIsExact ==
    \A g \in Graphs : g.graph = ResolveAll(g.files, g.config)

SavedHashes == [p \in DOMAIN resolution.files |-> resolution.files[p].hash]
SavedCalls  == [p \in DOMAIN resolution.files |-> resolution.files[p].calls]

\* The saved cache describes one tree under one configuration: its entries are
\* what resolving the contents it records gives (load's digests, save).
CacheIsOneTree ==
    resolution # NoCache => SavedCalls = ResolveAll(SavedHashes, resolution.config)

\* A map run that calls itself unchanged would have written the same calls
\* (_map_run_is_noop: "True when this run would re-write byte-identical
\* output").  The saved calls are the ones map.json was written with.
NoopIsIdentical ==
    [][\A proc \in Procs :
          MapIsNoop(proc) => SavedCalls = ResolveAll(run[proc].files, config)]_vars
===============================================================================
