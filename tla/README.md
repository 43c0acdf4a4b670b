# TLA+ models of dekko

dekko indexes a repository into a static code map (`.dekko/map.json`) and
answers queries from it: symbols, callers, impact of a change, diffs between a
revision and the working tree. The commands are one-shot processes, but the map
is shared: several CLI processes, a daemon and an MCP server may judge,
rebuild and read the same `.dekko/` directory at once, while an editor changes
the tree underneath and any of them may be killed. This directory models the
parts of dekko in which that matters, model-checks them with TLC and proves
some of the results with TLAPS.

Paths below are relative to `src/src/dekko/`.

## Inventory

| component | state | operations | who it interacts with | what is hard |
|---|---|---|---|---|
| map regeneration and freshness (`repo_ops.py`, `render/mapfile.py`) | working tree, `map.json`, `provenance.json`, stat signatures | `load_or_regen`, `load_current_side`, `persist_remap`, `regen_map`, `run_map`, `write_map` | every command; extraction cache; regen lock; daemon cache hook | four documents replaced one after the other by uncoordinated processes; files read at different moments; stat fast path |
| advisory locks (`storage/filelock.py`) | `.dekko/regen.lock`, `.dekko/rev-cache/<sha>.lock` | `try_named_lock` | regeneration, revision cache | fails open, or looks held by nobody; dead holders; waiters poll with a cap |
| extraction cache (`storage/cache.py`) | `cache.json`: hash and symbols per file | `load`, `reuse`, `store`, `unchanged`, `save` | regeneration | hash taken after extraction; desync from `map.json` |
| resolved-calls cache (`storage/resolvecache.py`) | resolved edges, config digests | `build_reuse`, `save` | regeneration | when an unchanged file's edges may be kept although another file changed |
| daemon transport (`daemon/daemon_transport.py`) | two socket files (Unix) or one port file (TCP) | bind, connect, exists, cleanup | daemon, its clients | files unlinked by binders, probers and stoppers |
| daemon (`daemon/daemon.py`) | sockets, busy flag, warm cache, idle timer | serve, start, stop, status, `try_daemon`, `_PatientWait` | CLI, transport, regeneration | two daemons; orphaned daemons; a client giving up on a request that runs; stale warm index |
| build identity (`selfcheck.py`) | loaded version and spec, installed identity | `classify`, `process_outdated` | freshness, `_delegated_regen` | long-lived processes of an old build rewriting a new build's map |
| revision cache (`storage/revcache.py`) | one snapshot per commit, 20 kept | `load`, `save`, `_evict` | diff | double builds, eviction under concurrency, what the key omits |
| diff (`analysis/diff.py`) | new-side memo | `snapshot_pair`, `old_snapshot`, `_recall_new_side` | regeneration, revision cache | memo against a map that was replaced |
| notes (`storage/notes.py`) | `notes.json` | add, remove, load | warm indexes | unlocked read-modify-write |
| ledger (`storage/ledger.py`) | a transcript | `build_view` | none | a fold with overlapping partial reads |
| impact analysis (`analysis/affected.py`, `trace.py`, `workset.py`, `unused.py`) | a loaded index | bounded reverse reachability, shortest paths | none | off-by-one hops, cycles |
| token budget (`textutil.py`) | none | `fit_to_budget` | every listing | boundaries |
| MCP server (`integrations/server.py`) | one cached index per root | `_index_for`, tools | regeneration | same as the warm cache |
| extraction, resolution, discovery, rendering, queries, CLI, hooks | none that outlives a call | pure functions of files or of an index | | language rules and formatting |

What makes each correct, in one line each:

* **regeneration**: an answer shows, for every file, a content that file had
  at some moment since the request began; documents never pair one content's
  hash with another's symbols; an unchanged tree is not mapped twice; a request
  ends whatever happened to the lock holder.
* **locks**: one holder, released on every way out.
* **daemon lifecycle**: at most one reachable daemon, no live daemon whose
  socket files are gone, `stop` reports what happened.
* **daemon requests**: a request runs at most once, is never rerun locally
  after it was sent, and the client's wait ends.
* **warm caches**: never an index older than the request that it was judged for,
  never an old map or old notes under a current signature.
* **diff**: each side is made of contents the tree, or the commit, really had.
* **build identity**: after an upgrade the map is the installed build's, and
  stays so.
* **revision cache and diff memo**: a snapshot served from a cache equals the
  one that would be built now.
* **resolved-calls reuse**: reused edges equal re-resolved edges.
* **notes**: an added note is not lost.

## Modules

| module | models | composes with | proved about in |
|---|---|---|---|
| `MapRegen` | requests over `map.json`, its sidecar, the extraction cache and the regen lock | | `MapRegenProofs` |
| `DaemonLifecycle` | daemons and socket files: bind, serve, stop, probe, kill | | `DaemonLifecycleProofs` |
| `DaemonRequest` | one command routed through a daemon, the client's patient wait | implements `RequestOnce`, the at-most-once service | `DaemonRequestProofs` |
| `WarmIndex` | the index a daemon or MCP server keeps in memory, over `map.json` and `notes.json`; the note commands | | `WarmIndexProofs` |
| `BuildIdentity` | upgrades under long-lived processes, who writes a map of another build | | `BuildIdentityProofs` |
| `RevCache` | the cache of mapped revisions, its locks and eviction | | `RevCacheProofs` |
| `SnapshotPair` | the two sides of a diff and the new-side memo | takes `RevCache`'s answer as the old side | `SnapshotPairProofs` |
| `CallResolution` | operators: how a JS/TS call gets its target, what an edit can change | extended by `ResolveReuse` | `ResolveReuseProofs` |
| `ResolveReuse` | the resolved-calls cache between concurrent runs | | `ResolveReuseProofs` |

`MCx` instantiates `x` for TLC. `x_y.cfg` is an instance of `MCx`.

A module takes what another one models as given: `ResolveReuse` assumes that
extraction read one tree (that it need not have is `MapRegen`'s subject),
`WarmIndex` takes a map as one document, `SnapshotPair` takes `Freshness` as a
set of changed paths.

## Runs

| run | asks | distinct states |
|---|---|---|
| regen_race, regen_locked, regen_live | is an answer current, do documents stay honest, does a request end | 2.7M, 3.3M, 39k |
| daemon_quiet, daemon_live | one reachable daemon, truthful reports, nothing lives or waits for ever | 355k, 224k |
| request_once | is a routed command run at most once (refinement), does its wait end | 20k |
| warm_serve | does a long-lived process answer from an old map or old notes | 10.1M |
| build_upgrade | does an outdated process write a map of its own build, is there a rewrite war | 826k |
| revcache_share | are cached revisions whole and of the running build, is the cache bounded, do commands end | 218k |
| snapshot_calls | is a diff's new side current, does the tree stand in only for a revision it equals | 1.5M |
| resolve_exact | are reused call edges those of a full resolve | 444k |
| resolve_noop | is an "unchanged" map run one (no: the finding) | <1k |

## MapRegen

### State

| variable | code |
|---|---|
| `tree`, `mtime`, `clock` | the source files, their stat signatures (`mapfile._stat_sig`); every edit gives a fresh signature |
| `mapjson` | `.dekko/map.json`: what extraction made of each file (`body`), the embedded provenance (`prov`: hash and stat signature of each file) and the document's own stat signature (`sig`, 0 for no file) |
| `sidecar` | `.dekko/provenance.json`: a provenance and the signature of the `map.json` it was stamped with |
| `cache` | `.dekko/cache.json`: hash and extraction of each file |
| `holder` | the processes holding `.dekko/regen.lock` |
| `pc`, `kind`, `cand`, `idx`, `misses`, `work`, `prov` | each process' position and the locals of its call |
| `ans`, `seen` | its answer, and (history) the contents each file held since the request began |

A content, its hash and its extraction are one value: all three are functions
of the bytes. A file that vanished hashes and extracts to `Unreadable`
(`_file_hash`'s `"unreadable"`, an error `FileMap`).

### Actions

| action | code |
|---|---|
| `ReadSidecar`, `JudgeSidecar`, `LoadMap`, `JudgeIndex` | `_judge_current_map`; for a diff, `load_current_side`, `_current_side_from_provenance`, `current_side_from_index` |
| `TryLock`, `WaitSucceeds`, `WaitGivesUp` | `_locked_regen`, `_wait_for_other_regen`, `try_named_lock` |
| `ReuseCache`, `Extract`, `Store` | `map_repository`: reuse, extract, then hash again and store |
| `MapRunIsNoop` | `_map_run_is_noop` |
| `HashFiles`, `StatFiles` | `compute_provenance`: all hashes, then all signatures |
| `WriteMapJson`, `WriteSidecar`, `SaveCache` | `write_map`, three atomic replaces in this order |
| `PersistRemap` | `persist_remap` of a stale-map diff |
| `Reload` | `_locked_regen`'s final `load_map` |
| `Edit`, `Crash`, `StartRequest` | the environment |

Each phase reads the files it reads at one instant; edits, other processes and
crashes come between phases. A poll of `_wait_for_other_regen` and a sidecar
read (stat, then read) are one step each: what a replacement in the middle adds
is a mismatch, which the code treats as "no sidecar" or "poll again".

`LockUnavailable` is a lock primitive that fails, which it does in two ways. A
lock file that cannot be opened makes `try_named_lock` yield True, and the request
goes on without a lock (`TakeLock`). An error of `flock` itself makes
`_try_acquire_posix` return False, as for a lock another process holds
(`LooksHeld`): a reader waits for a holder that may not exist, a diff does not
write its re-map.

Request kinds: `read` (`load_or_regen`), `peek` (with `--no-regen`), `diff`,
`map` (`dekko map`, MCP `refresh_map`: no lock) and `mapto` (`dekko map
--json-output ELSEWHERE`: leaves `map.json` alone but saves `cache.json`).

### What the runs check

* **regen_race** (2 processes, 1 file, 2 contents plus absence, 2 edits, 3
  requests of any kind, crashes, failing locks, expiring waits). The lock has
  one holder and is never kept by a request that ended; hash and extraction
  always match in both documents; a recorded stat signature never hides an
  edit; an answer given because the map was judged fresh, or re-mapped in
  memory, is current. Edits are kept out of the windows between extraction and
  stamp (`EditsDuringRegen = FALSE`), because there the code does go wrong: see
  `MapRegen_edit.cfg` below. Three requests suffice for the interesting races:
  two writers whose replaces interleave, and a reader that finds the result.
* **regen_locked** (2 processes, 2 files, 2 contents, 2 edits, 3 requests, all
  through a working lock, no crash). The index returned after a regen, which
  nothing judges again, is current; the no-op fast path is taken only over the
  map it would have written; a regen leaves a map the next request finds fresh.
  Two files are needed to see one removed while the other stays.
* **regen_live**: every request ends, under weak fairness of running
  processes. Edits, new requests and crashes are not fair. The code justifies
  the fairness: every step of a process is a bounded computation, the lock
  attempt does not block, and the wait has a cap (`WaitGivesUp` is that cap).

Runs end when requests run out, so deadlock is not checked.

## DaemonLifecycle

### State

| variable | code |
|---|---|
| `file` | which daemon's socket `.dekko/daemon.sock` and `.dekko/daemon.status.sock` lead to; nobody's when there is no file |
| `phase`, `sock`, `tries` | where a daemon is in `serve_daemon`, and in `_bind` or `cleanup` for which socket, on which attempt |
| `up` | the sockets it listens on; a file whose daemon does not listen refuses connections |
| `serves` | the client whose request it runs (`busy_event`) |
| `cmd`, `pc`, `stage`, `next`, `conn`, `acked` | each client's command, its position and locals |
| `report` | what the command told the user |

A daemon is spawned once; `unspawned` daemons are processes yet to be created.
A killed daemon leaves its files, and one may be there from the start.

### Actions

| action | code |
|---|---|
| `UnlinkOld`, `Bind`, `Chmod`, `Listen` | `UnixSocketTransport._bind`, for the main socket and then for the status socket; `Listen` on the second enters the accept loop |
| `Serve`, `Finish`, `Shutdown`, `IdleTimeout` | the accept loop and `_handle_connection` |
| `CloseSockets`, `UnlinkAtEnd` | `serve_daemon`'s `finally` block |
| `Exists`, `Probe`, `Dial`, `UnlinkMain`, `UnlinkStatus` | `exists`, `is_daemon_reachable` and `_status_connect` (status socket first, then main), `_connect` and its `cleanup` on a refusal |
| `RemoveStale`, `Spawn`, `Confirm` | the rest of `start`, `_wait_for_bind` |
| `Acknowledged`, `NotGraceful`, `TeardownSeen`, `Told`, `Untold`, `ForceStop` | the rest of `stop` (`_wait_for_teardown`, `_query_pid`, `force_stop`) and of `status` |
| `Abandon` | `DaemonRequestAbandonedError` |
| `Killed`, `Begin` | the environment |

A file test and the connect right after it are one step (a disappearance in
between is a refusal without a file, whose cleanup finds nothing more to remove
than the file's replacement would offer a later step). The status thread is not
a process of its own: it answers whenever the status socket listens. With
`ConnectTimeouts` a connect may also fail where somebody listens: it times out,
and the files stay, or it is refused because the queue is full, and they are
unlinked (`_connect` tells only a timeout from the rest). `ForceStop` sends SIGTERM, for
which the daemon has no handler: it is dead at once. A routed read that finds no
daemon runs locally, which needs no state here.

`Overlap = FALSE` keeps a `start` apart: nothing else is in the middle of a
command and no daemon is going down while it runs, and no other command begins
until the daemon it spawned listens. Everything else overlaps freely. Where
`Overlap = TRUE` the safety properties fail, which is what three of the
instances at the end of this file pin on a documented promise each.

### What the runs check

* **daemon_quiet** (3 daemons, 2 clients, 5 commands, kills, lost and late
  answers, expired polls; symmetry over daemons and clients, which no action
  tells apart). At most one daemon is alive; a serving daemon is reachable
  through both files; `stop` and `status` tell the truth. Three daemons are
  needed to have one die, one stopped and one running; five commands for a stop
  that fails, a stop racing it, and a start and a read after them.
* **daemon_live** (2 daemons, 2 clients, 2 commands, everything may overlap,
  time out or die). A daemon that lost its main file ends; every command ends.
  Fair: a daemon's own steps and a running command's steps, each of which is a
  bounded computation or ends at a timeout in the code; and the idle timeout of
  a daemon nobody can reach any more, whose accept timer nothing resets. The
  idle timeout of a reachable daemon is not fair: requests may keep it alive.
  Two commands are enough for each way to lose a file (a start or a prober
  unlinking what a starting daemon bound) and for each wait on a daemon that
  dies.

## DaemonRequest and RequestOnce

`line`, `closed` and `reply` are what is in each client's connection (a reply is
a result, or the refusal of a daemon of another build that lacks the command);
`queue` the connections the daemon has not accepted; `busy` the event its status
listener answers from; `misses`, `expiries` and `reason` the locals of
`_PatientWait`; `runs` counts executions by either side; `outcome` is what the
user got. Time is left out: a read may expire whenever no reply is there.

| action | code |
|---|---|
| `Dial`, `Send` | `try_daemon`, `_send_daemon_request`; a connect or send that fails leads to a local run |
| `Accept`, `ReadRequest`, `Refuse`, `NoRequest`, `Run`, `Reply` | the accept loop, `_handle_connection`, `_run_captured`, `HangUp` its end |
| `Expire`, `ReachesLimit`, `GivesUp` | `_PatientWait`: a slice of the wait, its cap, the decision to stop |
| `Receive`, `Lost` | `_recv_daemon_response`: a reply, or an end of the connection without one |
| `Die` | a daemon that is killed, at any step |

`RequestOnce` is the abstract service: a request that was handed over is run by
the daemon or by nobody, one that was not is run by the client, either at most
once; a result is reported only of what was run, and what is refused nobody ever
runs. **request_once** checks the refinement `Once!Spec` under `sent <- line`
(the whole request line has been written), and that every wait ends. Two
clients, so that one queues behind the other; a wait of up to three expired
reads, one more than the two silent probes after which the client gives up; the
daemon may hang in a request (its steps are not fair), refuse it, die, or leave
probes unanswered. Fair: only the client's steps, each of which returns or times
out.

## WarmIndex

`index` is the copy in memory with the signatures it was taken under and the
filtered view kept on it (`without_tests`); `map` and `notes` the files with
their stat; `job`, `at` and `read` the note commands, which load, truncate and
write in three steps that others see. `judged` is the map whose sidecar the
request found fresh or stale, `made` the tree it extracted, `own` whether it
regenerated. `trees` and `mapsSeen` are history, what was there since the
request began, and so is `mapped`, the trees a map has been written of.

The request is `_WarmCache.get` or the MCP server's `_index_for`:

| action | code |
|---|---|
| `MatchDisk`, `CheckFresh`, `StatNotes`, `RefreshNotes` | `index_matches_disk`, `check_freshness`, `refresh_notes`: the copy is kept |
| `Judge`, `StatMap`, `LoadMap`, `StatNotesFirst`, `LoadNotes`, `Recheck` | `_judge_current_map`: the sidecar, `load_map`, and the verdict on what was loaded if it is not what the sidecar was of (`Vouched`) |
| `Wait` | `_wait_for_other_regen`: what the holder leaves is loaded and judged |
| `Extract`, `Regen` | `_locked_regen`: the tree is extracted, and some time later the map of it replaces whatever is there |
| `Noop` | `_map_run_is_noop`: cache.json, which a run that mapped this very tree left, says nothing has changed, and map.json stays |
| `Map` | another process's `dekko map`, which takes no lock |

The regen lock is not modelled here, and `Map` may put a map of any tree there
has been in place at any time: a run that extracted long ago can replace a newer
map with an older one, before or after it is judged, and between the request's
own regen and its reload.

**warm_serve**: two requests, three writes of the map by this process and
others, two edits, a note command (an add or a remove) that may be killed. A
request answers from a map that was there since it began and, unless it
regenerated itself, of a tree that was there since then; between requests, a
signature equal to the file's means equal content; the filtered view shows the
notes of its index. Two requests are needed for the second to trust what the
first left behind, two edits and three writes for an older map to replace the
one that was judged and for the regen that follows. `CoarseClock = FALSE`: no
two writes share a timestamp (see `WarmIndex_tick.cfg` below for when they do).

What a request loads after a regen of its own nothing judges, and another
process may have replaced it with an older map (`WarmIndex_own.cfg` below). When
every writer takes the lock that cannot happen, which is `RegenAnswerIsCurrent`
of `MapRegen`. The next request judges the copy again.

## BuildIdentity

`disk` is the installed identity (version and spec hash) and `sig` its
signature: the two identity files are replaced one at a time, so a half-new
identity is visible. `loaded` is what each process started with, `memo` what a
long-lived one was last told by a child interpreter, `map` the build and tree of
`map.json`, `req` the request in progress.

| action | code |
|---|---|
| `Judge`, `Classify` | `_freshness_from_provenance`, `selfcheck.classify` |
| `Ask`, `AskChild`, `Remember` | `installed_identity`: signature, child, memo |
| `Regenerate`, `ChooseWriter`, `Extract`, `Write`, `Delegate` | `regen_map`, `_delegated_regen`, `write_map` |
| `Diff` | `_persist_hook` |
| `Install`, `Edit`, `Start` | the environment |

**build_upgrade**: one long-lived process beside one repeated command, two
installs, one edit, children that may fail. An outdated process writes no map
of its own build, except the re-map of a map that already was of that build
(`_persist_hook` does not ask the disk then: its docstring says "never from an
outdated long-lived process", the exception is written into the property);
a process that takes itself for outdated without asking, because it remembers an
identity other than its own, is outdated (of an unknown identity nothing is
claimed); the map stops changing, and ends as the installed build's. Two installs are what lets one land inside the asking of the
identity of the other. Fair: the steps of a request that has begun, and that
commands keep being run (`UsedSpec`): the map can only become the installed
build's if somebody of that build uses it.

## RevCache

`entry` and `used` are the directory: a file per revision and the order of
their last use; `lock` the per-revision locks; `role` on which terms a command
works on a miss (holder, waiter, without lock because it failed open, or with
an unresolved revision); `listed` and `victims` an eviction in progress.

`Load` reads, `LoadNothing`, `LoadStale` (which unlinks) and `LoadHit` (which
touches) judge what was read; `TryLock`, `Build`, `ExportFails`, `SkipSave`,
`Save`; `List`, `Stat`, `StatFails`, `Evict`, `Evicted` are `_evict`; `Die` is
a kill, which drops the lock.

**revcache_share**: two commands of two dekko builds over three revisions, of
which the cache keeps one. A hit is a snapshot of the running build, and not one
all of whose bodies came back empty, which `save` refuses to keep; when all is
quiet the directory exceeds its cap only by entries whose eviction was cut
short; every command ends. The properties quantify over all interleavings of one
load, one build and one eviction per command; two commands suffice for the races
between two builders, a builder and a waiter, and two evictions. Fair: the steps
of a living command (git runs under a timeout).

## SnapshotPair

`tree`, `history`, `head` and `map` are the world; `memo` is
`_new_side_memo`, the only state that survives a call; `judged`, `changed`,
`changes`, `new`, `old` and `from` the locals of one `snapshot_pair`. Hashing
and reading are one step per file, so that edits land between any two. With a
loaded index the code hashes only the bodies again and takes symbols and callers
from the index; `Read` takes the whole file, for the two agree when the file's
hash is that of the map.

**snapshot_calls**: three diffs over two files of three contents, with three
edits, a map another process replaces, and commits. The new side is made of
contents the files had since the call began, recalled or not; the working tree
stands in for a revision only if its files equalled it during the call. Three
calls: one that remembers, one that recalls, and one that must miss. Edits that
restore an earlier content (`Reverts`) and commits in the middle of a call are
kept out, because there the code goes wrong (`SnapshotPair_recall.cfg`,
`SnapshotPair_commit.cfg` below).

## CallResolution and ResolveReuse

`CallResolution` has no state. A file is what extraction says of it: the
symbols it declares, its calls, its import bindings and its re-exports.
`ResolveAll` gives every call its outcome through the part of the candidate
ladder that a receiverless JS/TS call takes, with `Origins` as the walk through
barrels (`_OriginLookup`). `ChangedNames`, `ReexportDeltaNames`,
`ReexportClosure` and `BlocksReuse` are the functions that bound what an edit
can reach (`name_delta`, `reexport_delta_names`, `reexport_closure`).

Three details are coarser than the code. `Reach` walks breadth first with a depth
per hop, `_walk` depth first with one set of visited sources, so the code may
miss an origin that a second path leads to. `ShadowedByExternalImport` looks at
the import's target, the code at stems, so an import of a file that was removed
is external to it. `ModuleMatches` compares the import's module, the code also
accepts the imported name as a stem. The first changes which edges a full
resolve gives, over the same hops. The other two depend, beside the file's own
imports, on nothing but the set of paths; when that changes nothing is reused.

In `ResolveReuse`, `extraction` is `cache.json`, `resolution` the
resolved-calls cache with the configuration it is stamped with, `run` each
process' run: `Extract`, then either `MapIsNoop` or `Resolve` (`build_reuse`
and the merge of cached edges), then `SaveExtraction` and `SaveResolution`,
which another run or a kill may come between. A run is `dekko map`
(incremental or `--full`), a diff's new side, or an exported revision resolved
with the repository's caches.

**resolve_exact**: two runs, overlapping or not, and two edits of a caller, a
barrel, a library or a tsconfig alias, from 18 starting repositories. Whatever
was cached, the edges a run ends with are those of a full resolve
(`ReuseIsExact`), and the saved cache is the resolution of the contents it
records (`CacheIsOneTree`). The contents are chosen so that each mechanism of
`build_reuse` matters: dropping the torn check, the re-export delta, its
closure, the block on stars and types, or the names a file uses, each makes TLC
find a wrong edge. The name and import checks overlap, and no content was found
that needs `_files_naming` or `_files_importing` alone. Left out of the edits: a
change of the configuration between `resolve` and `save`
(`ResolveReuse_config.cfg` below). The digest check of `load` and the resolve
that follows are one step.

**resolve_noop** is the violation run. `_map_run_is_noop` promises a run that
"would re-write byte-identical output", and does not look at the configuration
whose digests `resolvecache.load` checks: after an edit of only a tsconfig's
`paths`, `dekko map` says "unchanged" and leaves the old call edges.

## Proofs

Every invariant and every action property that a passing run checks is proved
too, and so is the refinement: for every value of the constants, that is for any
number of processes, files, contents, edits, requests, failures and crashes. The
runs show the same formulas on small instances, and with them that the
hypotheses can be met.

Each module's named assumption says what its constants are (numbers, sets of
the right kind, a "nobody" that is nobody) and TLC evaluates it in every run.
Two say more. `WarmIndexAssumption` has finitely many note commands, because
`Times` counts them. `ContentsAssumption` has finitely many files, imports and
re-exports per file, a package that is no path and no alias, and star re-exports
without a name of their own, which is how `core/extractor.py` builds them.
Where a theorem has a further hypothesis, it excludes a case in which the code
does go wrong, and TLC finds a counterexample without it; the last column below
names the instance.

| module | theorem | states | hypothesis | counterexample without |
|---|---|---|---|---|
| `MapRegenProofs` | `TypeCorrect`, `LockSafe` | `TypeOK`, `LockDiscipline` | | |
| | `DocumentsSafe`, `StampsSafe`, `JudgedAnswersSafe`, `MemoryAnswersSafe` | `HonestDocuments`, `NoMaskedEdit`, `JudgedAnswerIsCurrent`, `MemoryAnswerIsCurrent` | `EditsDuringRegen = FALSE` | `MapRegen_edit` |
| | `RegenAnswersSafe`, `NoopSafe`, `RegenSettles` | `RegenAnswerIsCurrent`, `NoopIsIdentical`, `RegenLeavesMapFresh` | `Coordinated` | below |
| `DaemonRequestProofs` | `TypeCorrect`, `RoutedOnce` | `TypeOK`, `RunsAtMostOnce` (the refinement of `RequestOnce`) | | |
| `DaemonLifecycleProofs` | `TypeCorrect` | `TypeOK` | | |
| | `OneDaemonSafe`, `ReachableSafe`, `ReportsTrue` | `OneDaemon`, `ServingIsReachable`, `TruthfulReports` | `Quiet` | below |
| `BuildIdentityProofs` | `TypeCorrect`, `VerdictsSafe`, `AuthorsSafe` | `TypeOK`, `KnownOutdatedIsTrue`, `OutdatedNeverAuthors` | | |
| `WarmIndexProofs` | `TypeCorrect`, `ViewsSafe` | `TypeOK`, `ViewsAgree` | | |
| | `SignaturesSafe`, `AnswersSafe` | `SignatureMeansContent`, `AnswerIsCurrent` | `CoarseClock = FALSE` | `WarmIndex_tick` |
| `RevCacheProofs` | `TypeCorrect`, `CachedAnswersSafe`, `BoundSafe` | `TypeOK`, `CachedAnswersAreTrue`, `BoundedAtRest` | | |
| `SnapshotPairProofs` | `TypeCorrect` | `TypeOK` | | |
| | `SameSideSafe` | `SameSideIsTheRevision` | `CommitsMidCall = FALSE` | `SnapshotPair_commit` |
| | `NewSideSafe` | `NewSideIsCurrent` | `Reverts = FALSE` | `SnapshotPair_recall` |
| `ResolveReuseProofs` | `TypeCorrect` | `TypeOK` | | |
| | `ReuseSafe`, `CacheSafe` | `ReuseIsExact`, `CacheIsOneTree` | `EditsInSave = FALSE` | `ResolveReuse_config` |

`Coordinated` is: no edit between extraction and stamp, no crash, a lock that
works and a wait that does not give up, and only the requests that use the lock
(`read`, `peek`, `diff`). Taking away any one of the five makes TLC violate
`RegenAnswerIsCurrent` and `RegenLeavesMapFresh` on small instances, and all but
the first make it violate `NoopIsIdentical`. `Quiet` is: each daemon comes up
undisturbed (`Overlap = FALSE`) and a connect succeeds where somebody listens
(`ConnectTimeouts = FALSE`). Without either, TLC violates each of the three.

### The invariants

None of these properties is inductive, except some of the types. What is added:

* **The lock** (`LockInv`). Only a `read` waits at the lock, and a holder that
  still extracts is a `read`: a diff takes it after it extracted.
* **Documents and stamps** (`SafetyInv`). A step that writes a document copies
  locals of the writer, so the invariant says what those are. Until a process
  takes its stamp, what it reused or extracted is what the tree still holds;
  from then on the stamp speaks for it, as a body that equals its hashes; no
  signature it carries hides an edit or lies ahead of the clock; and what it
  judged fresh was, at some moment of its request, the content of every file.
* **The locked regen** (`CoordInv`). When nobody is between two of
  `write_map`'s three replaces the documents agree (`Settled`), and from the
  no-op test on only the holder is at work (`HolderInv`). That is why the map a
  regen reloads needs no judging, and why a no-op test that never looks at
  `map.json` is right.
* **Requests** (`RequestInv`). Where a client's connection is: not there yet,
  once in the queue, accepted, or done with. A connection is never queued twice
  and a client that handed its request over never runs it; a refused one is done
  with, and was run by nobody (`RefusedInv`). The refinement then
  goes step by step: every step of `DaemonRequest` is a step of `RequestOnce` or
  changes nothing of it.
* **Daemons** (`QuietInv`). What each step of a start, a teardown, a stop and a
  probe leaves of the two socket files, for the one daemon that may be alive;
  and what a command in progress may conclude from what it saw.
* **Build identity** (`BuildInv`). An answer kept under a signature that is
  still the disk's is the disk's identity, since the child was asked after the
  signature was taken. A process outdated since its request began hears so
  wherever it asks, because every identity the disk had meanwhile is another
  one; the path on which nothing asks is the exception the property states.
* **Warm index** (`WarmInv`, `SignatureInv`, `AnswerInv`). A file that is
  written gets a signature nobody has taken before; so a signature taken before
  the read is that of what was read, or of no file that will ever be there.
  Judging a map and parsing it are two reads, between which an older map may
  have been put in place: the tree answered from was seen because a map judged
  fresh was of it, or because what was loaded was judged itself.
* **Diff memo** (`MissInv`). What a call read of a path fits what it hashed,
  or is gone for good; what the memo holds of a path it did not hash is what
  the map with that signature says.
* **Cached revisions** (`CacheInv`). Whatever is in the cache, and whatever of
  it was read before it was replaced or removed, was saved by a command that
  found it whole.
* **The cap** (`BoundInv`). While evictions overlap no count of files is
  kept, so the invariant speaks of who still owes an eviction. There is a set
  `Q` within the cap, left by the last complete eviction, and commands `D` that
  have added a file since and have not completed theirs. An eviction in
  progress promises to leave a set within the cap and what was added since its
  listing, all by commands of `D`, and one of those that evicts too listed
  later. Completing an eviction makes what it leaves the new `Q` and what it
  promised the new `D`. `Q`, `D` and the promises are no state of the code, so
  the invariant says that they exist.
* **Reuse** (`ReuseInv`). The saved cache is always one run's: the resolution
  of a tree under the configuration it records. That reuse from such a cache
  is exact (`ReuseExact`) is the longest argument. The names an edit can reach
  are closed under the renames of the tree's imports and re-exports
  (`ClosureCloses`); a walk of `_OriginLookup` that starts outside those names
  never enters them, so takes the same hops before and after the edit
  (`HopsSame`, `ReachSame`, `OriginsSame`); so a file that uses none of them
  and imports no torn file resolves as it did (`FileSame`). It holds for every
  content of the files, where the run has a handful.

TLC checked `LockInv`, `SafetyInv`, `CoordInv`, `BoundInv` and `ReuseInv` as
invariants on the instances of their runs, or on smaller ones.

Two models define something by recursion over numbers: the walk and the
closure in `CallResolution`, `Among` in `RevCache`. They are recursive
functions, not `RECURSIVE` operators, and the proofs follow them with
`SetInduction`: a set of numbers that has 0 and, with each number, the next one,
has all. The library's induction theorems take an operator as a parameter,
which the provers cannot instantiate; a set they can.

### Only model-checked

* Liveness: `EveryRequestEnds`, `OrphansEnd`, `EveryCommandEnds` (of
  `DaemonLifecycle` and of `RevCache`), `EveryWaitEnds`, `NoRewriteWar` and
  `MapBecomesInstalled`. They rest on fairness, and so on ENABLED, which the
  prover does not reason about.
* The violation `resolve_noop`, and the instances of the next section.

## Instances that end in a counterexample

Each of these configurations checks one documented promise that the code does
not keep in that instance. They are kept to be run by hand (`tlc -config
<name>.cfg MC<module>`), and the passing runs exclude exactly these cases.

* `MapRegen_edit` (`NeverServedStale`): an edit between a file's extraction and
  its hashing (`IncrementalCache.store`, `compute_provenance`). The old symbols
  are recorded under the new hash: later requests judge the map fresh, later
  regens reuse the entry. daemon.py:29-31 and docs/cli.md:1825-1827 say a change
  is "picked up on the next request, never served stale".
* `MapRegen_noop` (`NoopIsIdentical`): after `dekko map --json-output
  ELSEWHERE`, or a crash between writing map.json and cache.json, the cache is
  warm and the map is not: the run prints "unchanged" and exits 0.
* `MapRegen_lock` (`WaitsForAHolder`): storage/filelock.py:120-124 says that a
  failure of the primitive, "a filesystem that doesn't support locks" for one,
  "yields `True`"; `_try_acquire_posix` turns every error of `flock` into False,
  and the reader waits out the cap although nobody holds the lock.
* `MapRegen_diff` (`CurrentSideMatchesTree`): repo_ops.py:1221 documents
  `CurrentSide.fresh` as a map that matches the tree;
  `_current_side_from_provenance` loads map.json after judging the sidecar and
  does not compare the two.
* `DaemonLifecycle_teardown` (`TeardownSignal`): daemon.py:1563-1567 calls the
  removal of the main socket file "a race-free, filesystem-only signal that
  teardown has actually finished"; a prober whose connect is refused removes it
  too.
* `DaemonLifecycle_confirm` (`NoFalseNegative`): daemon.py:1416-1421 says
  waiting for the file makes a later `status` right; the file appears at `bind`,
  connects are refused until `listen`, and the refused `status` unlinks it.
* `DaemonLifecycle_bind` (`BoundIsLinked`): daemon_transport.py:321-322 says a
  fresh bind "closes that race window outright"; a file removed after `chmod`
  goes unnoticed.
* `DaemonRequest_both` (`WaitsForBoth`): docs/cli.md:1829-1836 says a queued
  request "waits for both". Between the end of one request and the reading of
  the next the daemon is not busy: a client whose slice expires then gives up
  while its request runs.
* `RevCache_options` (`HitsAreWhatABuildGives`): analysis/diff.py:400-403 calls
  a hit "unconditionally safe to reuse"; the key is the commit alone, and the
  map's discovery options shape the snapshot.
* `RevCache_evict` (`OnlyExportFails`): `_evict` sorts a listing by
  `stat().st_mtime`; an entry another command removes in between raises
  `FileNotFoundError` out of `old_snapshot`, whose docstring names only
  `ExportError`.
* `SnapshotPair_recall` (`NewSideIsCurrent`): analysis/diff.py:712-716 says of
  an edit between hash and read "a miss, never a stale hit"; if the edit is
  undone before the next call the hashes are equal again, and the answer holds
  the undone edit.
* `SnapshotPair_commit` (`SameSideIsTheRevision`): HEAD is resolved, then git
  status asked; a commit of the dirty tree in between makes the diff empty.
* `WarmIndex_tick` (`SignatureMeansContent`): render/mapfile.py:2293-2294 says
  the signature "Changes whenever the map is rewritten"; two rewrites of one
  size within one tick of the clock share `[mtime_ns, size]`.
* `WarmIndex_own` (`RegeneratedIsCurrent`): `_locked_regen` returns what it
  loads after its regen without judging it; a `dekko map` that extracted the
  tree before the edit, and takes no lock, replaces the new map in between.
  docs/cli.md:1825-1827 again: "never served stale".
* `WarmIndex_notes` (`NotesAreDurable`): storage/notes.py:1 calls notes
  "durable"; a command that loads while another has truncated the file finds no
  notes, and saves that.
* `ResolveReuse_config` (`CacheIsOneTree`): `save` digests the configuration
  when it writes, so an edit since `resolve` stamps the old calls with the new
  digest, and they are reused from then on.

## Not modelled

`PROJECT.json` lists every component with its status and reason. The models
follow the state that outlives a call or is shared between processes; that is
some 5,000 of the 67,000 lines of dekko. Most of the rest is of three kinds:

* `core/resolver.py`, `core/extractor.py`, `core/languages.py` and
  `analysis/sanity.py` (29,000 lines): rules on the syntax of each language,
  deterministic functions of file contents with a test file per rule. Of these,
  the ladder of `CallResolution` is modelled because reuse depends on it. A
  model of the others would repeat each rule in another language.
* queries, reports, rendering and the command line (15,000 lines): filtering
  and wording over one loaded index, by one thread, with nothing kept.
* impact analysis, the token budget and the session ledger: sequential
  functions of one index, list or transcript.

Inside modelled components: discovery options and the scoped-overwrite guard,
the TCP transport, MAP.md pages, the limits and streams of a daemon request,
and the comparison of two snapshots.
