------------------------------- MODULE RevCache -------------------------------
(***************************************************************************)
(* The cache of mapped revisions: diff.old_snapshot over .dekko/rev-cache/. *)
(* Commands of several dekko builds ask for the snapshot of a revision at   *)
(* the same time.  A miss is built under a lock of that revision; whoever   *)
(* finds the lock taken polls the cache for a while and then builds too.    *)
(* Saving an entry evicts the ones used longest ago.                        *)
(***************************************************************************)
EXTENDS Naturals, FiniteSets, SequencesExt

CONSTANTS
    Commands,       \* one call of old_snapshot each
    Revs,           \* commits, by their full SHA
    Options,        \* subpath, excludes, size cap, follow_symlinks
    Builds,         \* dekko builds, told apart by the stamp of their entries
    NoCommand,
    MaxEntries,     \* MAX_ENTRIES
    Polls,          \* loads a waiter makes before _REV_CACHE_LOCK_WAIT_CAP
    GitFails,       \* may git fail to resolve or to export a revision?
    ReadFails,      \* may every read of an exported file fail?
    LockFails,      \* may the lock primitive fail?
    Dies            \* may a command be killed?

ASSUME RevCacheAssumption ==
    /\ NoCommand \notin Commands
    /\ MaxEntries \in Nat \ {0}
    /\ Polls \in Nat \ {0}
    /\ {GitFails, ReadFails, LockFails, Dies} \subseteq BOOLEAN

Jobs == [rev : Revs, options : Options, build : Builds]

\* A snapshot: what shaped it, and whether the files could be read at all.
Snapshots == [options : Options, build : Builds, whole : BOOLEAN]

Nothing == [kind |-> "nothing"]     \* no such file
Blank == [kind |-> "blank"]         \* an empty file, left by _touch
Saved(snap) == [kind |-> "saved", snap |-> snap]
Files == {Nothing, Blank} \cup {Saved(snap) : snap \in Snapshots}

VARIABLES
    job,        \* what each command was asked for
    entry,      \* <sha>.json
    used,       \* the revisions that have a file, the one used last at the end
    lock,       \* who holds <sha>.lock
    pc,
    role,       \* on which terms a command works on a miss
    doc,        \* what load read
    polls,      \* loads made while waiting
    built,      \* the snapshot a command built
    listed,     \* _evict's directory listing
    victims,    \* entries _evict has yet to remove
    outcome

entryVars == <<entry, used>>
evictVars == <<listed, victims>>
vars == <<job, entryVars, lock, pc, role, doc, polls, built, evictVars, outcome>>

\* What a command ends with, from the cache or from a build of its own.
Outcomes ==
    {[kind |-> k] : k \in {"none", "no-export", "file-not-found", "killed"}}
        \cup [kind : {"cached", "built"}, snap : Snapshots]

TypeOK ==
    /\ job \in [Commands -> Jobs]
    /\ entry \in [Revs -> Files]
    /\ used \in Seq(Revs)
    /\ IsInjective(used)
    /\ lock \in [Revs -> Commands \cup {NoCommand}]
    /\ pc \in [Commands -> {"resolve", "look", "judge", "lock", "build", "save",
                            "list", "stat", "evict", "done"}]
    /\ role \in [Commands -> {"none", "unresolved", "holder", "open", "waiter"}]
    /\ doc \in [Commands -> Files]
    /\ polls \in [Commands -> 0 .. Polls]
    /\ built \in [Commands -> Files]
    /\ listed \in [Commands -> SUBSET Revs]
    /\ victims \in [Commands -> Seq(Revs)]
    /\ outcome \in [Commands -> Outcomes]
    /\ ToSet(used) = {r \in Revs : entry[r] # Nothing}
    /\ \A r \in Revs : lock[r] # NoCommand =>
            /\ pc[lock[r]] \in {"build", "save", "list", "stat", "evict"}
            /\ role[lock[r]] = "holder"
    /\ \A c \in Commands : pc[c] = "done" <=> outcome[c].kind # "none"

Init ==
    /\ job \in [Commands -> Jobs]
    /\ entry = [r \in Revs |-> Nothing]
    /\ used = <<>>
    /\ lock = [r \in Revs |-> NoCommand]
    /\ pc = [c \in Commands |-> "resolve"]
    /\ role = [c \in Commands |-> "none"]
    /\ doc = [c \in Commands |-> Nothing]
    /\ polls = [c \in Commands |-> 0]
    /\ built = [c \in Commands |-> Nothing]
    /\ listed = [c \in Commands |-> {}]
    /\ victims = [c \in Commands |-> <<>>]
    /\ outcome = [c \in Commands |-> [kind |-> "none"]]

RevOf(c) == job[c].rev
Goto(c, label) == pc' = [pc EXCEPT ![c] = label]

\* The members of a set in the order a sequence has them.  (SelectSeq, as a
\* recursive function that a proof can follow.)
Among(seq, set) ==
    LET upTo[n \in 0 .. Len(seq)] ==
            IF n = 0 THEN <<>>
            ELSE IF seq[n] \in set THEN Append(upTo[n - 1], seq[n])
            ELSE upTo[n - 1]
    IN  upTo[Len(seq)]

Forget(r) == Among(used, Revs \ {r})
UsedNow(r) == Append(Forget(r), r)

\* Mutant of End: the lock is not given back.
EndKeepsLock(c, result) ==
    /\ outcome' = [outcome EXCEPT ![c] = result]
    /\ Goto(c, "done")
    /\ UNCHANGED lock

\* The command is over, one way or another, and its lock goes with it.
End(c, result) ==
    /\ outcome' = [outcome EXCEPT ![c] = result]
    /\ Goto(c, "done")
    /\ lock' = [r \in Revs |-> IF lock[r] = c THEN NoCommand ELSE lock[r]]

-----------------------------------------------------------------------------
\* old_snapshot: revcache.resolve_sha; without a SHA there is nothing to look up.
Resolve(c) ==
    /\ pc[c] = "resolve"
    /\ \/ Goto(c, "look") /\ UNCHANGED role
       \/ GitFails /\ Goto(c, "build")
            /\ role' = [role EXCEPT ![c] = "unresolved"]
    /\ UNCHANGED <<job, entryVars, lock, doc, polls, built, evictVars, outcome>>

\* load's read of the entry, first or while waiting.
Load(c) ==
    /\ pc[c] = "look"
    /\ doc' = [doc EXCEPT ![c] = entry[RevOf(c)]]
    /\ Goto(c, "judge")
    /\ UNCHANGED <<job, entryVars, lock, role, polls, built, evictVars, outcome>>

\* Mutant of Miss: a waiter polls until the entry is there.
MissWaitsForever(c) ==
    /\ Goto(c, IF role[c] = "none" THEN "lock" ELSE "look")
    /\ UNCHANGED polls

\* Where a miss leads: to the lock, and for a waiter to another poll or a build.
Miss(c) ==
    IF role[c] = "none" THEN Goto(c, "lock") /\ UNCHANGED polls
    ELSE /\ polls' = [polls EXCEPT ![c] = @ + 1]
         /\ Goto(c, IF polls[c] + 1 < Polls THEN "look" ELSE "build")

\* Mutant of IsCurrent: the stamp is not compared.
AnyStamp(c, file) == file.kind = "saved"

\* _is_current
IsCurrent(c, file) == file.kind = "saved" /\ file.snap.build = job[c].build

\* Nothing there, or nothing that parses: the file is left as it is.
LoadNothing(c) ==
    /\ pc[c] = "judge" /\ doc[c].kind # "saved"
    /\ Miss(c)
    /\ UNCHANGED <<job, entryVars, lock, role, doc, built, evictVars, outcome>>

\* Another build's entry is unlinked, whatever is there by now.
LoadStale(c) ==
    /\ pc[c] = "judge" /\ doc[c].kind = "saved" /\ ~IsCurrent(c, doc[c])
    /\ entry' = [entry EXCEPT ![RevOf(c)] = Nothing]
    /\ used' = Forget(RevOf(c))
    /\ Miss(c)
    /\ UNCHANGED <<job, lock, role, doc, built, evictVars, outcome>>

\* _touch: an entry evicted since it was read comes back as an empty file.
LoadHit(c) ==
    /\ pc[c] = "judge" /\ IsCurrent(c, doc[c])
    /\ entry' = [entry EXCEPT ![RevOf(c)] = IF @ = Nothing THEN Blank ELSE @]
    /\ used' = UsedNow(RevOf(c))
    /\ End(c, [kind |-> "cached", snap |-> doc[c].snap])
    /\ UNCHANGED <<job, role, doc, polls, built, evictVars>>

\* try_named_lock: an error of flock is taken for another process's holding the
\* lock, a lock file that cannot be opened fails open.
TryLock(c) ==
    /\ pc[c] = "lock"
    /\ \/ /\ lock[RevOf(c)] = NoCommand
          /\ lock' = [lock EXCEPT ![RevOf(c)] = c]
          /\ role' = [role EXCEPT ![c] = "holder"]
          /\ Goto(c, "build")
       \/ /\ lock[RevOf(c)] # NoCommand \/ LockFails
          /\ role' = [role EXCEPT ![c] = "waiter"]
          /\ Goto(c, "look")
          /\ UNCHANGED lock
       \/ /\ LockFails
          /\ role' = [role EXCEPT ![c] = "open"]
          /\ Goto(c, "build")
          /\ UNCHANGED lock
    /\ UNCHANGED <<job, entryVars, doc, polls, built, evictVars, outcome>>

\* _build_and_cache_old_snapshot: export, extract, resolve.
Build(c) ==
    /\ pc[c] = "build"
    /\ \E whole \in {TRUE} \cup {~ReadFails} :
        built' = [built EXCEPT ![c] =
            Saved([options |-> job[c].options, build |-> job[c].build,
                   whole |-> whole])]
    /\ Goto(c, "save")
    /\ UNCHANGED <<job, entryVars, lock, role, doc, polls, evictVars, outcome>>

\* ExportError
ExportFails(c) ==
    /\ GitFails /\ pc[c] = "build"
    /\ End(c, [kind |-> "no-export"])
    /\ UNCHANGED <<job, entryVars, role, doc, polls, built, evictVars>>

Answer(c) == End(c, [kind |-> "built", snap |-> built[c].snap])

\* Mutant of Saveable: a snapshot without a single body is saved too.
AlwaysSaveable(c) == role[c] # "unresolved"

\* _is_all_empty_body, and a revision without a SHA has no entry to write.
Saveable(c) == role[c] # "unresolved" /\ built[c].snap.whole

SkipSave(c) ==
    /\ pc[c] = "save" /\ ~Saveable(c)
    /\ Answer(c)
    /\ UNCHANGED <<job, entryVars, role, doc, polls, built, evictVars>>

\* atomic_write_bytes
Save(c) ==
    /\ pc[c] = "save" /\ Saveable(c)
    /\ entry' = [entry EXCEPT ![RevOf(c)] = built[c]]
    /\ used' = UsedNow(RevOf(c))
    /\ Goto(c, "list")
    /\ UNCHANGED <<job, lock, role, doc, polls, built, evictVars, outcome>>

\* _evict: glob, then a stat of everything it found, then the unlinks.
List(c) ==
    /\ pc[c] = "list"
    /\ listed' = [listed EXCEPT ![c] = ToSet(used)]
    /\ Goto(c, "stat")
    /\ UNCHANGED <<job, entryVars, lock, role, doc, polls, built, victims, outcome>>

\* Mutant of Oldest: one entry too many is kept.
OldestButOne(revs) ==
    LET order == Among(used, revs)
    IN  IF Len(order) > MaxEntries + 1
        THEN SubSeq(order, 1, Len(order) - MaxEntries - 1) ELSE <<>>

\* entries[:-MAX_ENTRIES]
Oldest(revs) ==
    LET order == Among(used, revs)
    IN  IF Len(order) > MaxEntries
        THEN SubSeq(order, 1, Len(order) - MaxEntries) ELSE <<>>

Stat(c) ==
    /\ pc[c] = "stat" /\ listed[c] \subseteq ToSet(used)
    /\ victims' = [victims EXCEPT ![c] = Oldest(listed[c])]
    /\ Goto(c, "evict")
    /\ UNCHANGED <<job, entryVars, lock, role, doc, polls, built, listed, outcome>>

\* A listed entry has gone: the stat raises, and nobody catches it.
StatFails(c) ==
    /\ pc[c] = "stat" /\ ~(listed[c] \subseteq ToSet(used))
    /\ End(c, [kind |-> "file-not-found"])
    /\ UNCHANGED <<job, entryVars, role, doc, polls, built, evictVars>>

Evict(c) ==
    /\ pc[c] = "evict" /\ victims[c] # <<>>
    /\ entry' = [entry EXCEPT ![Head(victims[c])] = Nothing]
    /\ used' = Forget(Head(victims[c]))
    /\ victims' = [victims EXCEPT ![c] = Tail(@)]
    /\ UNCHANGED <<job, lock, pc, role, doc, polls, built, listed, outcome>>

Evicted(c) ==
    /\ pc[c] = "evict" /\ victims[c] = <<>>
    /\ Answer(c)
    /\ UNCHANGED <<job, entryVars, role, doc, polls, built, evictVars>>

\* The operating system drops a dead holder's lock.
Die(c) ==
    /\ Dies /\ pc[c] # "done"
    /\ End(c, [kind |-> "killed"])
    /\ UNCHANGED <<job, entryVars, role, doc, polls, built, evictVars>>

-----------------------------------------------------------------------------
Step(c) ==
    \/ Resolve(c) \/ Load(c) \/ LoadNothing(c) \/ LoadStale(c) \/ LoadHit(c)
    \/ TryLock(c) \/ Build(c) \/ ExportFails(c) \/ SkipSave(c) \/ Save(c)
    \/ List(c) \/ Stat(c) \/ StatFails(c) \/ Evict(c) \/ Evicted(c)

Next == \E c \in Commands : Step(c) \/ Die(c)

Spec == Init /\ [][Next]_vars

\* A command that is neither killed nor done goes on: git has a timeout, the
\* rest is its own work.
FairSpec == Spec /\ \A c \in Commands : WF_vars(Step(c))

-----------------------------------------------------------------------------
(***************************************************************************)
(* Properties                                                              *)
(***************************************************************************)

\* load promises a miss for everything but a snapshot of the running build, and
\* save keeps none all of whose bodies came back empty: whatever commands of
\* other builds delete, replace or recreate between load's read and its verdict,
\* nobody is answered from another build's entry or from a failed read.
CachedAnswersAreTrue ==
    \A c \in Commands : outcome[c].kind = "cached" =>
        outcome[c].snap.build = job[c].build /\ outcome[c].snap.whole

\* "Bounded to MAX_ENTRIES": once every command is over, the directory is over
\* the cap by no more files than there were commands that were cut short before
\* or in their eviction, or that a hit made touch an entry already evicted.
Unevicted ==
    {c \in Commands : outcome[c].kind \in {"killed", "file-not-found", "cached"}}

BoundedAtRest ==
    (\A c \in Commands : pc[c] = "done") =>
        Len(used) <= MaxEntries + Cardinality(Unevicted)

\* "The lock must never block the work from happening": every command ends,
\* although the holder it waits for may die, fail or save nothing.
EveryCommandEnds == \A c \in Commands : <>(pc[c] = "done")

\* old_snapshot's docstring: "a cache hit here is unconditionally safe to reuse
\* without any freshness check".  A hit is the snapshot the command would have
\* built.  (The options are not part of the key.)
HitsAreWhatABuildGives ==
    \A c \in Commands : outcome[c].kind = "cached" =>
        outcome[c].snap.options = job[c].options

\* old_snapshot's "Raises: ExportError" is the only failure it names: a command
\* that was not killed and whose export worked is answered.
OnlyExportFails ==
    \A c \in Commands : outcome[c].kind # "file-not-found"
===============================================================================
