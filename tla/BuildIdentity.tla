----------------------------- MODULE BuildIdentity -----------------------------
(***************************************************************************)
(* selfcheck: dekko is upgraded under processes that keep running the code  *)
(* they loaded, while commands of the new build use the same map.           *)
(*                                                                         *)
(* A map of another build is stale to a command.  A long-lived process asks *)
(* the disk which of the two is outdated, and leaves writing the map to the *)
(* installed build when that is itself.                                     *)
(***************************************************************************)
EXTENDS Naturals

CONSTANTS
    LongLived,      \* daemons and MCP servers
    Commands,       \* one-shot commands, each run again and again
    Releases,       \* what a version and a spec hash may be
    MaxInstalls, MaxEdits,  \* bounds on what the outside does
    ChildFails      \* may a child interpreter fail?

ASSUME BuildIdentityAssumption ==
    /\ LongLived \cap Commands = {}
    /\ {MaxInstalls, MaxEdits} \subseteq Nat
    /\ ChildFails \in BOOLEAN

Procs == LongLived \cup Commands
Identities == [version : Releases, spec : Releases]
Unknown == [child |-> "failed"]

VARIABLES
    disk,       \* the identity installed
    sig,        \* install_signature: how often an identity file was replaced
    tree,       \* the working tree, by the number of edits so far
    map,        \* map.json: the build that made it, and of which tree
    loaded,     \* LOADED_VERSION and loaded_spec of each process
    memo,       \* _identity_memo
    req         \* the request each process serves

world == <<disk, sig, tree>>
vars == <<world, map, loaded, memo, req>>

Maps == [build : Identities, tree : 0 .. MaxEdits]
NoMap == [build |-> Unknown, tree |-> 0]
NoMemo == [sig |-> MaxInstalls + 1, identity |-> Unknown]     \* no such signature

\* A request: where it is, what it asks the installed identity for and the
\* signature it took before asking, the child's answer, the map it judges, the
\* one it writes, and (history) whether its process has been outdated all along.
Requests ==
    [at : {"idle", "judge", "ask", "child", "answered", "identity", "stale", "delegate",
           "regen", "write"},
     need : {"verdict", "regen"}, taken : 0 .. MaxInstalls,
     answer : Identities \cup {Unknown},
     judged : Maps \cup {NoMap}, work : Maps \cup {NoMap}, outdated : BOOLEAN]

Idle == [at |-> "idle", need |-> "verdict", taken |-> 0, answer |-> Unknown,
         judged |-> NoMap, work |-> NoMap, outdated |-> FALSE]

TypeOK ==
    /\ disk \in Identities
    /\ sig \in 0 .. MaxInstalls
    /\ tree \in 0 .. MaxEdits
    /\ map \in Maps
    /\ loaded \in [Procs -> Identities]
    /\ memo \in [Procs -> [sig : 0 .. MaxInstalls + 1,
                           identity : Identities \cup {Unknown}]]
    /\ req \in [Procs -> Requests]
    /\ \A p \in Procs : req[p].outdated => loaded[p] # disk
    /\ \A p \in Procs : req[p].at = "write" <=> req[p].work # NoMap
    /\ \A p \in Commands :
            req[p].at \notin {"ask", "child", "answered", "identity", "delegate"}

Init ==
    /\ disk \in Identities
    /\ sig = 0
    /\ tree = 0
    /\ map \in [build : Identities, tree : {0}]
    /\ loaded = [p \in Procs |-> disk]
    /\ memo = [p \in Procs |-> NoMemo]
    /\ req = [p \in Procs |-> Idle]

At(p, label) == req[p].at = label
Goto(p, label) == req' = [req EXCEPT ![p].at = label]
End(p) == req' = [req EXCEPT ![p] = Idle]

-----------------------------------------------------------------------------
\* The installer replaces languages.py and METADATA one after the other.
Install ==
    /\ sig < MaxInstalls /\ sig' = sig + 1
    /\ \E r \in Releases :
        \/ r # disk.spec /\ disk' = [disk EXCEPT !.spec = r]
        \/ r # disk.version /\ disk' = [disk EXCEPT !.version = r]
    /\ req' = [p \in Procs |->
                [req[p] EXCEPT !.outdated = @ /\ loaded[p] # disk']]
    /\ UNCHANGED <<tree, map, loaded, memo>>

Edit ==
    /\ tree < MaxEdits /\ tree' = tree + 1
    /\ UNCHANGED <<disk, sig, map, loaded, memo, req>>

-----------------------------------------------------------------------------
\* A command loads what is installed; a long-lived process did so long ago.
Start(p) ==
    /\ At(p, "idle")
    /\ loaded' = IF p \in Commands THEN [loaded EXCEPT ![p] = disk] ELSE loaded
    /\ req' = [req EXCEPT ![p].at = "judge", ![p].outdated = loaded'[p] # disk]
    /\ UNCHANGED <<world, map, memo>>

\* Mutant of OfThisBuild: a spec hash that moved under one version goes unseen.
OfThisVersion(p) == map.build.version = loaded[p].version

OfThisBuild(p) == map.build = loaded[p]

\* _freshness_from_provenance: another build's map is stale to a command; a
\* long-lived process asks the disk first.  Else the content decides.
Judge(p) ==
    /\ At(p, "judge")
    /\ IF OfThisBuild(p) /\ map.tree = tree THEN End(p)
       ELSE req' = [req EXCEPT
                ![p].judged = map,
                ![p].at = IF ~OfThisBuild(p) /\ p \in LongLived
                          THEN "ask" ELSE "stale"]
    /\ UNCHANGED <<world, map, loaded, memo>>

\* installed_identity: the signature, then the memo or the child.
Ask(p) ==
    /\ At(p, "ask")
    /\ req' = [req EXCEPT
            ![p].taken = sig,
            ![p].at = IF memo[p].sig = sig THEN "identity" ELSE "child"]
    /\ UNCHANGED <<world, map, loaded, memo>>

\* _ask_child: what is installed by now, unless the child fails.
AskChild(p) ==
    /\ At(p, "child")
    /\ \E identity \in {disk} \cup (IF ChildFails THEN {Unknown} ELSE {}) :
        req' = [req EXCEPT ![p].at = "answered", ![p].answer = identity]
    /\ UNCHANGED <<world, map, loaded, memo>>

\* Mutant of MemoKey: the signature is taken once the child has answered, when
\* the next file may already have been replaced.
LateMemoKey(p) == sig

MemoKey(p) == req[p].taken

\* The end of installed_identity: the answer replaces the memo.
Remember(p) ==
    /\ At(p, "answered")
    /\ memo' = [memo EXCEPT ![p] =
                    [sig |-> MemoKey(p), identity |-> req[p].answer]]
    /\ req' = [req EXCEPT ![p].at = "identity", ![p].answer = Unknown]
    /\ UNCHANGED <<world, map, loaded>>

\* known_outdated: the memo alone, which daemon status and pings read.
KnownOutdated(p) == memo[p].sig = sig /\ memo[p].identity # loaded[p]

\* Mutant of Installed: a process that asks itself what is installed.
AsksItself(p) == loaded[p]

Installed(p) == memo[p].identity

\* classify: PROCESS_OUTDATED and UNPROVEN, where the content decides.
LeavesMapAlone(p) ==
    Installed(p) # loaded[p] /\ Installed(p) \in {Unknown, req[p].judged.build}

Classify(p) ==
    /\ At(p, "identity") /\ req[p].need = "verdict"
    /\ IF LeavesMapAlone(p) /\ req[p].judged.tree = tree THEN End(p)
       ELSE Goto(p, "stale")
    /\ UNCHANGED <<world, map, loaded, memo>>

\* A read regenerates a stale map: regen_map asks process_outdated first.
Regenerate(p) ==
    /\ At(p, "stale")
    /\ IF p \in Commands THEN Goto(p, "regen")
       ELSE req' = [req EXCEPT ![p].at = "ask", ![p].need = "regen"]
    /\ UNCHANGED <<world, map, loaded, memo>>

\* Freshness.process_outdated: set when the map is of another build, and then
\* not when the disk agrees with this process.
ProcessOutdated(p) ==
    /\ p \in LongLived
    /\ req[p].judged.build # loaded[p]
    /\ Installed(p) # loaded[p]

\* A diff writes its own re-map, _persist_hook, or leaves the map alone.
Diff(p) ==
    /\ At(p, "stale")
    /\ IF ProcessOutdated(p) THEN End(p) ELSE Goto(p, "regen")
    /\ UNCHANGED <<world, map, loaded, memo>>

\* Mutant of MayRegen: process_outdated is not consulted.
AlwaysRegens(p) == TRUE

\* ~process_outdated
MayRegen(p) == Installed(p) = loaded[p]

ChooseWriter(p) ==
    /\ At(p, "identity") /\ req[p].need = "regen"
    /\ Goto(p, IF MayRegen(p) THEN "regen" ELSE "delegate")
    /\ UNCHANGED <<world, map, loaded, memo>>

Extracted(p, build) ==
    req' = [req EXCEPT ![p].at = "write",
                       ![p].work = [build |-> build, tree |-> tree]]

\* run_map, or the re-map of a diff, with the code of this process.
Extract(p) ==
    /\ At(p, "regen")
    /\ Extracted(p, loaded[p])
    /\ UNCHANGED <<world, map, loaded, memo>>

\* _delegated_regen: a child of the installed build does the same, or fails and
\* the map stays as it is.
Delegate(p) ==
    /\ At(p, "delegate")
    /\ \/ Extracted(p, disk)
       \/ ChildFails /\ End(p)
    /\ UNCHANGED <<world, map, loaded, memo>>

\* Mutant of Write: the request it ends leaves its work behind.
WriteKeepsWork(p) ==
    /\ At(p, "write")
    /\ map' = req[p].work
    /\ Goto(p, "idle")
    /\ UNCHANGED <<world, loaded, memo>>

\* write_map
Write(p) ==
    /\ At(p, "write")
    /\ map' = req[p].work
    /\ End(p)
    /\ UNCHANGED <<world, loaded, memo>>

-----------------------------------------------------------------------------
Step(p) ==
    \/ Judge(p) \/ Ask(p) \/ AskChild(p) \/ Remember(p) \/ Classify(p)
    \/ Regenerate(p) \/ Diff(p) \/ ChooseWriter(p) \/ Extract(p) \/ Delegate(p) \/ Write(p)

Next == Install \/ Edit \/ \E p \in Procs : Start(p) \/ Step(p)

Spec == Init /\ [][Next]_vars

\* A request that has begun goes on.
FairSpec == Spec /\ \A p \in Procs : WF_vars(Step(p))

\* And commands keep being run.
UsedSpec == FairSpec /\ \A p \in Commands : WF_vars(Start(p))

-----------------------------------------------------------------------------
(***************************************************************************)
(* Properties                                                              *)
(***************************************************************************)

\* "A process that can't show it's current must not author shared state": a
\* long-lived process that has been outdated since its request began writes no
\* map of its own build, save where nothing asks the disk: a diff, whose re-map
\* replaces a map of that same build.
OutdatedNeverAuthors ==
    \A p \in LongLived :
        req[p].outdated /\ At(p, "write") /\ req[p].work.build = loaded[p]
            => req[p].need = "verdict" /\ req[p].judged.build = loaded[p]

\* What known_outdated claims of a process from an identity it was once told is
\* true of the disk now, however the installation moved on during the asking.
KnownOutdatedIsTrue ==
    \A p \in LongLived :
        KnownOutdated(p) /\ memo[p].identity # Unknown => loaded[p] # disk

\* The rewrite war selfcheck exists to end: once the installer and the editor
\* are done, processes of different builds stop replacing each other's map.
NoRewriteWar == <>[][UNCHANGED map]_vars

\* As long as commands are run, the map ends up being the installed build's, of
\* the tree as it is.
MapBecomesInstalled == <>[](map = [build |-> disk, tree |-> tree])
===============================================================================
