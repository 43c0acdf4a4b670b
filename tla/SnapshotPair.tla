----------------------------- MODULE SnapshotPair -----------------------------
(***************************************************************************)
(* diff.snapshot_pair in a long-lived process: the old and new sides of     *)
(* one diff after another, while an editor changes the working tree and     *)
(* other processes replace the map and commit.                              *)
(*                                                                         *)
(* A fresh map serves the new side, and both sides when the tree is the     *)
(* revision.  A stale map's new side is re-mapped: written as the map, or,  *)
(* where it may not be written, kept as the process's one memo.             *)
(***************************************************************************)
EXTENDS Naturals

CONSTANTS
    Paths,
    Contents,           \* what a path may hold, "absent" among them
    Commits,
    MaxEdits, MaxMaps, MaxCalls,    \* bounds on what the outside does
    Reverts,            \* may an edit bring back what a path held before?
    CommitsMidCall      \* may a commit be made while a call is under way?

ASSUME SnapshotPairAssumption ==
    /\ "unread" \notin Contents
    /\ {MaxEdits, MaxMaps, MaxCalls} \subseteq Nat
    /\ {Reverts, CommitsMidCall} \subseteq BOOLEAN

Trees == [Paths -> Contents]
NoTree == [kind |-> "no-tree"]
Kept(t) == [kind |-> "tree", of |-> t]

VARIABLES
    tree,       \* the working tree
    history,    \* what each commit holds, if it has been made
    head,
    map,        \* map.json: what it was made from, and its map_signature
    memo,       \* _new_side_memo
    pc,
    rev,        \* the call's revision
    persist,    \* may the call write the map?
    judged,     \* the map the call judged, load_current_side
    changed,    \* Freshness: the paths judged to have moved
    changes,    \* content_changes: what they held when hashed
    new,        \* the new side, as far as it has been read
    old,
    from,       \* where the new side came from
    had,        \* history: what each path has held so far
    seen,       \* history: what each path has held since the call began
    edits, maps, calls

callVars == <<rev, persist, judged, changed, changes, new, old, from>>
worldVars == <<tree, had, history, head, map>>
counters == <<edits, maps, calls>>
vars == <<worldVars, memo, pc, callVars, seen, counters>>

Unread == [p \in Paths |-> "unread"]
Partial == [Paths -> Contents \cup {"unread"}]

TypeOK ==
    /\ tree \in Trees
    /\ history \in [Commits -> {NoTree} \cup {Kept(t) : t \in Trees}]
    /\ head \in Commits /\ history[head] # NoTree
    /\ map \in [files : Trees, signature : 0 .. MaxMaps + MaxCalls]
    /\ memo \in {NoTree} \cup
            [kind : {"memo"}, signature : 0 .. MaxMaps + MaxCalls,
             changes : Partial, snapshot : Trees]
    /\ pc \in {"idle", "judge", "forget", "same?", "clean?", "old", "recall",
               "recheck", "hash", "snapshot", "done"}
    /\ rev \in Commits /\ history[rev] # NoTree
    /\ persist \in BOOLEAN
    /\ judged \in Trees
    /\ changed \subseteq Paths
    /\ changes \in Partial
    /\ \A p \in Paths \ changed : changes[p] = "unread"
    /\ new \in Partial /\ old \in Partial
    /\ from \in {"nowhere", "revision", "index", "memo", "re-map"}
    /\ had \in [Paths -> SUBSET Contents]
    /\ seen \in [Paths -> SUBSET Contents]
    /\ pc \notin {"idle", "done"} => \A p \in Paths : tree[p] \in seen[p]
    /\ edits \in 0 .. MaxEdits /\ maps \in 0 .. MaxMaps /\ calls \in 0 .. MaxCalls

Init ==
    /\ tree \in Trees
    /\ head \in Commits
    /\ history = [c \in Commits |-> IF c = head THEN Kept(tree) ELSE NoTree]
    /\ map = [files |-> tree, signature |-> 0]
    /\ memo = NoTree
    /\ pc = "idle"
    /\ rev = head /\ persist = FALSE
    /\ judged = tree /\ changed = {} /\ changes = Unread
    /\ new = Unread /\ old = Unread /\ from = "nowhere"
    /\ had = [p \in Paths |-> {tree[p]}]
    /\ seen = [p \in Paths |-> {}]
    /\ edits = 0 /\ maps = 0 /\ calls = 0

MidCall == pc \notin {"idle", "done"}

-----------------------------------------------------------------------------
\* Outside the process.

Edit ==
    /\ edits < MaxEdits /\ edits' = edits + 1
    /\ \E p \in Paths : \E c \in Contents \ {tree[p]} :
        /\ Reverts \/ c \notin had[p]
        /\ tree' = [tree EXCEPT ![p] = c]
        /\ had' = [had EXCEPT ![p] = @ \cup {c}]
        /\ seen' = IF MidCall THEN [seen EXCEPT ![p] = @ \cup {c}] ELSE seen
    /\ UNCHANGED <<history, head, map, memo, pc, callVars, maps, calls>>

Map ==
    /\ maps < MaxMaps /\ maps' = maps + 1
    /\ map' = [files |-> tree, signature |-> map.signature + 1]
    /\ UNCHANGED <<tree, had, history, head, memo, pc, callVars, seen, edits, calls>>

Commit ==
    /\ MidCall => CommitsMidCall
    /\ \E c \in Commits :
        /\ history[c] = NoTree
        /\ history' = [history EXCEPT ![c] = Kept(tree)]
        /\ head' = c
    /\ UNCHANGED <<tree, had, map, memo, pc, callVars, seen, counters>>

-----------------------------------------------------------------------------
\* One call.

Call ==
    /\ pc \in {"idle", "done"}
    /\ calls < MaxCalls /\ calls' = calls + 1
    /\ \E c \in Commits : history[c] # NoTree /\ rev' = c
    /\ persist' \in BOOLEAN
    /\ pc' = "judge"
    /\ changed' = {} /\ changes' = Unread
    /\ new' = Unread /\ old' = Unread /\ from' = "nowhere"
    /\ seen' = [p \in Paths |-> {tree[p]}]
    /\ UNCHANGED <<worldVars, memo, judged, edits, maps>>

\* load_current_side
Judge ==
    /\ pc = "judge"
    /\ judged' = map.files
    /\ changed' = {p \in Paths : map.files[p] # tree[p]}
    /\ pc' = IF changed' = {} THEN "forget" ELSE "old"
    /\ UNCHANGED <<worldVars, memo, rev, persist, changes, new, old, from, seen,
                   counters>>

Fresh == changed = {}

\* _forget_new_side
Forget ==
    /\ pc = "forget"
    /\ memo' = NoTree
    /\ pc' = "same?"
    /\ UNCHANGED <<worldVars, callVars, seen, counters>>

\* worktree_matches_rev: the revision is HEAD's commit ...
SameCommit ==
    /\ pc = "same?"
    /\ pc' = IF rev = head THEN "clean?" ELSE "old"
    /\ UNCHANGED <<worldVars, memo, callVars, seen, counters>>

\* Mutant of IsClean: `git status` is not consulted.
AlwaysClean == TRUE

\* _worktree_clean: git status, against whatever HEAD is by now.
IsClean == Kept(tree) = history[head]

\* ... and the tree is clean: then both sides are the index's snapshot.
Clean ==
    /\ pc = "clean?"
    /\ \/ IsClean /\ pc' = "snapshot" /\ from' = "revision"
       \/ pc' = "old" /\ UNCHANGED from     \* or git failed
    /\ UNCHANGED <<worldVars, memo, rev, persist, judged, changed, changes, new,
                   old, seen, counters>>

\* old_snapshot: the commit itself, from the cache or built, or ExportError.
OldSide ==
    /\ pc = "old"
    /\ \/ /\ old' = history[rev].of
          /\ pc' = IF Fresh \/ memo = NoTree THEN "hash" ELSE "recall"
       \/ pc' = "done" /\ UNCHANGED old
    /\ UNCHANGED <<worldVars, memo, rev, persist, judged, changed, changes, new,
                   from, seen, counters>>

Hashed == \A p \in changed : changes[p] # "unread"

\* Mutant of Hash: files outside the verdict are hashed as well.
HashAny(p) ==
    /\ pc \in {"recall", "hash"}
    /\ changes[p] = "unread"
    /\ ~(persist /\ pc = "hash")
    /\ changes' = [changes EXCEPT ![p] = tree[p]]
    /\ UNCHANGED <<worldVars, memo, pc, rev, persist, judged, changed, new, old,
                   from, seen, counters>>

\* _memo_changes: one listed file after another, for _recall_new_side ...
Hash(p) ==
    /\ pc \in {"recall", "hash"}
    /\ p \in changed /\ changes[p] = "unread"
    /\ ~(persist /\ pc = "hash")
    /\ changes' = [changes EXCEPT ![p] = tree[p]]
    /\ UNCHANGED <<worldVars, memo, pc, rev, persist, judged, changed, new, old,
                   from, seen, counters>>

\* Mutant of MemoMatches: only the map is compared.
MapMatches == map.signature = memo.signature

MemoMatches == changes = memo.changes /\ map.signature = memo.signature

\* _recall_new_side
Recall ==
    /\ pc = "recall" /\ Hashed /\ MemoMatches
    /\ new' = memo.snapshot
    /\ from' = "memo"
    /\ pc' = "done"
    /\ UNCHANGED <<worldVars, memo, rev, persist, judged, changed, changes, old,
                   seen, counters>>

NoRecall ==
    /\ pc = "recall" /\ Hashed /\ ~MemoMatches
    /\ changes' = Unread
    /\ pc' = "hash"
    /\ UNCHANGED <<worldVars, memo, rev, persist, judged, changed, new, old, from,
                   seen, counters>>

\* ... and before the new side reads a byte, unless it is going to be written.
HashedAll ==
    /\ pc = "hash" /\ (persist \/ Hashed)
    /\ from' = IF Fresh THEN "index" ELSE "re-map"
    /\ pc' = "snapshot"
    /\ UNCHANGED <<worldVars, memo, rev, persist, judged, changed, changes, new,
                   old, seen, counters>>

\* snapshot, or snapshot_from_index and its body hashes: file by file.
Read(p) ==
    /\ pc = "snapshot" /\ new[p] = "unread"
    /\ new' = [new EXCEPT ![p] = tree[p]]
    /\ UNCHANGED <<worldVars, memo, pc, rev, persist, judged, changed, changes,
                   old, from, seen, counters>>

AllRead == \A p \in Paths : new[p] # "unread"

FreshDone ==
    /\ pc = "snapshot" /\ AllRead /\ from # "re-map"
    /\ old' = IF from = "revision" THEN new ELSE old
    /\ pc' = "done"
    /\ UNCHANGED <<worldVars, memo, rev, persist, judged, changed, changes, new,
                   from, seen, counters>>

\* _persist_hook's write: persist_remap replaces the map.
Persist ==
    /\ pc = "snapshot" /\ AllRead /\ from = "re-map" /\ persist
    /\ map' = [files |-> new, signature |-> map.signature + 1]
    /\ pc' = "done"
    /\ UNCHANGED <<tree, had, history, head, memo, callVars, seen, counters>>

\* Mutant of KeptChanges: hashed again, after the new side was read.
HashedAfterwards == [p \in Paths |-> IF p \in changed THEN tree[p] ELSE "unread"]

KeptChanges == changes

\* _remember_new_side
Remember ==
    /\ pc = "snapshot" /\ AllRead /\ from = "re-map" /\ ~persist
    /\ memo' = [kind |-> "memo", signature |-> map.signature,
                changes |-> KeptChanges, snapshot |-> new]
    /\ pc' = "done"
    /\ UNCHANGED <<worldVars, callVars, seen, counters>>

-----------------------------------------------------------------------------
Step ==
    \/ Judge \/ Forget \/ SameCommit \/ Clean \/ OldSide
    \/ (\E p \in Paths : Hash(p) \/ Read(p))
    \/ Recall \/ NoRecall \/ HashedAll \/ FreshDone \/ Persist \/ Remember

Next == Call \/ Step \/ Edit \/ Map \/ Commit

Spec == Init /\ [][Next]_vars

-----------------------------------------------------------------------------
(***************************************************************************)
(* Properties                                                              *)
(***************************************************************************)

\* The memo's docstring: "a miss, never a stale hit".  Whatever was edited
\* while the remembered call hashed and read, and since, a new side is made of
\* contents the paths have held since the answered call began.
NewSideIsCurrent ==
    pc = "done" /\ from # "nowhere" => \A p \in Paths : new[p] \in seen[p]

\* worktree_matches_rev is "True only when both conditions provably hold": where
\* the working tree stands in for the revision, each path has held the
\* revision's content since the call began.
SameSideIsTheRevision ==
    pc = "done" /\ from = "revision" =>
        \A p \in Paths : history[rev].of[p] \in seen[p]
===============================================================================
