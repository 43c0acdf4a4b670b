--------------------------- MODULE SnapshotPairProofs ---------------------------
(***************************************************************************)
(* Proofs about SnapshotPair, for any number of paths, contents and        *)
(* commits: the types; when no commit is made during a call, that the      *)
(* working tree only stands in for the revision it is; and when no edit    *)
(* brings an old content back, that the memo is a miss, never a stale hit. *)
(***************************************************************************)
EXTENDS SnapshotPair, TLAPS

Labels == {"idle", "judge", "forget", "same?", "clean?", "old", "recall",
           "recheck", "hash", "snapshot", "done"}
Signatures == 0 .. MaxMaps + MaxCalls
Memos == [kind : {"memo"}, signature : Signatures, changes : Partial,
          snapshot : Trees]

(***************************************************************************)
(* The control of a call: what it has not done yet, where it is.           *)
(***************************************************************************)
CallInv ==
    /\ map.signature <= maps + calls
    /\ MidCall => map.signature < maps + calls
    /\ memo # NoTree => memo.signature <= map.signature
    /\ pc \in {"judge", "forget", "same?", "clean?", "old"} => changes = Unread
    /\ pc \in {"same?", "clean?"} => memo = NoTree
    /\ pc = "recall" => memo # NoTree /\ ~Fresh
    /\ pc \notin {"snapshot", "done"} => from = "nowhere"
    /\ pc = "done" /\ from # "nowhere" => AllRead

PairInv == TypeOK /\ CallInv

-----------------------------------------------------------------------------
\* The revision's tree has been there since the call began.
SideInv ==
    /\ pc = "clean?" => rev = head
    /\ from = "revision" => \A p \in Paths : history[rev].of[p] \in seen[p]

-----------------------------------------------------------------------------
\* A content that a path held, and will not hold again.
Gone(p, c) == c \in had[p] /\ tree[p] # c

\* No path that was hashed can be found changed with the content it had then:
\* it is what the map says, or has moved on.
Superseded(hashes) ==
    \A p \in Paths : hashes[p] # "unread" =>
        map.files[p] = hashes[p] \/ Gone(p, hashes[p])

(***************************************************************************)
(* What was read of a path after the listed ones were hashed.  A listed    *)
(* one has the content that was hashed, or has lost it.  The others have   *)
(* the map's content, or have lost it; unless the map was replaced after   *)
(* the hashing, and then it agrees with every hash that still holds.       *)
(***************************************************************************)
Fits(p, hashes, content) ==
    IF hashes[p] # "unread"
    THEN content = hashes[p] \/ Gone(p, hashes[p])
    ELSE \/ content = map.files[p]
         \/ Gone(p, map.files[p])
         \/ Superseded(hashes)

PathInv ==
    \A p \in Paths :
        /\ tree[p] \in had[p] /\ map.files[p] \in had[p]
        /\ seen[p] \subseteq had[p]
        /\ changes[p] # "unread" => changes[p] \in seen[p]
        /\ new[p] # "unread" => new[p] \in seen[p]

ReadingInv ==
    /\ pc \notin {"snapshot", "done"} => new = Unread
    /\ pc = "snapshot" /\ from = "re-map" =>
        \A p \in Paths : new[p] # "unread" => Fits(p, changes, new[p])

MemoInv ==
    memo # NoTree =>
        /\ \A p \in Paths : memo.changes[p] # "unread" =>
            /\ memo.changes[p] \in had[p]
            /\ \/ memo.snapshot[p] = memo.changes[p]
               \/ Gone(p, memo.changes[p])
        /\ memo.signature = map.signature =>
            \A p \in Paths : Fits(p, memo.changes, memo.snapshot[p])

\* What the memo kept can no longer be what this call hashes.
Outlived ==
    \A p \in changed : memo.changes[p] # "unread" =>
        Gone(p, memo.changes[p]) /\ changes[p] # memo.changes[p]

(***************************************************************************)
(* Why a hit is not stale.  The listed paths have been hashed in this      *)
(* call, and what the memo holds of them is what was hashed.  The others   *)
(* were found to be what the map says, which is what the memo holds of     *)
(* them, or the memo will not match.                                       *)
(***************************************************************************)
RecallInv ==
    pc \in {"old", "recall"} /\ memo # NoTree =>
        /\ \A p \in changed :
            changes[p] # "unread" /\ changes[p] = memo.changes[p] =>
                memo.snapshot[p] \in seen[p]
        /\ memo.signature = map.signature =>
            \/ \A p \in Paths \ changed :
                    memo.changes[p] = "unread" => memo.snapshot[p] \in seen[p]
            \/ Outlived

MissInv == PathInv /\ ReadingInv /\ MemoInv /\ RecallInv

-----------------------------------------------------------------------------
\* The data.

LEMMA KeptIsNoNoTree ==
    \A t : Kept(t) # NoTree /\ Kept(t).of = t
  BY DEF Kept, NoTree

LEMMA TreesAreRead ==
    /\ Trees \subseteq Partial /\ Unread \in Partial
    /\ \A t \in Trees, p \in Paths : t[p] # "unread"
    /\ \A t \in Partial : (\A p \in Paths : t[p] # "unread") => t \in Trees
<1>1. Trees \subseteq Partial /\ Unread \in Partial
  BY DEF Trees, Partial, Unread
<1>2. \A t \in Trees, p \in Paths : t[p] # "unread"
  BY SnapshotPairAssumption DEF Trees
<1>3. ASSUME NEW t \in Partial, \A p \in Paths : t[p] # "unread"
      PROVE  t \in Trees
  BY <1>3 DEF Trees, Partial
<1> QED BY <1>1, <1>2, <1>3

LEMMA UnreadPaths == \A p \in Paths : Unread[p] = "unread"
  BY DEF Unread

LEMMA KeptMemo ==
    ASSUME TypeOK
    PROVE  /\ memo # NoTree => memo \in Memos
           /\ \A m \in Memos : /\ m # NoTree /\ m.signature \in Signatures
                               /\ m.changes \in Partial /\ m.snapshot \in Trees
<1>1. memo # NoTree => memo \in Memos
  BY DEF TypeOK, Memos, Signatures
<1>2. ASSUME NEW m \in Memos PROVE m # NoTree
  BY DEF Memos, NoTree
<1> QED BY <1>1, <1>2 DEF Memos

LEMMA InitHolds == Init => PairInv
<1> SUFFICES ASSUME Init PROVE PairInv
  OBVIOUS
<1>1. /\ MaxMaps \in Nat /\ MaxCalls \in Nat /\ MaxEdits \in Nat
      /\ tree \in Trees /\ Unread \in Partial /\ Trees \subseteq Partial
  BY SnapshotPairAssumption, TreesAreRead DEF Init
<1>2. history \in [Commits -> {NoTree} \cup {Kept(t) : t \in Trees}]
  BY <1>1 DEF Init
<1>3. history[head] # NoTree
  BY KeptIsNoNoTree DEF Init
<1>4. /\ had \in [Paths -> SUBSET Contents] /\ seen \in [Paths -> SUBSET Contents]
  BY <1>1 DEF Init, Trees
<1>5. TypeOK
  <2>1. map \in [files : Trees, signature : 0 .. MaxMaps + MaxCalls]
    BY <1>1 DEF Init
  <2>2. \A p \in Paths \ changed : changes[p] = "unread"
    BY UnreadPaths DEF Init
  <2>3. /\ head \in Commits /\ rev \in Commits /\ history[rev] # NoTree
        /\ persist \in BOOLEAN /\ judged \in Trees /\ changed = {}
        /\ new \in Partial /\ old \in Partial /\ changes \in Partial
    BY <1>1, <1>3 DEF Init
  <2>4. pc = "idle" /\ from = "nowhere" /\ memo = NoTree
        /\ edits = 0 /\ maps = 0 /\ calls = 0
    BY DEF Init
  <2> QED
    BY <1>1, <1>2, <1>3, <1>4, <2>1, <2>2, <2>3, <2>4 DEF TypeOK
<1>6. CallInv
  BY DEF Init, CallInv, MidCall
<1> QED BY <1>5, <1>6 DEF PairInv

-----------------------------------------------------------------------------
\* Outside the process.

LEMMA EditStep ==
    ASSUME PairInv, Edit
    PROVE  PairInv'
<1>1. PICK p \in Paths : \E c \in Contents \ {tree[p]} :
        /\ Reverts \/ c \notin had[p]
        /\ tree' = [tree EXCEPT ![p] = c]
        /\ had' = [had EXCEPT ![p] = @ \cup {c}]
        /\ seen' = IF MidCall THEN [seen EXCEPT ![p] = @ \cup {c}] ELSE seen
  BY DEF Edit
<1>2. /\ UNCHANGED <<history, head, map, memo, pc, maps, calls>>
      /\ UNCHANGED <<rev, persist, judged, changed, changes, new, old, from>>
  BY DEF Edit, callVars
<1>3. /\ tree \in Trees /\ had \in [Paths -> SUBSET Contents]
      /\ seen \in [Paths -> SUBSET Contents]
      /\ MidCall => \A q \in Paths : tree[q] \in seen[q]
  BY DEF PairInv, TypeOK, MidCall
<1>4. /\ tree' \in Trees /\ had' \in [Paths -> SUBSET Contents]
      /\ seen' \in [Paths -> SUBSET Contents]
  BY <1>1, <1>3 DEF Trees
<1>5. MidCall => \A q \in Paths : tree'[q] \in seen'[q]
  BY <1>1, <1>3 DEF Trees
<1>6. edits' \in 0 .. MaxEdits
  BY SnapshotPairAssumption DEF Edit, PairInv, TypeOK
<1>7. TypeOK'
  BY <1>2, <1>4, <1>5, <1>6 DEF PairInv, TypeOK, MidCall
<1>8. CallInv'
  BY <1>2 DEF PairInv, CallInv, MidCall, Fresh, AllRead
<1> QED BY <1>7, <1>8 DEF PairInv

LEMMA CommitStep ==
    ASSUME PairInv, Commit
    PROVE  PairInv'
<1>1. PICK c \in Commits : /\ history[c] = NoTree
                           /\ history' = [history EXCEPT ![c] = Kept(tree)]
                           /\ head' = c
  BY DEF Commit
<1>2. /\ UNCHANGED <<tree, had, map, memo, pc, seen, edits, maps, calls>>
      /\ UNCHANGED <<rev, persist, judged, changed, changes, new, old, from>>
  BY DEF Commit, callVars, counters
<1>3. /\ history \in [Commits -> {NoTree} \cup {Kept(t) : t \in Trees}]
      /\ rev \in Commits /\ history[rev] # NoTree /\ tree \in Trees
  BY DEF PairInv, TypeOK
<1>4. /\ history' \in [Commits -> {NoTree} \cup {Kept(t) : t \in Trees}]
      /\ history'[rev] # NoTree /\ history'[head'] # NoTree
  BY <1>1, <1>3, KeptIsNoNoTree
<1>5. TypeOK'
  BY <1>1, <1>2, <1>4 DEF PairInv, TypeOK
<1>6. CallInv'
  BY <1>2 DEF PairInv, CallInv, MidCall, Fresh, AllRead
<1> QED BY <1>5, <1>6 DEF PairInv

\* Another map has another signature, and there are never too many of them.
LEMMA NewMap ==
    ASSUME PairInv, NEW t \in Trees,
           map' = [files |-> t, signature |-> map.signature + 1],
           \/ maps < MaxMaps /\ maps' = maps + 1 /\ calls' = calls
           \/ MidCall /\ maps' = maps /\ calls' = calls
    PROVE  /\ map' \in [files : Trees, signature : 0 .. MaxMaps + MaxCalls]
           /\ map'.files = t /\ map'.signature = map.signature + 1
           /\ map.signature \in Nat
           /\ map'.signature <= maps' + calls'
           /\ MidCall /\ maps' > maps => map'.signature < maps' + calls'
           /\ memo # NoTree => /\ memo.signature \in Nat
                               /\ memo.signature < map'.signature
<1>1. /\ map.signature \in Nat /\ maps \in 0 .. MaxMaps
      /\ calls \in 0 .. MaxCalls /\ map.signature <= maps + calls
      /\ MidCall => map.signature < maps + calls
      /\ memo # NoTree => /\ memo.signature \in Nat
                          /\ memo.signature <= map.signature
  <2>1. memo # NoTree => memo.signature \in Nat
    BY KeptMemo DEF PairInv, Signatures
  <2> QED BY <2>1 DEF PairInv, TypeOK, CallInv
<1>2. map'.signature = map.signature + 1 /\ map'.files = t
  OBVIOUS
<1>3. map.signature + 1 \in 0 .. MaxMaps + MaxCalls
  BY <1>1, SnapshotPairAssumption
<1>4. map' \in [files : Trees, signature : 0 .. MaxMaps + MaxCalls]
  BY <1>3
<1> QED BY <1>1, <1>2, <1>4

LEMMA MapStep ==
    ASSUME PairInv, Map
    PROVE  PairInv'
<1>1. /\ maps < MaxMaps /\ maps' = maps + 1 /\ calls' = calls
      /\ map' = [files |-> tree, signature |-> map.signature + 1]
      /\ UNCHANGED <<tree, had, history, head, memo, pc, seen, edits>>
      /\ UNCHANGED <<rev, persist, judged, changed, changes, new, old, from>>
  BY DEF Map, callVars
<1>2. tree \in Trees /\ maps' \in 0 .. MaxMaps /\ maps' > maps
  BY <1>1, SnapshotPairAssumption DEF PairInv, TypeOK
<1>3. /\ map' \in [files : Trees, signature : 0 .. MaxMaps + MaxCalls]
      /\ map'.signature <= maps' + calls'
      /\ MidCall => map'.signature < maps' + calls'
      /\ memo # NoTree => memo.signature <= map'.signature
  BY <1>1, <1>2, NewMap
<1>4. TypeOK'
  BY <1>1, <1>2, <1>3 DEF PairInv, TypeOK
<1>5. CallInv'
  BY <1>1, <1>3 DEF PairInv, CallInv, MidCall, Fresh, AllRead
<1> QED BY <1>4, <1>5 DEF PairInv

-----------------------------------------------------------------------------
\* The call.

LEMMA CallBegins ==
    ASSUME PairInv, Call
    PROVE  PairInv'
<1>1. /\ calls < MaxCalls /\ calls' = calls + 1 /\ persist' \in BOOLEAN
      /\ rev' \in Commits /\ history[rev'] # NoTree /\ pc' = "judge"
      /\ changed' = {} /\ changes' = Unread
      /\ new' = Unread /\ old' = Unread /\ from' = "nowhere"
      /\ seen' = [p \in Paths |-> {tree[p]}]
      /\ UNCHANGED <<tree, had, history, head, map, memo, judged, edits, maps>>
  BY DEF Call, worldVars
<1>2. /\ Unread \in Partial /\ \A p \in Paths : Unread[p] = "unread"
      /\ seen' \in [Paths -> SUBSET Contents]
      /\ \A p \in Paths : tree[p] \in seen'[p]
  BY <1>1, TreesAreRead, UnreadPaths DEF PairInv, TypeOK, Trees
<1>3. calls' \in 0 .. MaxCalls /\ calls \in Nat
  BY <1>1, SnapshotPairAssumption DEF PairInv, TypeOK
<1>4. TypeOK'
  BY <1>1, <1>2, <1>3 DEF PairInv, TypeOK
<1>5. CallInv'
  <2>1. map.signature \in Nat /\ maps \in Nat /\ map.signature <= maps + calls
    BY DEF PairInv, TypeOK, CallInv
  <2>2. map'.signature < maps' + calls' /\ map'.signature <= maps' + calls'
    BY <1>1, <1>3, <2>1
  <2> QED BY <1>1, <2>2 DEF PairInv, CallInv
<1> QED BY <1>4, <1>5 DEF PairInv

\* What every step of a call leaves alone.
LEMMA StepLeaves ==
    ASSUME Step
    PROVE  /\ UNCHANGED <<tree, had, history, head, seen, rev, persist>>
           /\ UNCHANGED <<edits, maps, calls>>
           /\ MidCall
           /\ map' = map \/ Persist
           /\ memo' = memo \/ Forget \/ Remember
           /\ old' = old \/ OldSide \/ FreshDone
  BY DEF Step, Judge, Forget, SameCommit, Clean, OldSide, Hash, Read, Recall,
         NoRecall, HashedAll, FreshDone, Persist, Remember, MidCall,
         worldVars, callVars, counters

LEMMA StepTyped ==
    ASSUME PairInv, Step
    PROVE  TypeOK'
<1>1. /\ UNCHANGED <<tree, had, history, head, seen, rev, persist>>
      /\ UNCHANGED <<edits, maps, calls>>
      /\ MidCall
  BY StepLeaves
<1>2. /\ tree \in Trees /\ map.files \in Trees /\ judged \in Trees
      /\ changed \subseteq Paths /\ changes \in Partial /\ new \in Partial
      /\ old \in Partial /\ history[rev] # NoTree /\ rev \in Commits
      /\ \A p \in Paths \ changed : changes[p] = "unread"
      /\ Unread \in Partial /\ Trees \subseteq Partial
  BY TreesAreRead DEF PairInv, TypeOK
<1>3. pc' \in Labels
  BY DEF Step, Judge, Forget, SameCommit, Clean, OldSide, Hash, Read, Recall,
         NoRecall, HashedAll, FreshDone, Persist, Remember, Labels, PairInv, TypeOK
<1>4. from' \in {"nowhere", "revision", "index", "memo", "re-map"}
  BY DEF Step, Judge, Forget, SameCommit, Clean, OldSide, Hash, Read, Recall,
         NoRecall, HashedAll, FreshDone, Persist, Remember, PairInv, TypeOK,
         callVars
<1>5. judged' \in Trees /\ changed' \subseteq Paths
  BY <1>2 DEF Step, Judge, Forget, SameCommit, Clean, OldSide, Hash, Read, Recall,
         NoRecall, HashedAll, FreshDone, Persist, Remember, callVars
<1>6. changes' \in Partial /\ \A p \in Paths \ changed' : changes'[p] = "unread"
  <2>1. CASE Judge
    BY <1>2, <2>1, UnreadPaths DEF Judge, PairInv, CallInv
  <2>2. CASE \E p \in Paths : Hash(p)
    <3>1. PICK p \in Paths : Hash(p)
      BY <2>2
    <3>2. /\ p \in changed /\ UNCHANGED changed
          /\ changes' = [changes EXCEPT ![p] = tree[p]]
      BY <3>1 DEF Hash
    <3>3. tree[p] \in Contents
      BY <1>2 DEF Trees
    <3> QED BY <1>2, <3>2, <3>3 DEF Partial
  <2>3. CASE NoRecall
    BY <1>2, <2>3, UnreadPaths DEF NoRecall
  <2>4. CASE UNCHANGED <<changes, changed>>
    BY <1>2, <2>4
  <2> QED
    BY <2>1, <2>2, <2>3, <2>4
    DEF Step, Forget, SameCommit, Clean, OldSide, Read, Recall, HashedAll,
        FreshDone, Persist, Remember, callVars
<1>7. new' \in Partial
  <2>1. CASE \E p \in Paths : Read(p)
    <3>1. PICK p \in Paths : new' = [new EXCEPT ![p] = tree[p]]
      BY <2>1 DEF Read
    <3>2. tree[p] \in Contents
      BY <1>2 DEF Trees
    <3> QED BY <1>2, <3>1, <3>2 DEF Partial
  <2>2. CASE Recall
    <3>1. memo.snapshot \in Trees /\ new' = memo.snapshot
      BY <2>2, KeptMemo DEF Recall, PairInv, CallInv
    <3> QED BY <1>2, <3>1
  <2>3. CASE UNCHANGED new
    BY <1>2, <2>3
  <2> QED
    BY <2>1, <2>2, <2>3
    DEF Step, Judge, Forget, SameCommit, Clean, OldSide, Hash, NoRecall, HashedAll,
        FreshDone, Persist, Remember, callVars
<1>8. old' \in Partial
  <2>1. history[rev].of \in Trees
    BY <1>2, KeptIsNoNoTree DEF PairInv, TypeOK
  <2> QED BY <1>2, <2>1, StepLeaves DEF OldSide, FreshDone
<1>9. map' \in [files : Trees, signature : 0 .. MaxMaps + MaxCalls]
  <2>1. CASE Persist
    <3>1. /\ new \in Trees
          /\ map' = [files |-> new, signature |-> map.signature + 1]
      BY <1>2, <2>1, TreesAreRead DEF Persist, AllRead
    <3> QED BY <1>1, <3>1, NewMap
  <2>2. CASE UNCHANGED map
    BY <2>2 DEF PairInv, TypeOK
  <2> QED BY <2>1, <2>2, StepLeaves
<1>10. memo' \in {NoTree} \cup Memos
  <2>1. memo \in {NoTree} \cup Memos
    BY KeptMemo DEF PairInv
  <2>2. CASE Remember
    <3>1. new \in Trees /\ map.signature \in Signatures
      BY <1>2, <2>2, TreesAreRead
      DEF Remember, AllRead, PairInv, TypeOK, Signatures
    <3>2. memo' = [kind |-> "memo", signature |-> map.signature,
                   changes |-> changes, snapshot |-> new]
      BY <2>2 DEF Remember, KeptChanges
    <3> QED BY <1>2, <3>1, <3>2 DEF Memos
  <2>3. CASE Forget
    BY <2>3 DEF Forget
  <2> QED BY <2>1, <2>2, <2>3, StepLeaves
<1> QED
  BY <1>1, <1>3, <1>4, <1>5, <1>6, <1>7, <1>8, <1>9, <1>10
  DEF PairInv, TypeOK, Labels, Memos, Signatures, MidCall

LEMMA StepControlled ==
    ASSUME PairInv, Step
    PROVE  CallInv'
<1>1. /\ UNCHANGED <<maps, calls>> /\ MidCall
      /\ map' = map \/ Persist
      /\ memo' = memo \/ Forget \/ Remember
  BY StepLeaves
<1>2. /\ map'.signature <= maps' + calls'
      /\ MidCall' => map'.signature < maps' + calls'
  <2>1. CASE UNCHANGED map
    BY <1>1, <2>1 DEF PairInv, CallInv
  <2>2. CASE Persist
    <3>1. map'.signature = map.signature + 1 /\ pc' = "done"
      BY <2>2 DEF Persist
    <3>2. /\ map.signature \in Nat /\ maps \in Nat /\ calls \in Nat
          /\ map.signature < maps + calls
      BY <1>1 DEF PairInv, TypeOK, CallInv
    <3> QED BY <1>1, <3>1, <3>2 DEF MidCall
  <2> QED BY <1>1, <2>1, <2>2
<1>3. memo' # NoTree => memo'.signature <= map'.signature
  <2>0. map.signature \in Nat /\ (memo # NoTree => memo.signature \in Nat)
    BY KeptMemo DEF PairInv, TypeOK, Signatures
  <2>1. CASE Remember
    BY <2>0, <2>1 DEF Remember, worldVars
  <2>2. CASE Forget
    BY <2>2 DEF Forget
  <2>3. CASE Persist
    BY <2>0, <2>3 DEF Persist, PairInv, CallInv
  <2>4. CASE UNCHANGED <<map, memo>>
    BY <2>4 DEF PairInv, CallInv
  <2> QED
    BY <1>1, <2>1, <2>2, <2>3, <2>4
<1>4. pc' \in {"judge", "forget", "same?", "clean?", "old"} => changes' = Unread
  BY DEF Step, Judge, Forget, SameCommit, Clean, OldSide, Hash, Read, Recall,
         NoRecall, HashedAll, FreshDone, Persist, Remember, callVars, PairInv,
         CallInv
<1>5. pc' \in {"same?", "clean?"} => memo' = NoTree
  BY DEF Step, Judge, Forget, SameCommit, Clean, OldSide, Hash, Read, Recall,
         NoRecall, HashedAll, FreshDone, Persist, Remember, PairInv, CallInv
<1>6. pc' = "recall" => memo' # NoTree /\ ~Fresh'
  BY DEF Step, Judge, Forget, SameCommit, Clean, OldSide, Hash, Read, Recall,
         NoRecall, HashedAll, FreshDone, Persist, Remember, PairInv, CallInv,
         Fresh
<1>7. pc' \notin {"snapshot", "done"} => from' = "nowhere"
  BY DEF Step, Judge, Forget, SameCommit, Clean, OldSide, Hash, Read, Recall,
         NoRecall, HashedAll, FreshDone, Persist, Remember, PairInv, CallInv,
         callVars
<1>8. pc' = "done" /\ from' # "nowhere" => AllRead'
  <2>1. CASE Recall
    <3>1. new' = memo.snapshot /\ memo.snapshot \in Trees
      BY <2>1, KeptMemo DEF Recall, PairInv, CallInv
    <3> QED BY <3>1, TreesAreRead DEF AllRead
  <2>2. CASE FreshDone \/ Persist \/ Remember
    BY <2>2 DEF FreshDone, Persist, Remember, AllRead, callVars
  <2>3. CASE OldSide
    BY <2>3 DEF OldSide, PairInv, CallInv
  <2> QED
    BY <2>1, <2>2, <2>3 
    DEF Step, Judge, Forget, SameCommit, Clean, Hash, Read, NoRecall, HashedAll
<1> QED
  BY <1>2, <1>3, <1>4, <1>5, <1>6, <1>7, <1>8 DEF CallInv

LEMMA PairStep == PairInv /\ [Next]_vars => PairInv'
<1> SUFFICES ASSUME PairInv, [Next]_vars PROVE PairInv'
  OBVIOUS
<1>1. CASE UNCHANGED vars
  BY <1>1 DEF vars, worldVars, callVars, counters, PairInv, TypeOK, CallInv,
              MidCall, Fresh, AllRead
<1>2. CASE Call \/ Edit \/ Map \/ Commit
  BY <1>2, CallBegins, EditStep, MapStep, CommitStep
<1>3. CASE Step
  BY <1>3, StepTyped, StepControlled DEF PairInv
<1> QED BY <1>1, <1>2, <1>3 DEF Next

LEMMA PairInvariant == Spec => []PairInv
  BY InitHolds, PairStep, PTL DEF Spec

(***************************************************************************)
(* Every call's verdict, hashes and sides keep their types, with what the  *)
(* code relies on: a path is hashed only if the verdict lists it, and no   *)
(* more signatures are given out than maps are written.                    *)
(***************************************************************************)
THEOREM TypeCorrect == Spec => []TypeOK
<1>1. PairInv => TypeOK
  BY DEF PairInv
<1> QED BY <1>1, PairInvariant, PTL

-----------------------------------------------------------------------------
LEMMA SideStep ==
    ASSUME CommitsMidCall = FALSE, PairInv, SideInv, [Next]_vars
    PROVE  SideInv'
<1>1. CASE Call
  BY <1>1 DEF Call, SideInv
<1>2. CASE Commit
  <2>1. PICK c \in Commits : /\ history[c] = NoTree
                             /\ history' = [history EXCEPT ![c] = Kept(tree)]
    BY <1>2 DEF Commit
  <2>2. ~MidCall /\ UNCHANGED <<pc, rev, from, seen>>
    BY <1>2 DEF Commit, callVars
  <2>3. history'[rev] = history[rev] /\ pc # "clean?"
    BY <2>1, <2>2 DEF PairInv, TypeOK, MidCall
  <2> QED BY <2>2, <2>3 DEF SideInv
<1>3. CASE Edit
  <2>1. /\ UNCHANGED <<history, head, pc, rev, from>>
        /\ \A p \in Paths : seen[p] \subseteq seen'[p]
    BY <1>3 DEF Edit, callVars, PairInv, TypeOK
  <2> QED BY <2>1 DEF SideInv
<1>4. CASE Clean
  <2>1. /\ pc = "clean?" /\ pc' # "clean?"
        /\ UNCHANGED <<history, head, rev, seen, tree>>
        /\ from' = "revision" => from = "revision" \/ IsClean
    BY <1>4 DEF Clean, worldVars
  <2>2. rev = head /\ \A p \in Paths : tree[p] \in seen[p]
    BY <2>1 DEF SideInv, PairInv, TypeOK
  <2>3. IsClean => history[rev].of = tree
    BY <2>2, KeptIsNoNoTree DEF IsClean
  <2> QED BY <2>1, <2>2, <2>3 DEF SideInv
<1>5. CASE Map \/ UNCHANGED vars
  BY <1>5 DEF Map, callVars, worldVars, vars, SideInv
<1>6. CASE Step /\ ~Clean
  <2>1. UNCHANGED <<history, head, rev, seen>>
    BY <1>6, StepLeaves
  <2>2. pc' = "clean?" => pc = "clean?" \/ rev = head
    BY <1>6 DEF Step, Judge, Forget, SameCommit, OldSide, Hash, Read, Recall,
                NoRecall, HashedAll, FreshDone, Persist, Remember
  <2>3. from' = "revision" => from = "revision"
    BY <1>6 DEF Step, Judge, Forget, SameCommit, OldSide, Hash, Read, Recall,
                NoRecall, HashedAll, FreshDone, Persist, Remember, callVars
  <2> QED BY <2>1, <2>2, <2>3 DEF SideInv
<1> QED BY <1>1, <1>2, <1>3, <1>4, <1>5, <1>6 DEF Next

(***************************************************************************)
(* Where the working tree stands in for the revision, each path has held   *)
(* the revision's content since the call began (worktree_matches_rev:      *)
(* the revision is HEAD's commit, and git status finds nothing), provided  *)
(* that no commit is made while a call is under way.                       *)
(***************************************************************************)
THEOREM SameSideSafe ==
    ASSUME CommitsMidCall = FALSE
    PROVE  Spec => []SameSideIsTheRevision
<1>1. Init => SideInv
  BY DEF Init, SideInv
<1>2. PairInv /\ SideInv /\ [Next]_vars => SideInv'
  BY SideStep
<1>3. SideInv => SameSideIsTheRevision
  BY DEF SideInv, SameSideIsTheRevision
<1> QED BY <1>1, <1>2, <1>3, PairInvariant, PTL DEF Spec

-----------------------------------------------------------------------------
\* What an edit does: nothing that is gone comes back.
LEMMA EditMoves ==
    ASSUME Reverts = FALSE, PairInv, Edit
    PROVE  /\ UNCHANGED <<map, memo, pc, changed, changes, new, from>>
           /\ \A p \in Paths :
                /\ had[p] \subseteq had'[p] /\ seen[p] \subseteq seen'[p]
                /\ tree'[p] = tree[p] \/ tree'[p] \notin had[p]
                /\ tree[p] \in had[p] => tree'[p] \in had'[p]
                /\ seen[p] \subseteq had[p] => seen'[p] \subseteq had'[p]
           /\ \A p \in Paths : \A c : Gone(p, c) => Gone(p, c)'
<1>1. PICK p \in Paths : \E c \in Contents \ {tree[p]} :
        /\ c \notin had[p]
        /\ tree' = [tree EXCEPT ![p] = c]
        /\ had' = [had EXCEPT ![p] = @ \cup {c}]
        /\ seen' = IF MidCall THEN [seen EXCEPT ![p] = @ \cup {c}] ELSE seen
  BY DEF Edit
<1>2. /\ tree \in Trees /\ had \in [Paths -> SUBSET Contents]
      /\ seen \in [Paths -> SUBSET Contents]
  BY DEF PairInv, TypeOK
<1>3. \A q \in Paths :
        /\ had[q] \subseteq had'[q] /\ seen[q] \subseteq seen'[q]
        /\ tree'[q] = tree[q] \/ tree'[q] \notin had[q]
        /\ tree[q] \in had[q] => tree'[q] \in had'[q]
        /\ seen[q] \subseteq had[q] => seen'[q] \subseteq had'[q]
  BY <1>1, <1>2 DEF Trees
<1>4. \A q \in Paths : \A c : Gone(q, c) => Gone(q, c)'
  BY <1>3 DEF Gone
<1>5. UNCHANGED <<map, memo, pc, changed, changes, new, from>>
  BY DEF Edit, callVars
<1> QED BY <1>3, <1>4, <1>5

LEMMA MissEdit ==
    ASSUME Reverts = FALSE, PairInv, MissInv, Edit
    PROVE  MissInv'
<1>1. /\ UNCHANGED <<map, memo, pc, changed, changes, new, from>>
      /\ \A p \in Paths :
            /\ had[p] \subseteq had'[p] /\ seen[p] \subseteq seen'[p]
            /\ tree[p] \in had[p] => tree'[p] \in had'[p]
            /\ seen[p] \subseteq had[p] => seen'[p] \subseteq had'[p]
      /\ \A p \in Paths : \A c : Gone(p, c) => Gone(p, c)'
  BY EditMoves
<1>2. PathInv'
  BY <1>1 DEF MissInv, PathInv
<1>3. \A hashes : Superseded(hashes) => Superseded(hashes)'
  BY <1>1 DEF Superseded
<1>4. \A p \in Paths : \A hashes, content :
        Fits(p, hashes, content) => Fits(p, hashes, content)'
  BY <1>1, <1>3 DEF Fits
<1>5. ReadingInv'
  <2> SUFFICES ASSUME pc = "snapshot", from = "re-map",
                      NEW p \in Paths, new[p] # "unread"
               PROVE  Fits(p, changes, new[p])'
    BY <1>1 DEF MissInv, ReadingInv
  <2>1. Fits(p, changes, new[p])
    BY DEF MissInv, ReadingInv
  <2> QED BY <1>1, <1>3, <2>1 DEF Fits
<1>6. MemoInv'
  <2> SUFFICES ASSUME memo # NoTree PROVE MemoInv'
    BY <1>1 DEF MemoInv
  <2>1. ASSUME NEW p \in Paths, memo.changes[p] # "unread"
        PROVE  /\ memo.changes[p] \in had'[p]
               /\ \/ memo.snapshot[p] = memo.changes[p]
                  \/ Gone(p, memo.changes[p])'
    <3>1. /\ memo.changes[p] \in had[p]
          /\ \/ memo.snapshot[p] = memo.changes[p]
             \/ Gone(p, memo.changes[p])
      BY <2>1 DEF MissInv, MemoInv
    <3> QED BY <1>1, <3>1 DEF Gone
  <2>2. ASSUME NEW p \in Paths, memo.signature = map.signature
        PROVE  Fits(p, memo.changes, memo.snapshot[p])'
    <3>1. Fits(p, memo.changes, memo.snapshot[p])
      BY <2>2 DEF MissInv, MemoInv
    <3> QED BY <1>1, <1>3, <3>1 DEF Fits
  <2> QED BY <1>1, <2>1, <2>2 DEF MemoInv
<1>7. RecallInv'
  <2>1. changed \subseteq Paths
    BY DEF PairInv, TypeOK
  <2>2. Outlived => Outlived'
    BY <1>1, <2>1 DEF Outlived, Gone
  <2> QED BY <1>1, <2>1, <2>2 DEF MissInv, RecallInv
<1> QED BY <1>2, <1>5, <1>6, <1>7 DEF MissInv

\* Another map, by another process: whatever was hashed agrees with it, or has
\* moved on; and the memo is not for this map.
LEMMA MissMap ==
    ASSUME PairInv, MissInv, Map
    PROVE  MissInv'
<1>1. /\ UNCHANGED <<tree, had, seen, memo, pc, changed, changes, new, from>>
      /\ map'.files = tree
  BY DEF Map, callVars
<1>2. memo # NoTree => memo.signature # map'.signature
  <2>1. tree \in Trees /\ map' = [files |-> tree, signature |-> map.signature + 1]
        /\ maps < MaxMaps /\ maps' = maps + 1 /\ calls' = calls
    BY DEF Map, PairInv, TypeOK
  <2>2. memo # NoTree => memo.signature \in Nat /\ memo.signature < map'.signature
        /\ map'.signature = map.signature + 1 /\ map.signature \in Nat
    BY <2>1, NewMap
  <2> QED BY <2>2
<1>3. PathInv'
  BY <1>1 DEF MissInv, PathInv
<1>4. ReadingInv'
  <2> SUFFICES ASSUME pc = "snapshot", from = "re-map",
                      NEW p \in Paths, new[p] # "unread"
               PROVE  Fits(p, changes, new[p])'
    BY <1>1 DEF MissInv, ReadingInv
  <2>1. Superseded(changes)'
    BY <1>1 DEF Superseded, Gone, MissInv, PathInv
  <2>2. Fits(p, changes, new[p])
    BY DEF MissInv, ReadingInv
  <2> QED BY <1>1, <2>1, <2>2 DEF Fits, Gone
<1>5. MemoInv' /\ RecallInv'
  BY <1>1, <1>2 DEF MissInv, MemoInv, RecallInv, Gone
<1> QED BY <1>3, <1>4, <1>5 DEF MissInv

LEMMA MissPersist ==
    ASSUME PairInv, MissInv, Persist
    PROVE  MissInv'
<1>1. /\ UNCHANGED <<tree, had, seen, memo, changed, changes, new, from>>
      /\ pc' = "done" /\ map'.files = new /\ AllRead /\ MidCall
      /\ map' = [files |-> new, signature |-> map.signature + 1]
      /\ UNCHANGED <<maps, calls>>
  BY DEF Persist, callVars, counters, MidCall
<1>2. memo # NoTree => memo.signature # map'.signature
  <2>1. new \in Trees
    BY <1>1, TreesAreRead DEF AllRead, PairInv, TypeOK
  <2>2. memo # NoTree => memo.signature \in Nat /\ memo.signature < map'.signature
        /\ map'.signature = map.signature + 1 /\ map.signature \in Nat
    BY <1>1, <2>1, NewMap
  <2> QED BY <2>2
<1>3. PathInv'
  BY <1>1 DEF MissInv, PathInv, AllRead
<1>4. ReadingInv' /\ MemoInv' /\ RecallInv'
  BY <1>1, <1>2 DEF MissInv, ReadingInv, MemoInv, RecallInv, Gone
<1> QED BY <1>3, <1>4 DEF MissInv

-----------------------------------------------------------------------------
\* A call begins, and judges the map.

LEMMA MissCall ==
    ASSUME PairInv, MissInv, Call
    PROVE  MissInv'
<1>1. /\ UNCHANGED <<tree, had, map, memo>> /\ pc' = "judge"
      /\ changes' = Unread /\ new' = Unread /\ from' = "nowhere"
      /\ seen' = [p \in Paths |-> {tree[p]}]
  BY DEF Call, worldVars
<1>2. PathInv'
  BY <1>1, UnreadPaths DEF MissInv, PathInv
<1>3. ReadingInv' /\ RecallInv'
  BY <1>1 DEF ReadingInv, RecallInv
<1>4. MemoInv'
  BY <1>1 DEF MissInv, MemoInv, Fits, Superseded, Gone
<1> QED BY <1>2, <1>3, <1>4 DEF MissInv

\* The paths that are not listed are what the map says, so they are what the
\* memo holds of them, unless what it holds of every listed one is gone.
LEMMA MissJudge ==
    ASSUME PairInv, MissInv, Judge
    PROVE  MissInv'
<1>1. /\ UNCHANGED <<tree, had, map, seen, memo, changes, new, from>>
      /\ pc = "judge" /\ pc' \in {"forget", "old"} /\ changes = Unread
      /\ changed' = {p \in Paths : map.files[p] # tree[p]}
  BY DEF Judge, worldVars, PairInv, CallInv
<1>2. PathInv' /\ ReadingInv' /\ MemoInv'
  BY <1>1 DEF MissInv, PathInv, ReadingInv, MemoInv, Fits, Superseded, Gone
<1>3. RecallInv'
  <2> SUFFICES ASSUME memo # NoTree PROVE RecallInv'
    BY <1>1 DEF RecallInv
  <2>1. \A p \in Paths : changes'[p] = "unread"
    BY <1>1, UnreadPaths
  <2>2. ASSUME memo.signature = map.signature,
               NEW p \in Paths \ changed', memo.changes[p] = "unread",
               memo.snapshot[p] \notin seen'[p]
        PROVE  Outlived'
    <3>1. tree[p] = map.files[p] /\ tree[p] \in seen[p]
      BY <1>1, <2>2 DEF PairInv, TypeOK
    <3>2. Fits(p, memo.changes, memo.snapshot[p])
      BY <2>2 DEF MissInv, MemoInv
    <3>3. Superseded(memo.changes)
      BY <1>1, <2>2, <3>1, <3>2 DEF Fits, Gone
    <3>4. ASSUME NEW q \in changed', memo.changes[q] # "unread"
          PROVE  Gone(q, memo.changes[q])' /\ changes'[q] # memo.changes[q]
      <4>1. q \in Paths /\ map.files[q] # tree[q]
        BY <1>1, <3>4
      <4>2. memo.changes[q] \in had[q]
        BY <3>4, <4>1 DEF MissInv, MemoInv
      <4> QED BY <1>1, <2>1, <3>3, <3>4, <4>1, <4>2 DEF Superseded, Gone
    <3> QED BY <1>1, <3>4 DEF Outlived
  <2> QED BY <1>1, <2>1, <2>2 DEF RecallInv
<1> QED BY <1>2, <1>3 DEF MissInv

-----------------------------------------------------------------------------
\* The rest of a call.

LEMMA MissHash ==
    ASSUME PairInv, MissInv, NEW p \in Paths, Hash(p)
    PROVE  MissInv'
<1>1. /\ UNCHANGED <<tree, had, map, seen, memo, pc, changed, new, from>>
      /\ pc \in {"recall", "hash"} /\ p \in changed
      /\ changes' = [changes EXCEPT ![p] = tree[p]]
  BY DEF Hash, worldVars
<1>2. /\ changes'[p] = tree[p] /\ tree[p] \in seen[p] /\ tree[p] # "unread"
      /\ \A q \in Paths : q # p => changes'[q] = changes[q]
      /\ changed \subseteq Paths
  BY <1>1, TreesAreRead DEF PairInv, TypeOK, Partial
<1>3. PathInv'
  BY <1>1, <1>2 DEF MissInv, PathInv
<1>4. ReadingInv' /\ MemoInv'
  BY <1>1 DEF MissInv, ReadingInv, MemoInv, Fits, Superseded, Gone
<1>5. RecallInv'
  <2> SUFFICES ASSUME pc = "recall", memo # NoTree PROVE RecallInv'
    BY <1>1 DEF RecallInv
  <2>1. ASSUME NEW q \in changed, changes'[q] # "unread",
               changes'[q] = memo.changes[q]
        PROVE  memo.snapshot[q] \in seen[q]
    <3>1. CASE q = p
      <4>1. \/ memo.snapshot[p] = memo.changes[p]
            \/ Gone(p, memo.changes[p])
        BY <1>2, <2>1, <3>1 DEF MissInv, MemoInv
      <4> QED BY <1>2, <2>1, <3>1, <4>1 DEF Gone
    <3>2. CASE q # p
      BY <1>2, <2>1, <3>2 DEF MissInv, RecallInv
    <3> QED BY <3>1, <3>2
  <2>2. Outlived => Outlived'
    BY <1>1, <1>2 DEF Outlived, Gone
  <2> QED BY <1>1, <2>1, <2>2 DEF MissInv, RecallInv
<1> QED BY <1>3, <1>4, <1>5 DEF MissInv

LEMMA MissRead ==
    ASSUME PairInv, MissInv, NEW p \in Paths, Read(p)
    PROVE  MissInv'
<1>1. /\ UNCHANGED <<tree, had, map, seen, memo, pc, changed, changes, from>>
      /\ pc = "snapshot" /\ new' = [new EXCEPT ![p] = tree[p]]
  BY DEF Read, worldVars
<1>2. /\ new'[p] = tree[p] /\ tree[p] \in seen[p]
      /\ \A q \in Paths : q # p => new'[q] = new[q]
  BY <1>1 DEF PairInv, TypeOK, Partial
<1>3. PathInv'
  BY <1>1, <1>2 DEF MissInv, PathInv
<1>4. Fits(p, changes, tree[p])
  BY DEF Fits, Gone, MissInv, PathInv
<1>5. ReadingInv'
  <2> SUFFICES ASSUME from = "re-map", NEW q \in Paths, new'[q] # "unread"
               PROVE  Fits(q, changes, new[q])'
    BY <1>1 DEF ReadingInv
  <2>1. Fits(q, changes, new'[q])
    BY <1>1, <1>2, <1>4 DEF MissInv, ReadingInv
  <2> QED BY <1>1, <2>1 DEF Fits, Superseded, Gone
<1>6. MemoInv' /\ RecallInv'
  BY <1>1 DEF MissInv, MemoInv, RecallInv, Fits, Superseded, Gone
<1> QED BY <1>3, <1>5, <1>6 DEF MissInv

\* The memo matches: it is what the paths have held since the call began.
LEMMA MissRecall ==
    ASSUME PairInv, MissInv, Recall
    PROVE  MissInv'
<1>1. /\ UNCHANGED <<tree, had, map, seen, memo, changed, changes>>
      /\ pc = "recall" /\ pc' = "done" /\ new' = memo.snapshot
      /\ Hashed /\ changes = memo.changes /\ memo.signature = map.signature
  BY DEF Recall, MemoMatches, worldVars
<1>2. memo # NoTree /\ changed # {} /\ changed \subseteq Paths
  BY <1>1 DEF PairInv, TypeOK, CallInv, Fresh
<1>3. ASSUME NEW p \in Paths PROVE new'[p] \in seen[p]
  <2>1. ~Outlived
    BY <1>1, <1>2 DEF Outlived, Hashed
  <2>2. CASE p \in changed
    BY <1>1, <1>2, <2>2 DEF Hashed, MissInv, RecallInv
  <2>3. CASE p \notin changed
    <3>1. memo.changes[p] = "unread"
      BY <1>1, <2>3 DEF PairInv, TypeOK
    <3> QED BY <1>1, <1>2, <2>1, <2>3, <3>1 DEF MissInv, RecallInv
  <2> QED BY <2>2, <2>3
<1>4. PathInv'
  BY <1>1, <1>3 DEF MissInv, PathInv
<1>5. ReadingInv' /\ MemoInv' /\ RecallInv'
  BY <1>1 DEF MissInv, ReadingInv, MemoInv, RecallInv, Fits, Superseded, Gone
<1> QED BY <1>4, <1>5 DEF MissInv

LEMMA MissRemember ==
    ASSUME PairInv, MissInv, Remember
    PROVE  MissInv'
<1>1. /\ UNCHANGED <<tree, had, map, seen, changed, changes, new, from>>
      /\ pc = "snapshot" /\ pc' = "done" /\ from = "re-map" /\ AllRead
      /\ memo' = [kind |-> "memo", signature |-> map.signature,
                  changes |-> changes, snapshot |-> new]
  BY DEF Remember, KeptChanges, worldVars, callVars
<1>2. memo'.changes = changes /\ memo'.snapshot = new
  BY <1>1
<1>3. PathInv' /\ ReadingInv' /\ RecallInv'
  BY <1>1 DEF MissInv, PathInv, ReadingInv, RecallInv
<1>4. ASSUME NEW p \in Paths
      PROVE  /\ Fits(p, changes, new[p])
             /\ changes[p] # "unread" => changes[p] \in had[p]
  BY <1>1 DEF MissInv, PathInv, ReadingInv, AllRead
<1>5. MemoInv'
  <2>1. \A p \in Paths : memo'.changes[p] # "unread" =>
            /\ memo'.changes[p] \in had'[p]
            /\ \/ memo'.snapshot[p] = memo'.changes[p]
               \/ Gone(p, memo.changes[p])'
    BY <1>1, <1>2, <1>4 DEF Fits, Gone
  <2>2. \A p \in Paths : Fits(p, memo.changes, memo.snapshot[p])'
    BY <1>1, <1>2, <1>4 DEF Fits, Superseded, Gone
  <2> QED BY <2>1, <2>2 DEF MemoInv
<1> QED BY <1>3, <1>5 DEF MissInv

LEMMA MissMovesOn ==
    ASSUME PairInv, MissInv,
           \/ Forget \/ SameCommit \/ Clean \/ OldSide \/ NoRecall \/ HashedAll
           \/ FreshDone
    PROVE  MissInv'
<1>1. /\ UNCHANGED <<tree, had, map, seen, changed, new>>
      /\ changes' = changes \/ changes' = Unread
      /\ memo' = memo \/ memo' = NoTree
  BY DEF Forget, SameCommit, Clean, OldSide, NoRecall, HashedAll, FreshDone,
         worldVars, callVars
<1>2. PathInv'
  BY <1>1, UnreadPaths DEF MissInv, PathInv
<1>3. MemoInv'
  BY <1>1 DEF MissInv, MemoInv, Fits, Superseded, Gone
<1>4. ReadingInv'
  <2>1. pc \notin {"snapshot", "done"} => new = Unread
    BY DEF MissInv, ReadingInv
  <2>2. /\ pc \notin {"snapshot", "done"} \/ pc' = "done"
    BY DEF Forget, SameCommit, Clean, OldSide, NoRecall, HashedAll, FreshDone
  <2> QED BY <1>1, <2>1, <2>2, UnreadPaths DEF ReadingInv
<1>5. RecallInv'
  <2> SUFFICES ASSUME pc' \in {"old", "recall"}, memo' # NoTree
               PROVE  RecallInv'
    BY DEF RecallInv
  <2>1. pc = "old" /\ UNCHANGED <<changes, memo>>
    BY <1>1 DEF Forget, SameCommit, Clean, OldSide, NoRecall, HashedAll,
                FreshDone, PairInv, CallInv
  <2> QED BY <1>1, <2>1 DEF MissInv, RecallInv, Outlived, Gone
<1> QED BY <1>2, <1>3, <1>4, <1>5 DEF MissInv

LEMMA MissStep ==
    ASSUME Reverts = FALSE, PairInv, MissInv, [Next]_vars
    PROVE  MissInv'
<1>1. CASE Commit \/ UNCHANGED vars
  <2>1. /\ UNCHANGED <<tree, had, map, seen, memo, pc>>
        /\ UNCHANGED <<changed, changes, new, from>>
    BY <1>1 DEF Commit, vars, worldVars, callVars
  <2> QED BY <2>1 DEF MissInv, PathInv, ReadingInv, MemoInv, RecallInv, Outlived,
                      Fits, Superseded, Gone
<1>2. CASE Edit \/ Map \/ Call
  BY <1>2, MissEdit, MissMap, MissCall
<1>3. CASE Step
  BY <1>3, MissJudge, MissHash, MissRead, MissRecall, MissRemember, MissPersist,
     MissMovesOn DEF Step
<1> QED BY <1>1, <1>2, <1>3 DEF Next

(***************************************************************************)
(* A miss, never a stale hit: a new side is made of contents the paths     *)
(* have held since the answered call began, whatever was edited and        *)
(* mapped while the remembered call hashed and read, and since             *)
(* (_recall_new_side, _remember_new_side, _forget_new_side), provided that *)
(* no edit brings back what a path held before.                            *)
(***************************************************************************)
THEOREM NewSideSafe ==
    ASSUME Reverts = FALSE
    PROVE  Spec => []NewSideIsCurrent
<1>1. Init => MissInv
  <2> SUFFICES ASSUME Init PROVE MissInv
    OBVIOUS
  <2>1. PathInv
    BY UnreadPaths DEF Init, PathInv
  <2>2. ReadingInv /\ MemoInv /\ RecallInv
    BY DEF Init, ReadingInv, MemoInv, RecallInv
  <2> QED BY <2>1, <2>2 DEF MissInv
<1>2. PairInv /\ MissInv /\ [Next]_vars => MissInv'
  BY MissStep
<1>3. PairInv /\ MissInv => NewSideIsCurrent
  BY DEF PairInv, CallInv, MissInv, PathInv, AllRead, NewSideIsCurrent
<1> QED BY <1>1, <1>2, <1>3, PairInvariant, PTL DEF Spec
================================================================================
