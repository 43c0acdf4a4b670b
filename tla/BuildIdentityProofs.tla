-------------------------- MODULE BuildIdentityProofs --------------------------
(***************************************************************************)
(* Proofs about BuildIdentity, for any number of processes and releases,   *)
(* and however often dekko is replaced and its children fail: the types,   *)
(* what a process may claim from its memo, and who writes the map.         *)
(***************************************************************************)
EXTENDS BuildIdentity, TLAPS

(***************************************************************************)
(* What a process was told is only as good as the signature it is kept     *)
(* under: the child may have been asked after the files moved on, but not  *)
(* before the signature was taken, so an answer whose signature is still   *)
(* that of the disk is the disk's identity.                                *)
(*                                                                         *)
(* A process outdated since its request began is told so wherever it asks, *)
(* even when the answer is old by the time it is used: every identity the  *)
(* disk had meanwhile is another one than it loaded.  What is left to it   *)
(* is the path on which nothing asks.                                      *)
(***************************************************************************)
MemoInv(p) ==
    memo[p].identity # Unknown =>
        /\ memo[p].sig <= sig
        /\ memo[p].sig = sig => memo[p].identity = disk

AskInv(p) ==
    /\ req[p].at \in {"child", "answered"} => req[p].taken <= sig
    /\ At(p, "answered") /\ req[p].taken = sig =>
            req[p].answer \in {disk, Unknown}
    /\ At(p, "answered") /\ req[p].outdated => req[p].answer # loaded[p]

AuthorInv(p) ==
    /\ req[p].at \in {"idle", "judge", "stale"} => req[p].need = "verdict"
    /\ req[p].outdated /\ p \in LongLived =>
        /\ At(p, "identity") => Installed(p) # loaded[p]
        /\ At(p, "stale") => \/ Installed(p) # loaded[p]
                             \/ req[p].judged.build = loaded[p]
        /\ At(p, "regen") \/ (At(p, "write") /\ req[p].work.build = loaded[p])
            => req[p].need = "verdict" /\ req[p].judged.build = loaded[p]

BuildInv == TypeOK /\ \A p \in Procs : MemoInv(p) /\ AskInv(p) /\ AuthorInv(p)

-----------------------------------------------------------------------------
\* No answer is none of the identities, and no map is none of the maps.

LEMMA UnknownIsNoIdentity == Unknown \notin Identities
<1> SUFFICES ASSUME Unknown \in Identities PROVE FALSE
  OBVIOUS
<1>1. DOMAIN Unknown = {"version", "spec"}
  BY DEF Identities
<1>2. DOMAIN Unknown = {"child"}
  BY DEF Unknown
<1> QED BY <1>1, <1>2

LEMMA NoMapIsNoMap == NoMap \notin Maps
  BY UnknownIsNoIdentity DEF NoMap, Maps

\* What TypeOK says of one process.
TypedProc(p) ==
    /\ loaded[p] \in Identities
    /\ memo[p] \in [sig : 0 .. MaxInstalls + 1,
                    identity : Identities \cup {Unknown}]
    /\ req[p] \in Requests
    /\ req[p].outdated => loaded[p] # disk
    /\ At(p, "write") <=> req[p].work # NoMap
    /\ p \in Commands => req[p].at \notin
            {"ask", "child", "answered", "identity", "delegate"}

ProcInv(p) == TypedProc(p) /\ MemoInv(p) /\ AskInv(p) /\ AuthorInv(p)

LEMMA ProcInvHolds ==
    ASSUME BuildInv, NEW p \in Procs
    PROVE  ProcInv(p)
<1>1. TypedProc(p)
  BY DEF BuildInv, TypeOK, TypedProc, At
<1> QED BY <1>1 DEF BuildInv, ProcInv

\* A step of p is a step of p alone.
LEMMA OnlyOneProc ==
    ASSUME BuildInv, NEW p \in Procs, UNCHANGED world, map' \in Maps,
           \/ loaded' = loaded
           \/ \E i \in Identities : loaded' = [loaded EXCEPT ![p] = i],
           \/ memo' = memo
           \/ \E m \in [sig : 0 .. MaxInstalls + 1,
                        identity : Identities \cup {Unknown}] :
                  memo' = [memo EXCEPT ![p] = m],
           \E r \in Requests : req' = [req EXCEPT ![p] = r],
           ProcInv(p)'
    PROVE  BuildInv'
<1>1. /\ loaded' \in [Procs -> Identities]
      /\ memo' \in [Procs -> [sig : 0 .. MaxInstalls + 1,
                              identity : Identities \cup {Unknown}]]
      /\ req' \in [Procs -> Requests]
  <2>1. /\ loaded \in [Procs -> Identities]
        /\ memo \in [Procs -> [sig : 0 .. MaxInstalls + 1,
                               identity : Identities \cup {Unknown}]]
        /\ req \in [Procs -> Requests]
    BY DEF BuildInv, TypeOK
  <2> QED BY <2>1
<1>2. \A q \in Procs \ {p} : UNCHANGED <<loaded[q], memo[q], req[q]>>
  BY DEF BuildInv, TypeOK
<1>3. ASSUME NEW q \in Procs PROVE ProcInv(q)'
  <2>1. CASE q = p
    BY <2>1
  <2>2. CASE q # p
    <3>1. UNCHANGED <<loaded[q], memo[q], req[q], disk, sig>> /\ ProcInv(q)
      BY <1>2, <2>2, ProcInvHolds DEF world
    <3>2. TypedProc(q)'
      BY <3>1 DEF ProcInv, TypedProc, At
    <3>3. MemoInv(q)' /\ AskInv(q)' /\ AuthorInv(q)'
      BY <3>1 DEF ProcInv, MemoInv, AskInv, AuthorInv, At, Installed
    <3> QED BY <3>2, <3>3 DEF ProcInv
  <2> QED BY <2>1, <2>2
<1>4. TypeOK'
  <2>1. disk' \in Identities /\ sig' \in 0 .. MaxInstalls
        /\ tree' \in 0 .. MaxEdits
    BY DEF BuildInv, TypeOK, world
  <2>2. \A q \in Procs : TypedProc(q)'
    BY <1>3 DEF ProcInv
  <2> QED BY <1>1, <2>1, <2>2 DEF TypeOK, TypedProc, At, Procs
<1> QED BY <1>3, <1>4 DEF BuildInv, ProcInv

-----------------------------------------------------------------------------
LEMMA InitHolds == Init => BuildInv
<1> SUFFICES ASSUME Init PROVE BuildInv
  OBVIOUS
<1>1. disk \in Identities /\ map \in Maps
  BY BuildIdentityAssumption DEF Init, Maps
<1>2. Idle \in Requests /\ NoMemo \in [sig : 0 .. MaxInstalls + 1,
                                       identity : Identities \cup {Unknown}]
  BY BuildIdentityAssumption DEF Idle, Requests, NoMemo
<1>3. TypeOK
  <2>1. /\ Idle.at = "idle" /\ Idle.work = NoMap /\ Idle.outdated = FALSE
        /\ sig \in 0 .. MaxInstalls /\ tree \in 0 .. MaxEdits
    BY BuildIdentityAssumption DEF Idle, Init
  <2>2. /\ loaded \in [Procs -> Identities]
        /\ memo \in [Procs -> [sig : 0 .. MaxInstalls + 1,
                               identity : Identities \cup {Unknown}]]
        /\ req \in [Procs -> Requests]
        /\ \A p \in Procs : req[p] = Idle
    BY <1>1, <1>2 DEF Init
  <2> QED BY <1>1, <2>1, <2>2 DEF TypeOK, Procs
<1>4. ASSUME NEW p \in Procs PROVE MemoInv(p) /\ AskInv(p) /\ AuthorInv(p)
  BY <1>4 DEF Init, MemoInv, AskInv, AuthorInv, At, Idle, NoMemo
<1> QED BY <1>3, <1>4 DEF BuildInv

-----------------------------------------------------------------------------
\* What the outside does.

LEMMA InstallStep ==
    ASSUME BuildInv, Install
    PROVE  BuildInv'
<1>1. sig \in 0 .. MaxInstalls /\ sig' = sig + 1 /\ sig' \in 0 .. MaxInstalls
  BY BuildIdentityAssumption DEF Install, BuildInv, TypeOK
<1>2. disk' \in Identities
  BY DEF Install, BuildInv, TypeOK, Identities
<1>3. UNCHANGED <<tree, map, loaded, memo>>
  BY DEF Install
<1>4. req' = [p \in Procs |->
                [req[p] EXCEPT !.outdated = @ /\ loaded[p] # disk']]
  BY DEF Install
<1>5. ASSUME NEW p \in Procs
      PROVE  /\ ProcInv(p)' /\ req'[p] \in Requests
             /\ req'[p].outdated => req[p].outdated
  <2>1. ProcInv(p)
    BY ProcInvHolds
  <2>2. /\ req'[p].at = req[p].at /\ req'[p].need = req[p].need
        /\ req'[p].taken = req[p].taken /\ req'[p].answer = req[p].answer
        /\ req'[p].judged = req[p].judged /\ req'[p].work = req[p].work
        /\ req'[p].outdated = (req[p].outdated /\ loaded[p] # disk')
        /\ req'[p] \in Requests
    BY <2>1, <1>4 DEF ProcInv, TypedProc, Requests
  <2>3. TypedProc(p)'
    BY <2>1, <2>2, <1>3 DEF ProcInv, TypedProc, At
  <2>4. MemoInv(p)'
    BY <2>1, <1>1, <1>3 DEF ProcInv, TypedProc, MemoInv
  <2>5. AskInv(p)'
    BY <2>1, <2>2, <1>1, <1>3 DEF ProcInv, TypedProc, AskInv, At, Requests
  <2>6. AuthorInv(p)'
    BY <2>1, <2>2, <1>3 DEF ProcInv, AuthorInv, At, Installed
  <2> QED BY <2>2, <2>3, <2>4, <2>5, <2>6 DEF ProcInv
<1>6. TypeOK'
  <2>1. req' \in [Procs -> Requests]
    BY <1>4, <1>5
  <2>2. \A p \in Procs : TypedProc(p)'
    BY <1>5 DEF ProcInv
  <2> QED
    BY <1>1, <1>2, <1>3, <2>1, <2>2 DEF BuildInv, TypeOK, TypedProc, At, Procs
<1> QED BY <1>5, <1>6 DEF BuildInv, ProcInv

LEMMA EditStep ==
    ASSUME BuildInv, Edit
    PROVE  BuildInv'
<1>1. tree' \in 0 .. MaxEdits
  BY BuildIdentityAssumption DEF Edit, BuildInv, TypeOK
<1> QED
  BY <1>1 DEF Edit, BuildInv, TypeOK, MemoInv, AskInv, AuthorInv, At, Installed

-----------------------------------------------------------------------------
\* A process.

LEMMA StartStep ==
    ASSUME BuildInv, NEW p \in Procs, Start(p)
    PROVE  BuildInv'
<1>1. ProcInv(p) /\ At(p, "idle") /\ UNCHANGED <<world, map, memo>>
  BY ProcInvHolds DEF Start
<1>2. /\ loaded' = loaded \/ loaded' = [loaded EXCEPT ![p] = disk]
      /\ disk \in Identities /\ map' \in Maps
      /\ loaded'[p] \in Identities
  BY <1>1 DEF Start, BuildInv, TypeOK
<1> DEFINE r == [req[p] EXCEPT !.at = "judge",
                               !.outdated = loaded'[p] # disk]
<1>3. req' = [req EXCEPT ![p] = r]
  BY DEF Start
<1>4. /\ r \in Requests /\ req'[p] = r
      /\ r.at = "judge" /\ r.need = "verdict" /\ r.work = NoMap
      /\ r.outdated => loaded'[p] # disk
  <2>1. req[p] \in Requests /\ req[p].need = "verdict" /\ req[p].work = NoMap
    BY <1>1 DEF ProcInv, TypedProc, AuthorInv, At
  <2> QED BY <2>1, <1>3 DEF Requests, BuildInv, TypeOK
<1>5. ProcInv(p)'
  BY <1>1, <1>2, <1>4
  DEF ProcInv, TypedProc, MemoInv, AskInv, AuthorInv, At, Installed, world
<1> HIDE DEF r
<1> QED BY <1>1, <1>2, <1>3, <1>4, <1>5, OnlyOneProc

\* A step that ends the request or only moves it on, as most do, keeps the
\* rest of what is known.
LEMMA RequestStep ==
    ASSUME BuildInv, NEW p \in Procs, UNCHANGED <<world, loaded, memo>>,
           map' \in Maps, NEW r \in Requests, req' = [req EXCEPT ![p] = r],
           r.work # NoMap <=> r.at = "write",
           r.outdated => req[p].outdated,
           p \in Commands => r.at \notin
               {"ask", "child", "answered", "identity", "delegate"},
           AskInv(p)', AuthorInv(p)'
    PROVE  BuildInv'
<1>1. ProcInv(p) /\ req'[p] = r
  BY ProcInvHolds DEF BuildInv, TypeOK
<1>2. ProcInv(p)'
  BY <1>1 DEF ProcInv, TypedProc, MemoInv, At, world
<1> QED BY <1>2, OnlyOneProc

LEMMA EndStep ==
    ASSUME BuildInv, NEW p \in Procs, End(p),
           UNCHANGED <<world, loaded, memo>>, map' \in Maps
    PROVE  BuildInv'
<1>1. Idle \in Requests /\ req' = [req EXCEPT ![p] = Idle] /\ req'[p] = Idle
  BY BuildIdentityAssumption DEF End, Idle, Requests, BuildInv, TypeOK
<1>2. AskInv(p)' /\ AuthorInv(p)'
  BY <1>1 DEF AskInv, AuthorInv, At, Idle
<1>3. /\ Idle.work = NoMap /\ Idle.at = "idle" /\ ~Idle.outdated
  BY DEF Idle
<1> QED BY <1>1, <1>2, <1>3, RequestStep

\* Judging, and asking what is installed.
LEMMA AskingStep ==
    ASSUME BuildInv, NEW p \in Procs,
           Judge(p) \/ Ask(p) \/ AskChild(p) \/ Classify(p)
    PROVE  BuildInv'
<1>1. ProcInv(p) /\ UNCHANGED <<world, map, loaded, memo>> /\ map' \in Maps
  BY ProcInvHolds DEF Judge, Ask, AskChild, Classify, BuildInv, TypeOK
<1>2. req[p] \in Requests /\ disk \in Identities /\ sig \in 0 .. MaxInstalls
  BY <1>1 DEF ProcInv, TypedProc, BuildInv, TypeOK
<1>3. /\ At(p, "write") <=> req[p].work # NoMap
      /\ p \in Commands => p \notin LongLived
  BY <1>1, BuildIdentityAssumption DEF ProcInv, TypedProc
<1>4. CASE End(p)
  BY <1>1, <1>4, EndStep
<1>5. CASE Judge(p) /\ ~End(p)
  <2> DEFINE next == IF ~OfThisBuild(p) /\ p \in LongLived
                     THEN "ask" ELSE "stale"
             r == [req[p] EXCEPT !.judged = map, !.at = next]
  <2>1. req' = [req EXCEPT ![p] = r] /\ At(p, "judge")
    BY <1>5 DEF Judge
  <2>2. /\ r \in Requests /\ r.at = next /\ r.work = req[p].work
        /\ r.outdated = req[p].outdated /\ r.judged = map
        /\ r.need = "verdict" /\ req[p].work = NoMap
    BY <1>1, <1>2, <1>3, <2>1
    DEF Requests, At, ProcInv, AuthorInv
  <2>3. req'[p] = r
    BY <2>1 DEF BuildInv, TypeOK
  <2>4. AskInv(p)'
    BY <2>2, <2>3 DEF AskInv, At
  <2>5. AuthorInv(p)'
    BY <1>1, <2>2, <2>3 DEF AuthorInv, At, Installed, OfThisBuild
  <2>6. r.work # NoMap <=> r.at = "write"
    BY <2>2
  <2> HIDE DEF r
  <2> QED BY <1>1, <1>3, <2>1, <2>2, <2>4, <2>5, <2>6, RequestStep
<1>6. CASE Ask(p)
  <2> DEFINE next == IF memo[p].sig = sig THEN "identity" ELSE "child"
             r == [req[p] EXCEPT !.taken = sig, !.at = next]
  <2>1. req' = [req EXCEPT ![p] = r] /\ At(p, "ask")
    BY <1>6 DEF Ask
  <2>2. /\ r \in Requests /\ r.at = next /\ r.work = req[p].work
        /\ r.outdated = req[p].outdated /\ r.taken = sig
        /\ req[p].work = NoMap /\ p \notin Commands
    BY <1>1, <1>2, <1>3, <2>1 DEF Requests, At, ProcInv, TypedProc
  <2>3. req'[p] = r
    BY <2>1 DEF BuildInv, TypeOK
  <2>4. AskInv(p)'
    BY <1>1, <1>2, <2>2, <2>3 DEF AskInv, At, world
  <2>5. AuthorInv(p)'
    <3>1. memo[p].sig = sig => memo[p].identity \in {disk, Unknown}
      BY <1>1 DEF ProcInv, MemoInv
    <3>2. /\ req[p].outdated => loaded[p] # disk
          /\ loaded[p] # Unknown
      BY <1>1, UnknownIsNoIdentity DEF ProcInv, TypedProc
    <3> QED BY <1>1, <2>2, <2>3, <3>1, <3>2 DEF AuthorInv, At, Installed
  <2>6. r.work # NoMap <=> r.at = "write"
    BY <2>2
  <2> HIDE DEF r
  <2> QED BY <1>1, <2>1, <2>2, <2>4, <2>5, <2>6, RequestStep
<1>7. CASE AskChild(p)
  <2>1. PICK identity \in {disk, Unknown} :
            req' = [req EXCEPT ![p].at = "answered", ![p].answer = identity]
    BY <1>7 DEF AskChild
  <2> DEFINE r == [req[p] EXCEPT !.at = "answered", !.answer = identity]
  <2>2. req' = [req EXCEPT ![p] = r] /\ At(p, "child")
    BY <1>7, <2>1 DEF AskChild
  <2>3. /\ r \in Requests /\ r.at = "answered" /\ r.work = req[p].work
        /\ r.outdated = req[p].outdated /\ r.answer = identity
        /\ r.taken = req[p].taken /\ r.taken <= sig
        /\ req[p].work = NoMap /\ p \notin Commands
    BY <1>1, <1>2, <1>3, <2>2 DEF Requests, At, ProcInv, TypedProc, AskInv
  <2>4. req'[p] = r
    BY <2>2 DEF BuildInv, TypeOK
  <2>5. AskInv(p)'
    <3>1. /\ req[p].outdated => loaded[p] # disk
          /\ loaded[p] # Unknown
      BY <1>1, UnknownIsNoIdentity DEF ProcInv, TypedProc
    <3> QED BY <1>1, <2>1, <2>3, <2>4, <3>1 DEF AskInv, At, world
  <2>6. AuthorInv(p)'
    BY <2>3, <2>4 DEF AuthorInv, At
  <2>7. r.work # NoMap <=> r.at = "write"
    BY <2>3
  <2> HIDE DEF r
  <2> QED BY <1>1, <2>2, <2>3, <2>5, <2>6, <2>7, RequestStep
<1>8. CASE Classify(p) /\ ~End(p)
  <2> DEFINE r == [req[p] EXCEPT !.at = "stale"]
  <2>1. req' = [req EXCEPT ![p] = r] /\ At(p, "identity")
    BY <1>8 DEF Classify, Goto
  <2>2. /\ r \in Requests /\ r.at = "stale" /\ r.work = req[p].work
        /\ r.outdated = req[p].outdated /\ r.need = "verdict"
        /\ req[p].work = NoMap
    BY <1>2, <1>3, <1>8, <2>1 DEF Requests, At, Classify
  <2>3. req'[p] = r
    BY <2>1 DEF BuildInv, TypeOK
  <2>4. AskInv(p)' /\ AuthorInv(p)'
    BY <1>1, <2>1, <2>2, <2>3 DEF ProcInv, AskInv, AuthorInv, At, Installed
  <2>5. r.work # NoMap <=> r.at = "write"
    BY <2>2
  <2> HIDE DEF r
  <2> QED BY <1>1, <2>1, <2>2, <2>4, <2>5, RequestStep
<1> QED BY <1>4, <1>5, <1>6, <1>7, <1>8

LEMMA RememberStep ==
    ASSUME BuildInv, NEW p \in Procs, Remember(p)
    PROVE  BuildInv'
<1>1. ProcInv(p) /\ At(p, "answered") /\ UNCHANGED <<world, map, loaded>>
  BY ProcInvHolds DEF Remember
<1> DEFINE m == [sig |-> req[p].taken, identity |-> req[p].answer]
           r == [req[p] EXCEPT !.at = "identity", !.answer = Unknown]
<1>2. memo' = [memo EXCEPT ![p] = m] /\ req' = [req EXCEPT ![p] = r]
  BY DEF Remember, MemoKey
<1>3. /\ m \in [sig : 0 .. MaxInstalls + 1,
                identity : Identities \cup {Unknown}]
      /\ r \in Requests /\ memo'[p] = m /\ req'[p] = r /\ map' \in Maps
  <2>1. /\ req[p] \in Requests
        /\ memo \in [Procs -> [sig : 0 .. MaxInstalls + 1,
                               identity : Identities \cup {Unknown}]]
    BY <1>1 DEF ProcInv, TypedProc, BuildInv, TypeOK
  <2>2. /\ req[p].taken \in 0 .. MaxInstalls + 1
        /\ req[p].answer \in Identities \cup {Unknown}
    BY <2>1, BuildIdentityAssumption DEF Requests
  <2>3. r \in Requests /\ map' \in Maps /\ req'[p] = r
    BY <1>1, <1>2, <2>1 DEF Requests, BuildInv, TypeOK
  <2> QED BY <1>2, <2>1, <2>2, <2>3
<1>4. /\ m.sig = req[p].taken /\ m.identity = req[p].answer
      /\ r.at = "identity" /\ r.work = NoMap /\ r.outdated = req[p].outdated
      /\ p \notin Commands
  BY <1>1 DEF ProcInv, TypedProc, Requests, At
<1>5. TypedProc(p)'
  BY <1>1, <1>3, <1>4 DEF ProcInv, TypedProc, At, world
<1>6. MemoInv(p)'
  BY <1>1, <1>3, <1>4 DEF ProcInv, AskInv, MemoInv, At, world
<1>7. AskInv(p)' /\ AuthorInv(p)'
  BY <1>1, <1>3, <1>4 DEF ProcInv, AskInv, AuthorInv, At, Installed
<1> HIDE DEF m, r
<1> QED BY <1>1, <1>2, <1>3, <1>5, <1>6, <1>7, OnlyOneProc DEF ProcInv

\* Deciding who writes the map: a command does, a long-lived process asks, and
\* a diff looks at the verdict it already has.
LEMMA DecidingStep ==
    ASSUME BuildInv, NEW p \in Procs,
           Regenerate(p) \/ Diff(p) \/ ChooseWriter(p)
    PROVE  BuildInv'
<1>1. ProcInv(p) /\ UNCHANGED <<world, map, loaded, memo>> /\ map' \in Maps
  BY ProcInvHolds DEF Regenerate, Diff, ChooseWriter, BuildInv, TypeOK
<1>2. /\ req[p] \in Requests /\ req[p].work = NoMap
      /\ p \in Commands => p \notin LongLived
  BY <1>1, BuildIdentityAssumption
  DEF ProcInv, TypedProc, At, Regenerate, Diff, ChooseWriter
<1>3. CASE End(p)
  BY <1>1, <1>3, EndStep
<1>4. ASSUME NEW next \in {"regen", "delegate"}, Goto(p, next),
             p \in Commands => next # "delegate",
             next = "regen" /\ p \in LongLived /\ req[p].outdated
                 => req[p].need = "verdict" /\ req[p].judged.build = loaded[p]
      PROVE  BuildInv'
  <2> DEFINE r == [req[p] EXCEPT !.at = next]
  <2>1. req' = [req EXCEPT ![p] = r] /\ req'[p] = r
    BY <1>4 DEF Goto, BuildInv, TypeOK
  <2>2. /\ r \in Requests /\ r.at = next /\ r.work = NoMap
        /\ r.outdated = req[p].outdated /\ r.need = req[p].need
        /\ r.judged = req[p].judged
    BY <1>2, <1>4 DEF Requests
  <2>3. AskInv(p)' /\ AuthorInv(p)'
    BY <1>1, <1>4, <2>1, <2>2 DEF AskInv, AuthorInv, At
  <2>4. r.work # NoMap <=> r.at = "write"
    BY <1>4, <2>2
  <2>5. p \in Commands => r.at \notin
            {"ask", "child", "answered", "identity", "delegate"}
    BY <1>4, <2>2
  <2> HIDE DEF r
  <2> QED BY <1>1, <2>1, <2>2, <2>3, <2>4, <2>5, RequestStep
<1>5. CASE Regenerate(p) /\ p \in Commands
  BY <1>2, <1>4, <1>5 DEF Regenerate
<1>6. CASE Regenerate(p) /\ p \notin Commands
  <2> DEFINE r == [req[p] EXCEPT !.at = "ask", !.need = "regen"]
  <2>1. req' = [req EXCEPT ![p] = r] /\ req'[p] = r
    BY <1>6 DEF Regenerate, BuildInv, TypeOK
  <2>2. /\ r \in Requests /\ r.at = "ask" /\ r.work = NoMap
        /\ r.outdated = req[p].outdated
    BY <1>2 DEF Requests
  <2>3. AskInv(p)' /\ AuthorInv(p)'
    BY <2>1, <2>2 DEF AskInv, AuthorInv, At
  <2>4. r.work # NoMap <=> r.at = "write"
    BY <2>2
  <2> HIDE DEF r
  <2> QED BY <1>1, <1>6, <2>1, <2>2, <2>3, <2>4, RequestStep
<1>7. CASE Diff(p) /\ ~End(p)
  <2>1. Goto(p, "regen") /\ ~ProcessOutdated(p) /\ At(p, "stale")
    BY <1>7 DEF Diff
  <2>2. p \in LongLived /\ req[p].outdated
            => req[p].need = "verdict" /\ req[p].judged.build = loaded[p]
    BY <1>1, <2>1 DEF ProcInv, AuthorInv, At, ProcessOutdated
  <2> QED BY <1>4, <2>1, <2>2
<1>8. CASE ChooseWriter(p)
  <2>1. p \notin Commands /\ At(p, "identity")
    BY <1>1, <1>8 DEF ChooseWriter, ProcInv, TypedProc, At
  <2>2. PICK next \in {"regen", "delegate"} :
            Goto(p, next) /\ (next = "regen" => MayRegen(p))
    BY <1>8 DEF ChooseWriter
  <2>3. ~(next = "regen" /\ p \in LongLived /\ req[p].outdated)
    BY <1>1, <2>1, <2>2 DEF ProcInv, AuthorInv, MayRegen
  <2> QED BY <1>4, <2>1, <2>2, <2>3
<1> QED BY <1>3, <1>5, <1>6, <1>7, <1>8

\* Making the map, here or in the installed build, and writing it.
LEMMA WritingStep ==
    ASSUME BuildInv, NEW p \in Procs, Extract(p) \/ Delegate(p) \/ Write(p)
    PROVE  BuildInv'
<1>1. ProcInv(p) /\ UNCHANGED <<world, loaded, memo>>
  BY ProcInvHolds DEF Extract, Delegate, Write
<1>2. req[p] \in Requests /\ disk \in Identities /\ loaded[p] \in Identities
  BY <1>1 DEF ProcInv, TypedProc, BuildInv, TypeOK
<1>3. map' \in Maps
  <2>1. CASE Write(p)
    BY <1>1, <1>2, <2>1 DEF Write, ProcInv, TypedProc, Requests
  <2>2. CASE UNCHANGED map
    BY <2>2 DEF BuildInv, TypeOK
  <2> QED BY <2>1, <2>2 DEF Extract, Delegate, Write
<1>4. CASE End(p)
  BY <1>1, <1>3, <1>4, EndStep
<1>5. ASSUME NEW build \in Identities, Extracted(p, build),
             build = loaded[p] /\ p \in LongLived /\ req[p].outdated
                 => req[p].need = "verdict" /\ req[p].judged.build = loaded[p]
      PROVE  BuildInv'
  <2> DEFINE work == [build |-> build, tree |-> tree]
             r == [req[p] EXCEPT !.at = "write", !.work = work]
  <2>1. req' = [req EXCEPT ![p] = r] /\ req'[p] = r
    BY <1>5 DEF Extracted, BuildInv, TypeOK
  <2>2. work \in Maps /\ work # NoMap
    BY NoMapIsNoMap DEF Maps, BuildInv, TypeOK
  <2>3. /\ r \in Requests /\ r.at = "write" /\ r.work = work
        /\ r.outdated = req[p].outdated /\ r.need = req[p].need
        /\ r.judged = req[p].judged
    BY <1>2, <2>2 DEF Requests
  <2>4. r.work.build = build
    BY <2>3
  <2>5. AskInv(p)' /\ AuthorInv(p)'
    <3>1. AskInv(p)'
      BY <2>1, <2>3 DEF AskInv, At
    <3> HIDE DEF r
    <3>2. AuthorInv(p)'
      BY <1>1, <1>5, <2>1, <2>3, <2>4 DEF AuthorInv, At
    <3> QED BY <3>1, <3>2
  <2> HIDE DEF r, work
  <2> QED BY <1>1, <1>3, <2>1, <2>2, <2>3, <2>5, RequestStep
<1>6. CASE Extract(p)
  BY <1>1, <1>2, <1>5, <1>6 DEF Extract, ProcInv, AuthorInv
<1>7. CASE Delegate(p) /\ ~End(p)
  BY <1>1, <1>2, <1>5, <1>7 DEF Delegate, ProcInv, TypedProc
<1> QED BY <1>4, <1>6, <1>7 DEF Write

-----------------------------------------------------------------------------
LEMMA BuildStep == BuildInv /\ [Next]_vars => BuildInv'
<1> SUFFICES ASSUME BuildInv, [Next]_vars PROVE BuildInv'
  OBVIOUS
<1>1. CASE UNCHANGED vars
  BY <1>1 DEF vars, world, BuildInv, TypeOK, MemoInv, AskInv, AuthorInv, At,
              Installed
<1>2. CASE Install \/ Edit
  BY <1>2, InstallStep, EditStep
<1>3. CASE \E p \in Procs : Start(p) \/ Step(p)
  BY <1>3, StartStep, AskingStep, RememberStep, DecidingStep, WritingStep
  DEF Step
<1> QED BY <1>1, <1>2, <1>3 DEF Next

LEMMA BuildInvariant == Spec => []BuildInv
  BY InitHolds, BuildStep, PTL DEF Spec

(***************************************************************************)
(* The state of every process and of its request is what selfcheck and     *)
(* repo_ops keep: only a long-lived process asks what is installed or      *)
(* leaves the writing to a child, and only a request about to write holds  *)
(* a map.                                                                  *)
(***************************************************************************)
THEOREM TypeCorrect == Spec => []TypeOK
<1>1. BuildInv => TypeOK
  BY DEF BuildInv
<1> QED BY <1>1, BuildInvariant, PTL

(***************************************************************************)
(* What known_outdated says of a process, from an identity it was once     *)
(* told, is true of the disk now (installed_identity keeps the answer      *)
(* under the signature it took before asking).                             *)
(***************************************************************************)
THEOREM VerdictsSafe == Spec => []KnownOutdatedIsTrue
<1>1. BuildInv => KnownOutdatedIsTrue
  <2> SUFFICES ASSUME BuildInv, NEW p \in LongLived,
                      KnownOutdated(p), memo[p].identity # Unknown
               PROVE  loaded[p] # disk
    BY DEF KnownOutdatedIsTrue
  <2>1. memo[p].identity = disk
    BY DEF BuildInv, MemoInv, KnownOutdated, Procs
  <2> QED BY <2>1 DEF KnownOutdated
<1> QED BY <1>1, BuildInvariant, PTL

(***************************************************************************)
(* A process that has been outdated since its request began writes no map  *)
(* of its own build, save a diff that replaces a map of that same build    *)
(* (regen_map's process_outdated, _persist_hook).                          *)
(***************************************************************************)
THEOREM AuthorsSafe == Spec => []OutdatedNeverAuthors
<1>1. BuildInv => OutdatedNeverAuthors
  BY DEF BuildInv, AuthorInv, OutdatedNeverAuthors, At, Procs
<1> QED BY <1>1, BuildInvariant, PTL
===============================================================================
