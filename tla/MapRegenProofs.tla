--------------------------- MODULE MapRegenProofs ---------------------------
(***************************************************************************)
(* Proofs about MapRegen, for every set of processes, files and contents.  *)
(*                                                                         *)
(* The types and the lock's exclusion need no assumption.  As long as no   *)
(* edit lands between the extraction of a file and its stamp, every        *)
(* document on disk is honest and every answer that was judged fresh is    *)
(* current: that needs no lock, it holds with any number of uncoordinated  *)
(* writers, dead holders and expired waits.  What a regen returns without  *)
(* judging it needs the lock as well.                                      *)
(***************************************************************************)
EXTENDS MapRegen, TLAPS

Answers == [how : {"none", "judged", "regen", "memory", "written", "failed"},
            body : [Files -> Hash]]

LEMMA DocumentTypes ==
    /\ NoFiles \in [Files -> Hash]
    /\ EmptyProv \in Provenance
    /\ NoMap \in MapDoc
    /\ NoSidecar \in SidecarDoc
    /\ NoEntries \in CacheDoc
  BY DEF NoFiles, Hash, EmptyProv, Provenance, NoStat, NoMap, MapDoc,
         NoSidecar, SidecarDoc, NoEntries, CacheDoc

LEMMA ReadFileType ==
    ASSUME TypeOK, NEW f \in Files
    PROVE  ReadFile(f) \in Hash
  BY DEF TypeOK, ReadFile, Hash

\* Giving an answer keeps the process' own state well typed.
LEMMA ReturnToType ==
    ASSUME TypeOK, NEW p \in Procs,
           NEW how \in {"none", "judged", "regen", "memory", "written",
                        "failed"},
           NEW body \in [Files -> Hash],
           ReturnTo(p, how, body), UNCHANGED <<treeVars, diskVars>>
    PROVE  TypeOK'
<1>1. pc' \in [Procs -> Steps] /\ holder' \in SUBSET Procs
  BY DEF TypeOK, ReturnTo, Steps
<1>2. ans' \in [Procs -> Answers]
  BY DEF TypeOK, ReturnTo, Answers
<1>3. /\ cand' \in [Procs -> SidecarDoc] /\ idx' \in [Procs -> MapDoc]
      /\ misses' \in [Procs -> SUBSET Files]
      /\ work' \in [Procs -> CacheDoc] /\ prov' \in [Procs -> Provenance]
  BY DocumentTypes DEF TypeOK, ReturnTo
<1>4. /\ kind' \in [Procs -> RequestKinds] /\ requests' \in Nat
      /\ seen' \in [Procs -> [Files -> SUBSET (Contents \cup {Absent})]]
  BY DEF TypeOK, ReturnTo
<1>5. /\ tree' \in [Files -> Contents \cup {Absent}]
      /\ mtime' \in [Files -> Nat \ {NoStat}] /\ clock' \in Nat \ {NoStat}
      /\ mapjson' \in MapDoc /\ sidecar' \in SidecarDoc
      /\ cache' \in CacheDoc /\ writes' \in Nat
  BY DEF TypeOK, treeVars, diskVars
<1> QED BY <1>1, <1>2, <1>3, <1>4, <1>5 DEF TypeOK, Answers

\* So does moving on to another step with nothing else changed.
LEMMA OnStaleType ==
    ASSUME TypeOK, NEW p \in Procs, OnStale(p), UNCHANGED idx,
           UNCHANGED <<treeVars, diskVars>>
    PROVE  TypeOK'
  BY DEF OnStale, Goto, TypeOK, Steps, treeVars, diskVars, askVars

LEMMA InitType == ConstantsAssumption /\ Init => TypeOK
  BY DocumentTypes DEF Init, TypeOK, Steps, RequestKinds, NoAnswer, Hash,
                       NoStat

LEMMA EditType ==
    ASSUME TypeOK, NEW f \in Files, NEW c \in Contents \cup {Absent},
           Edit(f, c)
    PROVE  TypeOK'
<1>1. /\ tree' \in [Files -> Contents \cup {Absent}]
      /\ mtime' \in [Files -> Nat \ {NoStat}] /\ clock' \in Nat \ {NoStat}
  BY DEF TypeOK, Edit, NoStat
<1>2. seen' \in [Procs -> [Files -> SUBSET (Contents \cup {Absent})]]
  BY DEF TypeOK, Edit
<1> QED BY <1>1, <1>2 DEF TypeOK, Edit, diskVars, localVars

LEMMA StartRequestType ==
    ASSUME TypeOK, NEW p \in Procs, NEW k \in RequestKinds,
           StartRequest(p, k)
    PROVE  TypeOK'
<1>1. seen' \in [Procs -> [Files -> SUBSET (Contents \cup {Absent})]]
  BY DEF TypeOK, StartRequest
<1>2. ans' \in [Procs -> Answers]
  BY DocumentTypes DEF TypeOK, StartRequest, Answers, NoAnswer
<1>3. pc' \in [Procs -> Steps]
  BY DEF TypeOK, StartRequest, Goto, Steps
<1>4. kind' \in [Procs -> RequestKinds] /\ requests' \in Nat
  BY DEF TypeOK, StartRequest
<1>5. /\ UNCHANGED <<tree, mtime, clock, mapjson, sidecar, cache, writes>>
      /\ UNCHANGED <<holder, cand, idx, misses, work, prov>>
  BY DEF StartRequest, treeVars, diskVars, localVars
<1> QED BY <1>1, <1>2, <1>3, <1>4, <1>5 DEF TypeOK, Answers

LEMMA JudgeType ==
    ASSUME TypeOK, NEW p \in Procs, Judge(p)
    PROVE  TypeOK'
<1> USE DocumentTypes
<1>1. CASE ReadSidecar(p)
  <2>1. PICK doc \in SidecarDoc, s \in {"judge", "load"} :
           cand' = [cand EXCEPT ![p] = doc] /\ Goto(p, s)
    BY <1>1 DEF ReadSidecar, TypeOK
  <2>2. cand' \in [Procs -> SidecarDoc]
    BY <2>1 DEF TypeOK
  <2>3. pc' \in [Procs -> Steps]
    BY <2>1 DEF TypeOK, Goto, Steps
  <2> QED
    BY <1>1, <2>2, <2>3 DEF ReadSidecar, TypeOK, treeVars, diskVars, askVars
<1>2. CASE JudgeSidecar(p)
  <2>1. CASE Goto(p, "load") /\ UNCHANGED <<holder, localVars, askVars>>
    BY <1>2, <2>1 DEF JudgeSidecar, Goto, TypeOK, Steps, treeVars, diskVars,
                      localVars, askVars
  <2>2. CASE OnStale(p) /\ UNCHANGED idx
    BY <1>2, <2>2, OnStaleType DEF JudgeSidecar
  <2>3. CASE ReturnTo(p, "failed", NoFiles)
    BY <1>2, <2>3, ReturnToType DEF JudgeSidecar
  <2> QED BY <1>2, <2>1, <2>2, <2>3 DEF JudgeSidecar
<1>3. CASE LoadMap(p)
  <2>1. CASE ReturnTo(p, "judged", mapjson.body)
    <3>1. mapjson.body \in [Files -> Hash]
      BY DEF TypeOK, MapDoc
    <3> QED BY <1>3, <2>1, <3>1, ReturnToType DEF LoadMap
  <2>2. CASE /\ idx' = [idx EXCEPT ![p] = mapjson] /\ Goto(p, "recheck")
             /\ UNCHANGED <<holder, cand, misses, work, prov, askVars>>
    BY <1>3, <2>2 DEF LoadMap, Goto, TypeOK, Steps, treeVars, diskVars,
                      askVars
  <2>3. CASE OnStale(p) /\ UNCHANGED idx
    BY <1>3, <2>3, OnStaleType DEF LoadMap
  <2>4. CASE ReturnTo(p, "failed", NoFiles)
    BY <1>3, <2>4, ReturnToType DEF LoadMap
  <2> QED BY <1>3, <2>1, <2>2, <2>3, <2>4 DEF LoadMap
<1>4. CASE JudgeIndex(p)
  <2>1. CASE ReturnTo(p, "judged", idx[p].body)
    <3>1. idx[p].body \in [Files -> Hash]
      BY DEF TypeOK, MapDoc
    <3> QED BY <1>4, <2>1, <3>1, ReturnToType DEF JudgeIndex
  <2>2. CASE OnStale(p) /\ UNCHANGED idx
    BY <1>4, <2>2, OnStaleType DEF JudgeIndex
  <2>3. CASE ReturnTo(p, "failed", NoFiles)
    BY <1>4, <2>3, ReturnToType DEF JudgeIndex
  <2> QED BY <1>4, <2>1, <2>2, <2>3 DEF JudgeIndex
<1> QED BY <1>1, <1>2, <1>3, <1>4 DEF Judge

LEMMA LockType ==
    ASSUME TypeOK, NEW p \in Procs, Lock(p)
    PROVE  TypeOK'
<1>1. CASE TryLock(p)
  BY <1>1 DEF TryLock, TakeLock, Goto, TypeOK, Steps, treeVars, diskVars,
              localVars, askVars
<1>2. CASE WaitSucceeds(p)
  <2>1. mapjson.body \in [Files -> Hash]
    BY DEF TypeOK, MapDoc
  <2> QED BY <1>2, <2>1, ReturnToType DEF WaitSucceeds
<1>3. CASE WaitGivesUp(p)
  BY <1>3 DEF WaitGivesUp, Goto, TypeOK, Steps, treeVars, diskVars,
              localVars, askVars
<1> QED BY <1>1, <1>2, <1>3 DEF Lock

LEMMA MapType ==
    ASSUME TypeOK, NEW p \in Procs, Map(p)
    PROVE  TypeOK'
<1>0. /\ work[p].body \in [Files -> Hash] /\ work[p].hash \in [Files -> Hash]
      /\ \A f \in Files : ReadFile(f) \in Hash
  BY ReadFileType DEF TypeOK, CacheDoc
<1>1. CASE ReuseCache(p)
  <2>1. CASE ReturnTo(p, "failed", NoFiles)
    BY <1>1, <2>1, DocumentTypes, ReturnToType DEF ReuseCache
  <2>2. CASE /\ misses' = [misses EXCEPT ![p] = Present \ Hits]
             /\ work' = [work EXCEPT ![p] = Reused]
             /\ Goto(p, "noop") \/ Goto(p, "extract")
             /\ UNCHANGED <<holder, cand, idx, prov, askVars>>
    <3>1. Reused \in CacheDoc
      BY DEF Reused, TypeOK, CacheDoc, Hash
    <3>2. Present \ Hits \in SUBSET Files
      BY DEF Present
    <3> QED
      BY <1>1, <2>2, <3>1, <3>2 DEF ReuseCache, Goto, TypeOK, Steps,
                                    treeVars, diskVars, askVars
  <2> QED BY <1>1, <2>1, <2>2 DEF ReuseCache
<1>2. CASE Extract(p)
  <2>1. [hash |-> work[p].hash, body |-> ReadMisses(p, work[p].body)]
          \in CacheDoc
    BY <1>0 DEF ReadMisses, CacheDoc
  <2> QED
    BY <1>2, <2>1 DEF Extract, Goto, TypeOK, Steps, treeVars, diskVars,
                      askVars
<1>3. CASE Store(p)
  <2>1. CASE ReturnTo(p, "memory", work[p].body)
    BY <1>0, <1>3, <2>1, ReturnToType DEF Store
  <2>2. CASE /\ work' = [work EXCEPT ![p] = [hash |-> ReadMisses(p, work[p].hash),
                                            body |-> work[p].body]]
             /\ Goto(p, "persist") \/ Goto(p, "cache") \/ Goto(p, "hash")
             /\ UNCHANGED <<holder, cand, idx, misses, prov, askVars>>
    <3>1. [hash |-> ReadMisses(p, work[p].hash), body |-> work[p].body]
            \in CacheDoc
      BY <1>0 DEF ReadMisses, CacheDoc
    <3> QED
      BY <1>3, <2>2, <3>1 DEF Store, Goto, TypeOK, Steps, treeVars, diskVars,
                              askVars
  <2> QED BY <1>3, <2>1, <2>2 DEF Store
<1>4. CASE PersistRemap(p)
  <2>1. CASE ReturnTo(p, "memory", work[p].body)
    BY <1>0, <1>4, <2>1, ReturnToType DEF PersistRemap
  <2>2. CASE TakeLock(p, "hash") /\ UNCHANGED <<localVars, askVars>>
    BY <1>4, <2>2 DEF PersistRemap, TakeLock, Goto, TypeOK, Steps, treeVars,
                      diskVars, localVars, askVars
  <2> QED BY <1>4, <2>1, <2>2 DEF PersistRemap
<1>5. CASE MapRunIsNoop(p)
  <2>1. CASE ReturnTo(p, "written", NoFiles)
    BY <1>5, <2>1, DocumentTypes, ReturnToType DEF MapRunIsNoop
  <2>2. CASE ~ReturnTo(p, "written", NoFiles)
    BY <1>5, <2>2 DEF MapRunIsNoop, Goto, TypeOK, Steps, treeVars, diskVars,
                      localVars, askVars
  <2> QED BY <2>1, <2>2
<1> QED BY <1>1, <1>2, <1>3, <1>4, <1>5 DEF Map

LEMMA WriteType ==
    ASSUME TypeOK, NEW p \in Procs, Write(p)
    PROVE  TypeOK'
<1>0. /\ work[p].body \in [Files -> Hash] /\ work[p] \in CacheDoc
      /\ prov[p] \in Provenance
      /\ \A f \in Files : ReadFile(f) \in Hash
  BY ReadFileType DEF TypeOK, CacheDoc
<1>1. CASE HashFiles(p)
  <2>1. prov' \in [Procs -> Provenance]
    BY <1>0, <1>1, DocumentTypes DEF HashFiles, TypeOK, Provenance, Hash
  <2> QED
    BY <1>1, <2>1 DEF HashFiles, Goto, TypeOK, Steps, treeVars, diskVars,
                      askVars
<1>2. CASE StatFiles(p)
  <2>1. prov' \in [Procs -> Provenance]
    BY <1>0, <1>2 DEF StatFiles, TypeOK, Provenance, NoStat
  <2> QED
    BY <1>2, <2>1 DEF StatFiles, Goto, TypeOK, Steps, treeVars, diskVars,
                      askVars
<1>3. CASE WriteMapJson(p)
  <2>1. mapjson' \in MapDoc /\ writes' \in Nat
    BY <1>0, <1>3 DEF WriteMapJson, TypeOK, MapDoc
  <2> QED
    BY <1>3, <2>1 DEF WriteMapJson, Goto, TypeOK, Steps, treeVars, localVars,
                      askVars
<1>4. CASE WriteSidecar(p)
  <2>1. sidecar' \in SidecarDoc
    BY <1>0, <1>4 DEF WriteSidecar, TypeOK, MapDoc, SidecarDoc
  <2> QED
    BY <1>4, <2>1 DEF WriteSidecar, Goto, TypeOK, Steps, treeVars, localVars,
                      askVars
<1>5. CASE SaveCache(p)
  <2>1. cache' \in CacheDoc
    BY <1>0, <1>5 DEF SaveCache
  <2>2. /\ tree' = tree /\ mtime' = mtime /\ clock' = clock
        /\ mapjson' = mapjson /\ sidecar' = sidecar /\ writes' = writes
    BY <1>5 DEF SaveCache, treeVars
  <2>3. CASE Goto(p, "reload") /\ UNCHANGED <<holder, localVars, askVars>>
    BY <2>1, <2>2, <2>3 DEF Goto, TypeOK, Steps, localVars, askVars
  <2>4. ASSUME NEW how \in {"memory", "written"},
               NEW body \in [Files -> Hash], ReturnTo(p, how, body)
        PROVE  TypeOK'
    <3>1. /\ pc' \in [Procs -> Steps] /\ holder' \in SUBSET Procs
          /\ ans' \in [Procs -> Answers]
      BY <2>4 DEF TypeOK, ReturnTo, Steps, Answers
    <3>2. /\ cand' \in [Procs -> SidecarDoc] /\ idx' \in [Procs -> MapDoc]
          /\ misses' \in [Procs -> SUBSET Files]
          /\ work' \in [Procs -> CacheDoc] /\ prov' \in [Procs -> Provenance]
      BY <2>4, DocumentTypes DEF TypeOK, ReturnTo
    <3> QED
      BY <2>1, <2>2, <2>4, <3>1, <3>2 DEF TypeOK, ReturnTo, Answers
  <2> QED
    BY <1>0, <1>5, <2>3, <2>4, DocumentTypes DEF SaveCache
<1>6. CASE Reload(p)
  <2>1. mapjson.body \in [Files -> Hash]
    BY DEF TypeOK, MapDoc
  <2> QED BY <1>6, <2>1, DocumentTypes, ReturnToType DEF Reload
<1> QED BY <1>1, <1>2, <1>3, <1>4, <1>5, <1>6 DEF Write

LEMMA NextType ==
    ASSUME ConstantsAssumption, TypeOK, [Next]_vars
    PROVE  TypeOK'
<1>1. ASSUME NEW f \in Files, NEW c \in Contents \cup {Absent}, Edit(f, c)
      PROVE  TypeOK'
  BY <1>1, EditType
<1>2. ASSUME NEW p \in Procs, NEW k \in Kinds, StartRequest(p, k)
      PROVE  TypeOK'
  BY <1>2, StartRequestType DEF ConstantsAssumption
<1>3. ASSUME NEW p \in Procs, Proceed(p)
      PROVE  TypeOK'
  BY <1>3, JudgeType, LockType, MapType, WriteType DEF Proceed
<1>4. ASSUME NEW p \in Procs, Crash(p)
      PROVE  TypeOK'
  BY <1>4, DocumentTypes, ReturnToType DEF Crash
<1>5. CASE UNCHANGED vars
  BY <1>5 DEF vars, treeVars, diskVars, localVars, askVars, TypeOK
<1> QED BY <1>1, <1>2, <1>3, <1>4, <1>5 DEF Next

\* Every variable stays in its type.
THEOREM TypeCorrect == Spec => []TypeOK
<1>1. Init => TypeOK
  BY InitType, ConstantsAssumption
<1>2. TypeOK /\ [Next]_vars => TypeOK'
  BY NextType, ConstantsAssumption
<1> QED BY <1>1, <1>2, PTL DEF Spec

-----------------------------------------------------------------------------
\* The lock.

\* Only load_or_regen takes the lock before it extracts; a diff takes it
\* afterwards, so a holder that is still extracting is regenerating.
LockInv ==
    /\ TypeOK /\ LockDiscipline
    /\ \A p \in Procs : pc[p] = "lock" => kind[p] = "read"
    /\ \A p \in holder :
          pc[p] \in {"reuse", "extract", "store"} => kind[p] = "read"

\* A request that ends lets go of the lock.
LEMMA ReturnToLock ==
    ASSUME LockInv, NEW p \in Procs, NEW how, NEW body, ReturnTo(p, how, body)
    PROVE  /\ LockDiscipline'
           /\ \A q \in Procs : pc'[q] = "lock" => kind'[q] = "read"
           /\ \A q \in holder' :
                 pc'[q] \in {"reuse", "extract", "store"} => kind'[q] = "read"
  BY DEF LockInv, LockDiscipline, ReturnTo, TypeOK

\* A step that only moves p on, keeping the lock or taking it.
LEMMA GotoLock ==
    ASSUME LockInv, NEW p \in Procs, NEW s, Goto(p, s), kind' = kind,
           holder' = holder \/ (holder = {} /\ holder' = {p}),
           p \in holder' => s \in LockedSteps,
           s = "lock" => kind[p] = "read",
           p \in holder' /\ s \in {"reuse", "extract", "store"}
             => kind[p] = "read"
    PROVE  /\ LockDiscipline'
           /\ \A q \in Procs : pc'[q] = "lock" => kind'[q] = "read"
           /\ \A q \in holder' :
                 pc'[q] \in {"reuse", "extract", "store"} => kind'[q] = "read"
<1>1. \A q \in Procs : pc'[q] = IF q = p THEN s ELSE pc[q]
  BY DEF Goto, LockInv, TypeOK
<1>2. holder' \subseteq Procs
  BY DEF LockInv, TypeOK
<1> QED BY <1>1, <1>2 DEF LockInv, LockDiscipline

\* LockInv is inductive.
LEMMA LockStep ==
    ASSUME LockInv, [Next]_vars
    PROVE  LockInv'
<1> DEFINE Holds ==
      /\ LockDiscipline
      /\ \A q \in Procs : pc[q] = "lock" => kind[q] = "read"
      /\ \A q \in holder :
            pc[q] \in {"reuse", "extract", "store"} => kind[q] = "read"
<1>0. TypeOK'
  BY NextType, ConstantsAssumption DEF LockInv
<1> SUFFICES Holds'
  BY <1>0 DEF LockInv
<1>1. ASSUME NEW f \in Files, NEW c \in Contents \cup {Absent}, Edit(f, c)
      PROVE  Holds'
  BY <1>1 DEF Edit, LockInv, LockDiscipline
<1>2. ASSUME NEW p \in Procs, NEW k \in Kinds, StartRequest(p, k)
      PROVE  Holds'
  BY <1>2 DEF StartRequest, Goto, LockInv, LockDiscipline, LockedSteps, TypeOK
<1>3. ASSUME NEW p \in Procs, Crash(p)
      PROVE  Holds'
  BY <1>3, ReturnToLock DEF Crash
<1>4. CASE UNCHANGED vars
  BY <1>4 DEF vars, askVars, LockInv, LockDiscipline
<1>5. ASSUME NEW p \in Procs, Judge(p)
      PROVE  Holds'
  <2>1. pc[p] \notin LockedSteps
    BY <1>5 DEF Judge, ReadSidecar, JudgeSidecar, LoadMap, JudgeIndex,
                LockedSteps
  <2>2. p \notin holder
    BY <2>1 DEF LockInv, LockDiscipline
  <2>3. \/ \E how, body : ReturnTo(p, how, body)
        \/ \E s \in {"judge", "load", "recheck"} :
              Goto(p, s) /\ UNCHANGED <<holder, kind>>
        \/ OnStale(p)
    BY <1>5 DEF Judge, ReadSidecar, JudgeSidecar, LoadMap, JudgeIndex,
                askVars, localVars
  <2>4. CASE \E how, body : ReturnTo(p, how, body)
    BY <2>4, ReturnToLock
  <2>5. CASE \E s \in {"judge", "load", "recheck"} :
               Goto(p, s) /\ UNCHANGED <<holder, kind>>
    BY <2>2, <2>5, GotoLock
  <2>6. CASE OnStale(p)
    BY <2>2, <2>6, GotoLock DEF OnStale, askVars
  <2> QED BY <2>3, <2>4, <2>5, <2>6
<1>6. ASSUME NEW p \in Procs, Lock(p)
      PROVE  Holds'
  <2>1. CASE TryLock(p)
    <3>1. p \notin holder /\ kind[p] = "read"
      BY <2>1 DEF TryLock, LockInv, LockDiscipline, LockedSteps
    <3>2. CASE TakeLock(p, "reuse")
      BY <2>1, <3>1, <3>2, GotoLock
         DEF TryLock, TakeLock, askVars, LockedSteps
    <3>3. CASE Goto(p, "wait") /\ UNCHANGED holder
      BY <2>1, <3>1, <3>3, GotoLock DEF TryLock, askVars
    <3> QED BY <2>1, <3>2, <3>3 DEF TryLock
  <2>2. CASE WaitSucceeds(p)
    BY <2>2, ReturnToLock DEF WaitSucceeds
  <2>3. CASE WaitGivesUp(p)
    <3>1. p \notin holder
      BY <2>3 DEF WaitGivesUp, LockInv, LockDiscipline, LockedSteps
    <3> QED BY <2>3, <3>1, GotoLock DEF WaitGivesUp, askVars
  <2> QED BY <1>6, <2>1, <2>2, <2>3 DEF Lock
<1>7. ASSUME NEW p \in Procs, Map(p)
      PROVE  Holds'
  <2>1. CASE ReuseCache(p)
    <3>1. CASE ReturnTo(p, "failed", NoFiles)
      BY <3>1, ReturnToLock
    <3>2. CASE ~ReturnTo(p, "failed", NoFiles)
      <4>1. PICK s \in {"noop", "extract"} :
               Goto(p, s) /\ UNCHANGED <<holder, kind>> /\ pc[p] = "reuse"
        BY <2>1, <3>2 DEF ReuseCache, askVars
      <4> QED BY <4>1, GotoLock DEF LockInv, LockedSteps
    <3> QED BY <3>1, <3>2
  <2>2. CASE Extract(p)
    <3>1. Goto(p, "store") /\ UNCHANGED <<holder, kind>> /\ pc[p] = "extract"
      BY <2>2 DEF Extract, askVars
    <3> QED BY <3>1, GotoLock DEF LockInv, LockedSteps
  <2>3. CASE Store(p)
    <3>1. CASE ReturnTo(p, "memory", work[p].body)
      BY <3>1, ReturnToLock
    <3>2. CASE ~ReturnTo(p, "memory", work[p].body)
      <4>1. PICK s \in {"persist", "cache", "hash"} :
               /\ Goto(p, s) /\ UNCHANGED <<holder, kind>>
               /\ pc[p] = "store" /\ (s = "persist" => kind[p] # "read")
        BY <2>3, <3>2 DEF Store, askVars
      <4> QED BY <4>1, GotoLock DEF LockInv, LockedSteps
    <3> QED BY <3>1, <3>2
  <2>4. CASE PersistRemap(p)
    <3>1. CASE ReturnTo(p, "memory", work[p].body)
      BY <3>1, ReturnToLock
    <3>2. CASE TakeLock(p, "hash") /\ UNCHANGED <<localVars, askVars>>
      <4>1. p \notin holder
        BY <2>4 DEF PersistRemap, LockInv, LockDiscipline, LockedSteps
      <4> QED BY <3>2, <4>1, GotoLock DEF TakeLock, askVars, LockedSteps
    <3> QED BY <2>4, <3>1, <3>2 DEF PersistRemap
  <2>5. CASE MapRunIsNoop(p)
    <3>1. CASE ReturnTo(p, "written", NoFiles)
      BY <3>1, ReturnToLock
    <3>2. CASE ~ReturnTo(p, "written", NoFiles)
      <4>1. PICK s \in {"reload", "cache", "hash"} :
               Goto(p, s) /\ UNCHANGED <<holder, kind>>
        BY <2>5, <3>2 DEF MapRunIsNoop, askVars
      <4> QED BY <4>1, GotoLock DEF LockedSteps
    <3> QED BY <3>1, <3>2
  <2> QED BY <1>7, <2>1, <2>2, <2>3, <2>4, <2>5 DEF Map
<1>8. ASSUME NEW p \in Procs, Write(p)
      PROVE  Holds'
  <2>1. \/ \E how, body : ReturnTo(p, how, body)
        \/ \E s \in {"stat", "map", "side", "cache", "reload"} :
              Goto(p, s) /\ UNCHANGED <<holder, kind>>
    BY <1>8 DEF Write, HashFiles, StatFiles, WriteMapJson, WriteSidecar,
                SaveCache, Reload, askVars
  <2>2. CASE \E how, body : ReturnTo(p, how, body)
    BY <2>2, ReturnToLock
  <2>3. CASE \E s \in {"stat", "map", "side", "cache", "reload"} :
               Goto(p, s) /\ UNCHANGED <<holder, kind>>
    BY <2>3, GotoLock DEF LockedSteps
  <2> QED BY <2>1, <2>2, <2>3
<1> QED
  BY <1>1, <1>2, <1>3, <1>4, <1>5, <1>6, <1>7, <1>8 DEF Next, Proceed

\* At most one process is inside the locked section of a regen, and nobody
\* leaves that section with the lock, however often processes die, waits
\* expire or the primitive fails open.
THEOREM LockSafe == Spec => []LockDiscipline
<1>1. Init => LockInv
  BY InitType, ConstantsAssumption DEF Init, LockInv, LockDiscipline
<1>2. LockInv /\ [Next]_vars => LockInv'
  BY LockStep
<1>3. LockInv => LockDiscipline
  BY DEF LockInv
<1> QED BY <1>1, <1>2, <1>3, PTL DEF Spec

-----------------------------------------------------------------------------
\* The documents.

\* No signature in pr hides an edit, and none is still to be handed out.
GoodProv(pr) == HonestStat(pr) /\ \A f \in Files : pr.stat[f] <= clock

GoodMap(d) == d.body = d.prov.hash /\ GoodProv(d.prov)

DocsGood ==
    /\ \A f \in Files : mtime[f] <= clock
    /\ GoodMap(mapjson) /\ GoodProv(sidecar.prov)
    /\ cache.body = cache.hash

\* What a regen has read so far is what the tree still holds, until the
\* stamp is taken; after that the stamp speaks for it.
WorkGood(p) ==
    /\ pc[p] \in {"extract", "store"} =>
         /\ misses[p] \subseteq Present
         /\ \A f \in Files \ misses[p] :
               work[p].body[f] = tree[f] /\ work[p].hash[f] = tree[f]
    /\ pc[p] \in {"store", "persist", "noop", "hash", "stat"} =>
         \A f \in Files : work[p].body[f] = tree[f]
    /\ pc[p] \in {"persist", "noop", "hash", "stat", "map", "side", "cache"}
         => work[p].body = work[p].hash
    /\ pc[p] \in {"stat", "map", "side"} => prov[p].hash = work[p].body
    /\ pc[p] \in {"map", "side"} => GoodProv(prov[p])
    /\ pc[p] \in {"map", "side", "cache"} => Current(p, work[p].body)

\* What a judge holds on to is good, and once judged fresh it is current.
JudgeGood(p) ==
    /\ GoodProv(cand[p].prov) /\ GoodMap(idx[p])
    /\ pc[p] # "idle" => \A f \in Files : tree[f] \in seen[p][f]
    /\ pc[p] = "load" /\ cand[p].sig # 0 => Current(p, cand[p].prov.hash)

AnswerGood(p) ==
    /\ ans[p].how = "judged" /\ kind[p] # "diff" => Current(p, ans[p].body)
    /\ ans[p].how = "memory" => Current(p, ans[p].body)

ProcGood(p) == WorkGood(p) /\ JudgeGood(p) /\ AnswerGood(p)

SafetyInv == TypeOK /\ DocsGood /\ \A p \in Procs : ProcGood(p)
-----------------------------------------------------------------------------
\* A step in which q takes no part.
Untouched(q) ==
    /\ pc'[q] = pc[q] /\ kind'[q] = kind[q] /\ cand'[q] = cand[q]
    /\ idx'[q] = idx[q] /\ misses'[q] = misses[q] /\ work'[q] = work[q]
    /\ prov'[q] = prov[q] /\ ans'[q] = ans[q] /\ seen'[q] = seen[q]

\* A provenance without masked edits that is judged fresh is the tree's.
LEMMA FreshIsCurrent ==
    ASSUME TypeOK, NEW pr \in Provenance, GoodProv(pr), Fresh(pr)
    PROVE  \A f \in Files : pr.hash[f] = tree[f]
  BY DEF TypeOK, Provenance, GoodProv, HonestStat, Fresh, Present

\* A provenance that records nothing vouches for nothing.
LEMMA EmptyGood == TypeOK => GoodProv(EmptyProv) /\ GoodMap(NoMap)
  BY DEF TypeOK, GoodProv, GoodMap, HonestStat, EmptyProv, NoMap, NoStat

\* A process that takes no part in a step keeps what it has.
LEMMA UntouchedGood ==
    ASSUME NEW q \in Procs, ProcGood(q), UNCHANGED treeVars, Untouched(q)
    PROVE  ProcGood(q)'
<1>1. WorkGood(q)'
  BY DEF ProcGood, WorkGood, Untouched, treeVars, Present, GoodProv,
         HonestStat, Current
<1>2. JudgeGood(q)'
  BY DEF ProcGood, JudgeGood, Untouched, treeVars, GoodProv, GoodMap,
         HonestStat, Current
<1>3. AnswerGood(q)'
  BY DEF ProcGood, AnswerGood, Untouched, Current
<1> QED BY <1>1, <1>2, <1>3 DEF ProcGood

\* So do the documents nobody writes.
LEMMA DocsStay ==
    ASSUME DocsGood, UNCHANGED <<treeVars, diskVars>>
    PROVE  DocsGood'
  BY DEF DocsGood, GoodMap, GoodProv, HonestStat, treeVars, diskVars

\* A step of p on an unchanging tree.
LEMMA StepGood ==
    ASSUME SafetyInv, NEW p \in Procs, UNCHANGED treeVars, ProcGood(p)',
           \A q \in Procs \ {p} : Untouched(q)
    PROVE  \A q \in Procs : ProcGood(q)'
  BY UntouchedGood DEF SafetyInv, ProcGood

\* Giving an answer that is current, or one that claims nothing.
LEMMA ReturnToGood ==
    ASSUME SafetyInv, NEW p \in Procs, NEW how, NEW body,
           ReturnTo(p, how, body), UNCHANGED treeVars,
           \/ how \notin {"judged", "memory"}
           \/ how = "judged" /\ kind[p] = "diff"
           \/ Current(p, body)
    PROVE  \A q \in Procs : ProcGood(q)'
<1>1. /\ pc'[p] = "idle" /\ kind'[p] = kind[p] /\ seen'[p] = seen[p]
      /\ ans'[p] = [how |-> how, body |-> body]
      /\ cand'[p] = NoSidecar /\ idx'[p] = NoMap
  BY DEF ReturnTo, SafetyInv, TypeOK
<1>2. WorkGood(p)'
  BY <1>1 DEF WorkGood
<1>3. JudgeGood(p)'
  BY <1>1, EmptyGood DEF JudgeGood, NoSidecar, SafetyInv, GoodProv, GoodMap,
                         HonestStat, treeVars
<1>4. AnswerGood(p)'
  BY <1>1 DEF AnswerGood, Current
<1>5. \A q \in Procs \ {p} : Untouched(q)
  BY DEF ReturnTo, SafetyInv, TypeOK, Untouched
<1> QED BY <1>2, <1>3, <1>4, <1>5, StepGood DEF ProcGood

\* The tree moves under everybody, but under nobody's unstamped reads.
LEMMA EditGood ==
    ASSUME SafetyInv, EditsDuringRegen = FALSE,
           NEW f \in Files, NEW c \in Contents \cup {Absent}, Edit(f, c)
    PROVE  DocsGood' /\ \A q \in Procs : ProcGood(q)'
<1>1. /\ tree' = [tree EXCEPT ![f] = c]
      /\ mtime' = [mtime EXCEPT ![f] = clock + 1]
      /\ clock' = clock + 1 /\ clock \in Nat
      /\ \A g \in Files : mtime[g] <= clock /\ mtime[g] \in Nat
      /\ DOMAIN tree = Files /\ DOMAIN mtime = Files
  BY DEF Edit, SafetyInv, DocsGood, TypeOK
<1>2. ASSUME NEW pr \in Provenance, GoodProv(pr)
      PROVE  GoodProv(pr)'
  <2>1. \A g \in Files : pr.stat[g] \in Nat /\ pr.stat[g] <= clock
    BY <1>2 DEF Provenance, GoodProv
  <2> QED BY <1>1, <1>2, <2>1 DEF GoodProv, HonestStat
<1>3. DocsGood'
  <2>1. \A g \in Files : mtime'[g] <= clock'
    BY <1>1
  <2>2. /\ mapjson' = mapjson /\ sidecar' = sidecar /\ cache' = cache
        /\ mapjson.prov \in Provenance /\ sidecar.prov \in Provenance
    BY DEF Edit, diskVars, SafetyInv, TypeOK, MapDoc, SidecarDoc
  <2>3. GoodProv(mapjson.prov)' /\ GoodProv(sidecar.prov)'
    BY <1>2, <2>2 DEF SafetyInv, DocsGood, GoodMap, GoodProv, HonestStat
  <2> QED BY <2>1, <2>2, <2>3 DEF SafetyInv, DocsGood, GoodMap
<1>4. ASSUME NEW q \in Procs
      PROVE  ProcGood(q)'
  <2>1. /\ pc'[q] = pc[q] /\ kind'[q] = kind[q] /\ cand'[q] = cand[q]
        /\ idx'[q] = idx[q] /\ misses'[q] = misses[q] /\ work'[q] = work[q]
        /\ prov'[q] = prov[q] /\ ans'[q] = ans[q]
        /\ ProcGood(q) /\ pc[q] \notin Window
        /\ cand[q].prov \in Provenance /\ idx[q].prov \in Provenance
        /\ prov[q] \in Provenance
    BY <1>4 DEF Edit, localVars, SafetyInv, TypeOK, SidecarDoc, MapDoc
  <2>2. \A g \in Files : seen[q][g] \subseteq seen'[q][g]
    BY DEF Edit, SafetyInv, TypeOK
  <2>3. pc[q] # "idle" => c \in seen'[q][f]
    BY DEF Edit, SafetyInv, TypeOK
  <2>4. WorkGood(q)'
    <3>1. pc[q] \in {"map", "side"} => GoodProv(prov[q])'
      BY <1>2, <2>1 DEF ProcGood, WorkGood, GoodProv, HonestStat
    <3> QED BY <2>1, <2>2, <3>1 DEF ProcGood, WorkGood, Window, Current
  <2>5. JudgeGood(q)'
    <3>1. GoodProv(cand[q].prov)' /\ GoodMap(idx[q])'
      BY <1>2, <2>1 DEF ProcGood, JudgeGood, GoodMap, GoodProv, HonestStat
    <3>2. pc[q] # "idle" => \A g \in Files : tree'[g] \in seen'[q][g]
      BY <1>1, <2>1, <2>2, <2>3 DEF ProcGood, JudgeGood
    <3> QED BY <2>1, <2>2, <3>1, <3>2 DEF ProcGood, JudgeGood, Current
  <2>6. AnswerGood(q)'
    BY <2>1, <2>2 DEF ProcGood, AnswerGood, Current
  <2> QED BY <2>4, <2>5, <2>6 DEF ProcGood
<1> QED BY <1>3, <1>4

\* A request starts with nothing read and nothing answered.
LEMMA StartRequestGood ==
    ASSUME SafetyInv, NEW p \in Procs, NEW k \in RequestKinds,
           StartRequest(p, k)
    PROVE  DocsGood' /\ \A q \in Procs : ProcGood(q)'
<1>1. /\ pc'[p] \in {"reuse", "sidecar"} /\ cand'[p] = cand[p]
      /\ idx'[p] = idx[p] /\ ans'[p] = NoAnswer
      /\ seen'[p] = [f \in Files |-> {tree[f]}] /\ UNCHANGED treeVars
  BY DEF StartRequest, Goto, localVars, SafetyInv, TypeOK
<1>2. WorkGood(p)' /\ AnswerGood(p)'
  BY <1>1 DEF WorkGood, AnswerGood, NoAnswer
<1>3. JudgeGood(p)'
  BY <1>1 DEF JudgeGood, SafetyInv, ProcGood, GoodProv, GoodMap, HonestStat,
              treeVars
<1>4. \A q \in Procs \ {p} : Untouched(q)
  BY DEF StartRequest, Goto, localVars, SafetyInv, TypeOK, Untouched
<1>5. DocsGood'
  BY DocsStay DEF StartRequest, SafetyInv
<1> QED BY <1>1, <1>2, <1>3, <1>4, <1>5, StepGood DEF ProcGood

\* A step of p on an unchanging tree that gives no answer keeps everything
\* but the documents and p's work, and what it judges by.
Advances(p, s) ==
    /\ pc[p] # "idle" /\ Goto(p, s)
    /\ UNCHANGED <<treeVars, askVars>>

\* A step that gives no answer and judges nothing.
LEMMA AdvanceGood ==
    ASSUME SafetyInv, NEW p \in Procs, NEW s \in Steps \ {"idle", "load"},
           Advances(p, s), UNCHANGED <<cand, idx>>,
           \A q \in Procs \ {p} : /\ misses'[q] = misses[q]
                                  /\ work'[q] = work[q] /\ prov'[q] = prov[q],
           WorkGood(p)'
    PROVE  \A q \in Procs : ProcGood(q)'
<1>1. /\ pc'[p] = s /\ cand'[p] = cand[p] /\ idx'[p] = idx[p]
      /\ ans'[p] = ans[p] /\ kind'[p] = kind[p] /\ seen'[p] = seen[p]
      /\ pc[p] # "idle" /\ UNCHANGED treeVars
  BY DEF Advances, Goto, askVars, SafetyInv, TypeOK
<1>2. JudgeGood(p)'
  BY <1>1 DEF JudgeGood, SafetyInv, ProcGood, GoodProv, GoodMap, HonestStat,
              treeVars
<1>3. AnswerGood(p)'
  BY <1>1 DEF AnswerGood, SafetyInv, ProcGood, Current
<1>4. \A q \in Procs \ {p} : Untouched(q)
  BY DEF Advances, Goto, askVars, SafetyInv, TypeOK, Untouched
<1> QED BY <1>1, <1>2, <1>3, <1>4, StepGood DEF ProcGood

\* A stale map sends its reader off to re-map, holding nothing.
LEMMA OnStaleGood ==
    ASSUME SafetyInv, NEW p \in Procs, OnStale(p), UNCHANGED idx,
           UNCHANGED treeVars, pc[p] # "idle"
    PROVE  \A q \in Procs : ProcGood(q)'
<1>1. PICK s \in {"lock", "reuse"} :
         Goto(p, s) /\ UNCHANGED <<cand, misses, work, prov, askVars>>
  BY DEF OnStale
<1>2. WorkGood(p)'
  BY <1>1 DEF WorkGood, Goto, SafetyInv, TypeOK
<1> QED BY <1>1, <1>2, AdvanceGood DEF Advances, Steps

\* Judging, one case per action: what is found fresh is the tree.
LEMMA JudgeSafe ==
    ASSUME SafetyInv, NEW p \in Procs, Judge(p)
    PROVE  \A q \in Procs : ProcGood(q)'
<1>0. /\ mapjson.prov \in Provenance /\ cand[p].prov \in Provenance
      /\ idx[p].prov \in Provenance /\ ProcGood(p) /\ DocsGood
      /\ (pc[p] # "idle" => \A f \in Files : tree[f] \in seen[p][f])
      /\ pc \in [Procs -> Steps] /\ cand \in [Procs -> SidecarDoc]
      /\ idx \in [Procs -> MapDoc]
  BY DEF SafetyInv, ProcGood, JudgeGood, TypeOK, MapDoc, SidecarDoc
<1>1. CASE ReadSidecar(p)
  <2>1. PICK doc \in {sidecar, NoSidecar}, s \in {"judge", "load"} :
           /\ cand' = [cand EXCEPT ![p] = doc] /\ Goto(p, s)
           /\ (s = "load" => doc.sig = 0)
    BY <1>1 DEF ReadSidecar, NoSidecar
  <2>2. /\ pc'[p] = s /\ cand'[p] = doc /\ idx'[p] = idx[p]
        /\ ans'[p] = ans[p] /\ kind'[p] = kind[p] /\ seen'[p] = seen[p]
        /\ pc[p] # "idle" /\ UNCHANGED treeVars
    BY <1>0, <1>1, <2>1 DEF ReadSidecar, Goto, askVars
  <2>3. GoodProv(doc.prov)
    BY <1>0, EmptyGood DEF DocsGood, NoSidecar, SafetyInv
  <2>4. WorkGood(p)' /\ AnswerGood(p)'
    BY <1>0, <2>2 DEF WorkGood, AnswerGood, ProcGood, Current
  <2>5. JudgeGood(p)'
    BY <1>0, <2>1, <2>2, <2>3 DEF ProcGood, JudgeGood, GoodProv, GoodMap,
                                  HonestStat, treeVars
  <2>6. \A q \in Procs \ {p} : Untouched(q)
    BY <1>0, <1>1, <2>1 DEF ReadSidecar, Goto, askVars, Untouched
  <2> QED BY <2>2, <2>4, <2>5, <2>6, StepGood DEF ProcGood
<1>2. CASE JudgeSidecar(p)
  <2>1. CASE Fresh(cand[p].prov) /\ Goto(p, "load")
               /\ UNCHANGED <<holder, localVars, askVars>>
    <3>1. /\ pc'[p] = "load" /\ cand'[p] = cand[p] /\ idx'[p] = idx[p]
          /\ ans'[p] = ans[p] /\ kind'[p] = kind[p] /\ seen'[p] = seen[p]
          /\ pc[p] # "idle" /\ UNCHANGED treeVars
      BY <1>0, <1>2, <2>1 DEF JudgeSidecar, Goto, askVars, localVars
    <3>2. \A f \in Files : cand[p].prov.hash[f] = tree[f]
      BY <1>0, <2>1, FreshIsCurrent DEF SafetyInv, ProcGood, JudgeGood
    <3>3. WorkGood(p)' /\ AnswerGood(p)'
      BY <1>0, <3>1 DEF WorkGood, AnswerGood, ProcGood, Current
    <3>4. JudgeGood(p)'
      BY <1>0, <3>1, <3>2 DEF ProcGood, JudgeGood, GoodProv, GoodMap,
                              HonestStat, treeVars, Current
    <3>5. \A q \in Procs \ {p} : Untouched(q)
      BY <1>0, <2>1 DEF Goto, localVars, askVars, Untouched
    <3> QED BY <3>1, <3>3, <3>4, <3>5, StepGood DEF ProcGood
  <2>2. CASE OnStale(p) /\ UNCHANGED idx
    BY <1>2, <2>2, OnStaleGood DEF JudgeSidecar
  <2>3. CASE ReturnTo(p, "failed", NoFiles)
    BY <1>2, <2>3, ReturnToGood DEF JudgeSidecar
  <2> QED BY <1>2, <2>1, <2>2, <2>3 DEF JudgeSidecar
<1>3. CASE LoadMap(p)
  <2>1. CASE Vouched(p) /\ ReturnTo(p, "judged", mapjson.body)
    <3>1. kind[p] = "diff" \/ Current(p, mapjson.body)
      BY <1>0, <1>3, <2>1 DEF LoadMap, Vouched, DocsGood, GoodMap, ProcGood,
                              JudgeGood
    <3> QED BY <1>3, <2>1, <3>1, ReturnToGood DEF LoadMap
  <2>2. CASE /\ idx' = [idx EXCEPT ![p] = mapjson] /\ Goto(p, "recheck")
             /\ UNCHANGED <<holder, cand, misses, work, prov, askVars>>
    <3>1. /\ pc'[p] = "recheck" /\ cand'[p] = cand[p] /\ idx'[p] = mapjson
          /\ ans'[p] = ans[p] /\ kind'[p] = kind[p] /\ seen'[p] = seen[p]
          /\ pc[p] # "idle" /\ UNCHANGED treeVars
      BY <1>0, <1>3, <2>2 DEF LoadMap, Goto, askVars
    <3>2. WorkGood(p)' /\ AnswerGood(p)'
      BY <1>0, <3>1 DEF WorkGood, AnswerGood, ProcGood, Current
    <3>3. JudgeGood(p)'
      BY <1>0, <3>1 DEF ProcGood, JudgeGood, GoodProv, GoodMap, HonestStat,
                        treeVars, DocsGood
    <3>4. \A q \in Procs \ {p} : Untouched(q)
      BY <1>0, <2>2 DEF Goto, askVars, Untouched
    <3> QED BY <3>1, <3>2, <3>3, <3>4, StepGood DEF ProcGood
  <2>3. CASE OnStale(p) /\ UNCHANGED idx
    BY <1>3, <2>3, OnStaleGood DEF LoadMap
  <2>4. CASE ReturnTo(p, "failed", NoFiles)
    BY <1>3, <2>4, ReturnToGood DEF LoadMap
  <2> QED BY <1>3, <2>1, <2>2, <2>3, <2>4 DEF LoadMap
<1>4. CASE JudgeIndex(p)
  <2>1. CASE Fresh(idx[p].prov) /\ ReturnTo(p, "judged", idx[p].body)
    <3>1. \A f \in Files : idx[p].prov.hash[f] = tree[f]
      BY <1>0, <2>1, FreshIsCurrent
         DEF SafetyInv, ProcGood, JudgeGood, GoodMap
    <3>2. Current(p, idx[p].body)
      BY <1>0, <1>4, <3>1 DEF JudgeIndex, ProcGood, JudgeGood, GoodMap,
                              Current
    <3> QED BY <1>4, <2>1, <3>2, ReturnToGood DEF JudgeIndex
  <2>2. CASE OnStale(p) /\ UNCHANGED idx
    BY <1>4, <2>2, OnStaleGood DEF JudgeIndex
  <2>3. CASE ReturnTo(p, "failed", NoFiles)
    BY <1>4, <2>3, ReturnToGood DEF JudgeIndex
  <2> QED BY <1>4, <2>1, <2>2, <2>3 DEF JudgeIndex
<1> QED BY <1>1, <1>2, <1>3, <1>4 DEF Judge

\* Waiting for the lock, and the map another process left fresh.
LEMMA LockSteps ==
    ASSUME SafetyInv, NEW p \in Procs, Lock(p)
    PROVE  \A q \in Procs : ProcGood(q)'
<1>1. CASE TryLock(p) \/ WaitGivesUp(p)
  <2>1. PICK s \in {"reuse", "wait"} : Advances(p, s) /\ UNCHANGED localVars
    BY <1>1 DEF TryLock, WaitGivesUp, TakeLock, Advances
  <2>2. WorkGood(p)'
    BY <2>1 DEF Advances, Goto, WorkGood, SafetyInv, TypeOK
  <2> QED BY <2>1, <2>2, AdvanceGood DEF localVars, Steps
<1>2. CASE WaitSucceeds(p)
  <2>1. \A f \in Files : mapjson.prov.hash[f] = tree[f]
    BY <1>2, FreshIsCurrent
       DEF WaitSucceeds, SafetyInv, DocsGood, GoodMap, TypeOK, MapDoc
  <2>2. Current(p, mapjson.body)
    BY <1>2, <2>1 DEF WaitSucceeds, SafetyInv, DocsGood, GoodMap, ProcGood,
                      JudgeGood, Current
  <2> QED BY <1>2, <2>2, ReturnToGood DEF WaitSucceeds
<1> QED BY <1>1, <1>2 DEF Lock

\* Extraction reads the tree and the cache, neither of which lies.
LEMMA MapSteps ==
    ASSUME SafetyInv, NEW p \in Procs, Map(p)
    PROVE  \A q \in Procs : ProcGood(q)'
<1>0. /\ ProcGood(p) /\ DocsGood /\ pc \in [Procs -> Steps]
      /\ (pc[p] # "idle" => \A f \in Files : tree[f] \in seen[p][f])
      /\ misses \in [Procs -> SUBSET Files] /\ work \in [Procs -> CacheDoc]
  BY DEF SafetyInv, ProcGood, JudgeGood, TypeOK
<1>1. CASE ReuseCache(p)
  <2>1. CASE ReturnTo(p, "failed", NoFiles)
    BY <1>1, <2>1, ReturnToGood DEF ReuseCache
  <2>2. CASE /\ misses' = [misses EXCEPT ![p] = Present \ Hits]
             /\ work' = [work EXCEPT ![p] = Reused]
             /\ Goto(p, IF /\ kind[p] # "diff"
                           /\ Present = Hits /\ SamePaths
                        THEN "noop" ELSE "extract")
             /\ UNCHANGED <<holder, cand, idx, prov, askVars>>
    <3>1. PICK s \in {"noop", "extract"} :
             Goto(p, s) /\ (s = "noop" => Present = Hits)
      BY <2>2
    <3>2. Advances(p, s)
      BY <1>1, <2>2, <3>1 DEF ReuseCache, Advances
    <3>3. /\ pc'[p] = s /\ misses'[p] = Present \ Hits
          /\ work'[p] = Reused /\ tree' = tree
      BY <1>0, <1>1, <2>2, <3>1 DEF ReuseCache, Goto, treeVars
    <3>4. /\ Present \ Hits \subseteq Present
          /\ \A f \in Files \ (Present \ Hits) :
               Reused.body[f] = tree[f] /\ Reused.hash[f] = tree[f]
      BY <1>0 DEF Present, Hits, Reused, DocsGood
    <3>5. Present = Hits => Reused.body = Reused.hash
      BY <1>0 DEF Reused, DocsGood
    <3>6. WorkGood(p)'
      BY <3>1, <3>3, <3>4, <3>5 DEF WorkGood, Present
    <3>7. \A q \in Procs \ {p} : /\ misses'[q] = misses[q]
                                 /\ work'[q] = work[q] /\ prov'[q] = prov[q]
      BY <1>0, <2>2
    <3> QED BY <2>2, <3>2, <3>6, <3>7, AdvanceGood DEF Steps
  <2> QED BY <1>1, <2>1, <2>2 DEF ReuseCache
<1>2. CASE Extract(p)
  <2>1. Advances(p, "store")
    BY <1>2 DEF Extract, Advances
  <2>2. /\ pc'[p] = "store" /\ misses'[p] = misses[p] /\ tree' = tree
        /\ work'[p] = [hash |-> work[p].hash,
                       body |-> ReadMisses(p, work[p].body)]
    BY <1>0, <1>2 DEF Extract, Goto, treeVars
  <2>3. \A f \in Files : ReadMisses(p, work[p].body)[f] = tree[f]
    BY <1>0, <1>2 DEF Extract, ProcGood, WorkGood, ReadMisses, ReadFile,
                      Present
  <2>4. WorkGood(p)'
    BY <1>0, <1>2, <2>2, <2>3 DEF Extract, ProcGood, WorkGood, Present
  <2>5. \A q \in Procs \ {p} : /\ misses'[q] = misses[q]
                               /\ work'[q] = work[q] /\ prov'[q] = prov[q]
    BY <1>0, <1>2 DEF Extract
  <2> QED BY <1>2, <2>1, <2>4, <2>5, AdvanceGood DEF Extract, Steps
<1>3. CASE Store(p)
  <2>0. \A f \in Files : work[p].body[f] = tree[f]
    BY <1>0, <1>3 DEF Store, ProcGood, WorkGood
  <2>1. CASE ReturnTo(p, "memory", work[p].body)
    <3>1. Current(p, work[p].body)
      BY <1>0, <1>3, <2>0 DEF Store, Current
    <3> QED BY <1>3, <2>1, <3>1, ReturnToGood DEF Store
  <2>2. CASE ~ReturnTo(p, "memory", work[p].body)
    <3>1. PICK s \in {"persist", "cache", "hash"} :
             /\ Goto(p, s) /\ pc[p] = "store"
             /\ work' = [work EXCEPT ![p] =
                           [hash |-> ReadMisses(p, work[p].hash),
                            body |-> work[p].body]]
             /\ UNCHANGED <<holder, cand, idx, misses, prov, askVars>>
             /\ UNCHANGED treeVars
      BY <1>3, <2>2 DEF Store
    <3>2. Advances(p, s)
      BY <3>1 DEF Advances
    <3>3. /\ pc'[p] = s /\ tree' = tree /\ seen' = seen
          /\ work'[p] = [hash |-> ReadMisses(p, work[p].hash),
                         body |-> work[p].body]
      BY <1>0, <3>1 DEF Goto, treeVars, askVars
    <3>4. \A f \in Files : ReadMisses(p, work[p].hash)[f] = tree[f]
      BY <1>0, <3>1 DEF ProcGood, WorkGood, ReadMisses, ReadFile, Present
    <3>5. ReadMisses(p, work[p].hash) = work[p].body
      BY <1>0, <2>0, <3>4 DEF ReadMisses, CacheDoc
    <3>6. WorkGood(p)'
      BY <1>0, <2>0, <3>1, <3>3, <3>5 DEF WorkGood, Current
    <3>7. \A q \in Procs \ {p} : /\ misses'[q] = misses[q]
                                 /\ work'[q] = work[q] /\ prov'[q] = prov[q]
      BY <1>0, <3>1
    <3> QED BY <3>1, <3>2, <3>6, <3>7, AdvanceGood DEF Steps
  <2> QED BY <2>1, <2>2
<1>4. CASE PersistRemap(p)
  <2>1. CASE ReturnTo(p, "memory", work[p].body)
    <3>1. Current(p, work[p].body)
      BY <1>0, <1>4 DEF PersistRemap, ProcGood, WorkGood, Current
    <3> QED BY <1>4, <2>1, <3>1, ReturnToGood DEF PersistRemap
  <2>2. CASE TakeLock(p, "hash") /\ UNCHANGED <<localVars, askVars>>
    <3>1. Advances(p, "hash")
      BY <1>4, <2>2 DEF PersistRemap, TakeLock, Advances
    <3>2. /\ pc'[p] = "hash" /\ tree' = tree /\ work' = work
          /\ misses' = misses /\ prov' = prov
      BY <1>0, <3>1, <2>2 DEF Advances, Goto, treeVars, localVars
    <3>3. WorkGood(p)'
      BY <1>0, <1>4, <3>2 DEF PersistRemap, ProcGood, WorkGood
    <3> QED BY <2>2, <3>1, <3>2, <3>3, AdvanceGood DEF Steps, localVars
  <2> QED BY <1>4, <2>1, <2>2 DEF PersistRemap
<1>5. CASE MapRunIsNoop(p)
  <2>1. CASE ReturnTo(p, "written", NoFiles)
    BY <1>5, <2>1, ReturnToGood DEF MapRunIsNoop
  <2>2. CASE ~ReturnTo(p, "written", NoFiles)
    <3>1. PICK s \in {"reload", "cache", "hash"} :
             /\ Goto(p, s) /\ pc[p] = "noop"
             /\ UNCHANGED <<treeVars, localVars, askVars>>
      BY <1>5, <2>2 DEF MapRunIsNoop
    <3>2. Advances(p, s)
      BY <3>1 DEF Advances
    <3>3. /\ pc'[p] = s /\ tree' = tree /\ work' = work /\ seen' = seen
          /\ misses' = misses /\ prov' = prov
      BY <1>0, <3>1 DEF Goto, treeVars, localVars, askVars
    <3>4. WorkGood(p)'
      BY <1>0, <3>1, <3>3 DEF ProcGood, WorkGood, Current
    <3> QED BY <3>1, <3>2, <3>3, <3>4, AdvanceGood DEF Steps, localVars
  <2> QED BY <2>1, <2>2
<1> QED BY <1>1, <1>2, <1>3, <1>4, <1>5 DEF Map

\* What was read and stamped in one window is what gets written.
LEMMA WriteSteps ==
    ASSUME SafetyInv, NEW p \in Procs, Write(p)
    PROVE  DocsGood' /\ \A q \in Procs : ProcGood(q)'
<1>0. /\ ProcGood(p) /\ DocsGood /\ pc \in [Procs -> Steps]
      /\ (pc[p] # "idle" => \A f \in Files : tree[f] \in seen[p][f])
      /\ work \in [Procs -> CacheDoc] /\ prov \in [Procs -> Provenance]
      /\ mtime \in [Files -> Nat \ {NoStat}] /\ clock \in Nat
  BY DEF SafetyInv, ProcGood, JudgeGood, TypeOK
<1>1. CASE HashFiles(p)
  <2>1. Advances(p, "stat")
    BY <1>1 DEF HashFiles, Advances
  <2>2. /\ pc'[p] = "stat" /\ tree' = tree /\ work' = work
        /\ prov'[p].hash = [f \in Files |->
                              IF work[p].body[f] = Absent THEN Absent
                              ELSE ReadFile(f)]
    BY <1>0, <1>1 DEF HashFiles, Goto, treeVars
  <2>3. prov'[p].hash = work[p].body
    BY <1>0, <1>1, <2>2 DEF HashFiles, ProcGood, WorkGood, ReadFile, CacheDoc
  <2>4. WorkGood(p)'
    BY <1>0, <1>1, <2>2, <2>3 DEF HashFiles, ProcGood, WorkGood
  <2>5. \A q \in Procs \ {p} : prov'[q] = prov[q]
    BY <1>0, <1>1 DEF HashFiles
  <2> QED
    BY <1>0, <1>1, <2>1, <2>4, <2>5, AdvanceGood, DocsStay
       DEF HashFiles, Steps
<1>2. CASE StatFiles(p)
  <2>1. Advances(p, "map")
    BY <1>2 DEF StatFiles, Advances
  <2>2. /\ pc'[p] = "map" /\ tree' = tree /\ work' = work /\ seen' = seen
        /\ mtime' = mtime /\ clock' = clock
        /\ prov'[p].hash = prov[p].hash
        /\ \A f \in Files : prov'[p].stat[f] \in {NoStat, mtime[f]}
    BY <1>0, <1>2 DEF StatFiles, Goto, treeVars, askVars
  <2>3. /\ \A f \in Files : work[p].body[f] = tree[f]
        /\ prov[p].hash = work[p].body /\ work[p].body = work[p].hash
    BY <1>0, <1>2 DEF StatFiles, ProcGood, WorkGood
  <2>4. GoodProv(prov[p])'
    BY <1>0, <2>2, <2>3 DEF GoodProv, HonestStat, DocsGood, NoStat
  <2>5. WorkGood(p)'
    BY <1>0, <1>2, <2>2, <2>3, <2>4 DEF StatFiles, WorkGood, Current
  <2>6. \A q \in Procs \ {p} : prov'[q] = prov[q]
    BY <1>0, <1>2 DEF StatFiles
  <2> QED
    BY <1>0, <1>2, <2>1, <2>5, <2>6, AdvanceGood, DocsStay
       DEF StatFiles, Steps
<1>3. CASE WriteMapJson(p)
  <2>1. Advances(p, "side")
    BY <1>3 DEF WriteMapJson, Advances
  <2>2. /\ work[p].body = prov[p].hash /\ GoodProv(prov[p])
    BY <1>0, <1>3 DEF WriteMapJson, ProcGood, WorkGood
  <2>3. DocsGood'
    BY <1>0, <1>3, <2>2 DEF WriteMapJson, DocsGood, GoodMap, GoodProv,
                            HonestStat, treeVars
  <2>4. WorkGood(p)'
    BY <1>0, <1>3 DEF WriteMapJson, ProcGood, WorkGood, Goto, Current,
                      GoodProv, HonestStat, localVars, askVars, treeVars
  <2> QED
    BY <1>3, <2>1, <2>3, <2>4, AdvanceGood DEF WriteMapJson, localVars, Steps
<1>4. CASE WriteSidecar(p)
  <2>1. Advances(p, "cache")
    BY <1>4 DEF WriteSidecar, Advances
  <2>2. DocsGood'
    BY <1>0, <1>4 DEF WriteSidecar, ProcGood, WorkGood, DocsGood, GoodMap,
                      GoodProv, HonestStat, treeVars
  <2>3. WorkGood(p)'
    BY <1>0, <1>4 DEF WriteSidecar, ProcGood, WorkGood, Goto, Current,
                      localVars, askVars
  <2> QED
    BY <1>4, <2>1, <2>2, <2>3, AdvanceGood DEF WriteSidecar, localVars, Steps
<1>5. CASE SaveCache(p)
  <2>1. DocsGood'
    BY <1>0, <1>5 DEF SaveCache, ProcGood, WorkGood, DocsGood, GoodMap,
                      GoodProv, HonestStat, treeVars
  <2>2. CASE Goto(p, "reload") /\ UNCHANGED <<holder, localVars, askVars>>
    <3>1. Advances(p, "reload")
      BY <1>5, <2>2 DEF SaveCache, Advances
    <3>2. WorkGood(p)'
      BY <1>0, <2>2 DEF WorkGood, Goto
    <3> QED BY <2>1, <2>2, <3>1, <3>2, AdvanceGood DEF localVars, Steps
  <2>3. CASE ReturnTo(p, "memory", work[p].body)
    <3>1. Current(p, work[p].body)
      BY <1>0, <1>5 DEF SaveCache, ProcGood, WorkGood
    <3> QED BY <1>5, <2>1, <2>3, <3>1, ReturnToGood DEF SaveCache
  <2>4. CASE ReturnTo(p, "written", NoFiles)
    BY <1>5, <2>1, <2>4, ReturnToGood DEF SaveCache
  <2> QED BY <1>5, <2>2, <2>3, <2>4 DEF SaveCache
<1>6. CASE Reload(p)
  BY <1>0, <1>6, ReturnToGood, DocsStay DEF Reload
<1> QED BY <1>1, <1>2, <1>3, <1>4, <1>5, <1>6 DEF Write

\* Nothing on disk, nothing asked: the invariant holds at first.
LEMMA SafetyInit == Init => SafetyInv
<1> SUFFICES ASSUME Init PROVE SafetyInv
  OBVIOUS
<1>1. TypeOK
  BY InitType, ConstantsAssumption
<1>2. DocsGood
  BY <1>1, EmptyGood DEF Init, DocsGood, GoodMap, NoMap, NoSidecar, NoEntries
<1>3. ASSUME NEW p \in Procs PROVE ProcGood(p)
  <2>1. WorkGood(p) /\ AnswerGood(p)
    BY DEF Init, WorkGood, AnswerGood, NoAnswer
  <2>2. JudgeGood(p)
    BY <1>1, EmptyGood DEF Init, JudgeGood, NoSidecar
  <2> QED BY <2>1, <2>2 DEF ProcGood
<1> QED BY <1>1, <1>2, <1>3 DEF SafetyInv

\* SafetyInv is inductive while no edit lands in a window.
LEMMA SafetyStep ==
    ASSUME SafetyInv, EditsDuringRegen = FALSE, [Next]_vars
    PROVE  SafetyInv'
<1>0. TypeOK'
  BY NextType, ConstantsAssumption DEF SafetyInv
<1> SUFFICES DocsGood' /\ \A q \in Procs : ProcGood(q)'
  BY <1>0 DEF SafetyInv
<1>1. ASSUME NEW f \in Files, NEW c \in Contents \cup {Absent}, Edit(f, c)
      PROVE  DocsGood' /\ \A q \in Procs : ProcGood(q)'
  BY <1>1, EditGood
<1>2. ASSUME NEW p \in Procs, NEW k \in Kinds, StartRequest(p, k)
      PROVE  DocsGood' /\ \A q \in Procs : ProcGood(q)'
  BY <1>2, ConstantsAssumption, StartRequestGood DEF ConstantsAssumption
<1>3. ASSUME NEW p \in Procs, Crash(p)
      PROVE  DocsGood' /\ \A q \in Procs : ProcGood(q)'
  BY <1>3, ReturnToGood, DocsStay DEF Crash, SafetyInv
<1>4. ASSUME NEW p \in Procs, Judge(p) \/ Lock(p) \/ Map(p)
      PROVE  DocsGood' /\ \A q \in Procs : ProcGood(q)'
  <2>1. UNCHANGED <<treeVars, diskVars>>
    BY <1>4 DEF Judge, ReadSidecar, JudgeSidecar, LoadMap, JudgeIndex, Lock,
                TryLock, WaitSucceeds, WaitGivesUp, Map, ReuseCache, Extract,
                Store, PersistRemap, MapRunIsNoop
  <2> QED BY <1>4, <2>1, JudgeSafe, LockSteps, MapSteps, DocsStay
             DEF SafetyInv
<1>5. ASSUME NEW p \in Procs, Write(p)
      PROVE  DocsGood' /\ \A q \in Procs : ProcGood(q)'
  BY <1>5, WriteSteps
<1>6. CASE UNCHANGED vars
  <2>1. UNCHANGED <<treeVars, diskVars>> /\ \A q \in Procs : Untouched(q)
    BY <1>6 DEF vars, localVars, askVars, Untouched
  <2> QED BY <2>1, UntouchedGood, DocsStay DEF SafetyInv, treeVars
<1> QED BY <1>1, <1>2, <1>3, <1>4, <1>5, <1>6 DEF Next, Proceed

\* So it holds throughout.
LEMMA SafetyHolds ==
    ASSUME EditsDuringRegen = FALSE
    PROVE  Spec => []SafetyInv
<1>1. SafetyInv /\ [Next]_vars => SafetyInv'
  BY SafetyStep
<1> QED BY <1>1, SafetyInit, PTL DEF Spec

\* While no edit lands between a file's extraction and its stamp, map.json
\* and cache.json stay honest under any interleaving of writers, locked or
\* not, and any crash.
THEOREM DocumentsSafe ==
    ASSUME EditsDuringRegen = FALSE
    PROVE  Spec => []HonestDocuments
<1>1. SafetyInv => HonestDocuments
  BY DEF SafetyInv, DocsGood, GoodMap, HonestDocuments
<1> QED BY <1>1, SafetyHolds, PTL

\* Under the same assumption no stat signature recorded in map.json or in
\* the sidecar hides an edit from _content_freshness.
THEOREM StampsSafe ==
    ASSUME EditsDuringRegen = FALSE
    PROVE  Spec => []NoMaskedEdit
<1>1. SafetyInv => NoMaskedEdit
  BY DEF SafetyInv, DocsGood, GoodMap, GoodProv, NoMaskedEdit
<1> QED BY <1>1, SafetyHolds, PTL

\* Under the same assumption an answer given because a map was judged fresh
\* shows each file as it stood at some moment of the request.
THEOREM JudgedAnswersSafe ==
    ASSUME EditsDuringRegen = FALSE
    PROVE  Spec => []JudgedAnswerIsCurrent
<1>1. SafetyInv => JudgedAnswerIsCurrent
  BY DEF SafetyInv, ProcGood, AnswerGood, JudgedAnswerIsCurrent
<1> QED BY <1>1, SafetyHolds, PTL

\* Under the same assumption so does what a diff re-maps in memory over the
\* cache it shares with every other process.
THEOREM MemoryAnswersSafe ==
    ASSUME EditsDuringRegen = FALSE
    PROVE  Spec => []MemoryAnswerIsCurrent
<1>1. SafetyInv => MemoryAnswerIsCurrent
  BY DEF SafetyInv, ProcGood, AnswerGood, MemoryAnswerIsCurrent
<1> QED BY <1>1, SafetyHolds, PTL

-----------------------------------------------------------------------------
(***************************************************************************)
(* Requests that all go through a lock that works.                         *)
(***************************************************************************)

\* Reads and diffs on one machine whose lock works, none of which dies or is
\* made to wait for longer than it can.
Coordinated ==
    /\ EditsDuringRegen = FALSE /\ Crashes = FALSE
    /\ LockUnavailable = FALSE /\ WaitCapExpires = FALSE
    /\ Kinds \subseteq {"read", "peek", "diff"}

\* From the no-op test, or from the stamp, on, only the holder of the lock
\* is at work.
Holding == {"noop", "hash", "stat", "map", "side", "cache", "reload"}

\* Nobody is between two of write_map's replaces: the documents agree.
Settled ==
    /\ cache.hash = mapjson.body
    /\ mapjson.sig # 0 => sidecar.sig = mapjson.sig
SettledInv == (\A p \in Procs : pc[p] \notin {"side", "cache"}) => Settled

\* Where a process that writes is, what it has written, and that it answers
\* from a map made of what it read.
HolderInv(p) ==
    /\ kind[p] \in {"read", "peek", "diff"}
    /\ pc[p] \in Holding => p \in holder
    /\ pc[p] \in {"reuse", "extract", "store"}
         => kind[p] = "diff" \/ (kind[p] = "read" /\ p \in holder)
    /\ pc[p] \in {"noop", "reload"} => kind[p] = "read"
    /\ pc[p] \in {"noop", "side", "cache"} => mapjson.body = work[p].body
    /\ pc[p] \in {"side", "cache", "reload"} => mapjson.sig # 0
    /\ pc[p] = "cache" => sidecar.sig = mapjson.sig
    /\ pc[p] = "reload" => Current(p, mapjson.body)
    /\ ans[p].how = "regen" => Current(p, ans[p].body)

CoordInv ==
    /\ SafetyInv /\ LockInv /\ SettledInv
    /\ \A p \in Procs : HolderInv(p)


\* What p does to the documents it does while it is the one holder, so
\* whoever takes no part in the step keeps its invariant.
LEMMA OthersHold ==
    ASSUME CoordInv, NEW p \in Procs, holder \ {p} \subseteq holder',
           UNCHANGED <<mapjson, sidecar>> \/ p \in holder,
           \A q \in Procs \ {p} : Untouched(q)
    PROVE  \A q \in Procs \ {p} : HolderInv(q)'
<1> SUFFICES ASSUME NEW q \in Procs \ {p} PROVE HolderInv(q)'
  OBVIOUS
<1>1. /\ pc'[q] = pc[q] /\ kind'[q] = kind[q] /\ work'[q] = work[q]
      /\ ans'[q] = ans[q] /\ seen'[q] = seen[q]
  BY DEF Untouched
<1>2. q \in holder => q \in holder' /\ UNCHANGED <<mapjson, sidecar>>
  BY DEF CoordInv, LockInv, LockDiscipline
<1>3. HolderInv(q)
  BY DEF CoordInv
<1>4. pc[q] \in Holding => q \in holder
  BY <1>3 DEF HolderInv
<1> QED BY <1>1, <1>2, <1>3, <1>4 DEF HolderInv, Holding, Current

\* A step that leaves the documents alone and is not between two replaces.
LEMMA StepCoord ==
    ASSUME CoordInv, NEW p \in Procs, pc[p] \notin {"side", "cache"},
           UNCHANGED diskVars, holder \ {p} \subseteq holder',
           \A q \in Procs \ {p} : Untouched(q), HolderInv(p)'
    PROVE  SettledInv' /\ \A q \in Procs : HolderInv(q)'
<1>1. \A q \in Procs : HolderInv(q)'
  BY OthersHold DEF diskVars
<1>2. \A q \in Procs \ {p} : pc'[q] = pc[q]
  BY DEF Untouched
<1> QED BY <1>1, <1>2 DEF CoordInv, SettledInv, Settled, diskVars

\* A request that ends without writing, with an answer that is current if it
\* comes from a regen.
LEMMA ReturnToCoord ==
    ASSUME CoordInv, NEW p \in Procs, NEW how, NEW body,
           ReturnTo(p, how, body), how = "regen" => Current(p, body)
    PROVE  /\ HolderInv(p)' /\ holder \ {p} \subseteq holder'
           /\ \A q \in Procs \ {p} : Untouched(q)
           /\ pc'[p] = "idle" /\ \A q \in Procs \ {p} : pc'[q] = pc[q]
<1>1. /\ pc'[p] = "idle" /\ kind'[p] = kind[p] /\ seen'[p] = seen[p]
      /\ ans'[p] = [how |-> how, body |-> body]
      /\ \A q \in Procs \ {p} : Untouched(q)
  BY DEF ReturnTo, CoordInv, SafetyInv, TypeOK, Untouched
<1>2. HolderInv(p)'
  BY <1>1 DEF CoordInv, HolderInv, Holding, Current
<1> QED BY <1>1, <1>2 DEF ReturnTo, Untouched

\* A step of p on an unchanging tree that gives no answer touches nobody.
LEMMA AdvanceTouches ==
    ASSUME TypeOK, NEW p \in Procs, NEW s, Goto(p, s), UNCHANGED askVars,
           \A q \in Procs \ {p} :
              /\ cand'[q] = cand[q] /\ idx'[q] = idx[q]
              /\ misses'[q] = misses[q] /\ work'[q] = work[q]
              /\ prov'[q] = prov[q]
    PROVE  /\ pc'[p] = s /\ kind' = kind /\ ans' = ans /\ seen' = seen
           /\ \A q \in Procs \ {p} : Untouched(q)
  BY DEF Goto, askVars, TypeOK, Untouched

\* Judging leads to an answer, to the lock or, for a diff, to a re-map.
LEMMA JudgeCoord ==
    ASSUME CoordInv, NEW p \in Procs, Judge(p)
    PROVE  SettledInv' /\ \A q \in Procs : HolderInv(q)'
<1>0. TypeOK /\ HolderInv(p)
  BY DEF CoordInv, SafetyInv
<1>1. /\ UNCHANGED diskVars
      /\ pc[p] \in {"sidecar", "judge", "load", "recheck"}
  BY DEF Judge, ReadSidecar, JudgeSidecar, LoadMap, JudgeIndex
<1>2. CASE \E body : \E how \in {"judged", "failed"} : ReturnTo(p, how, body)
  BY <1>1, <1>2, ReturnToCoord, StepCoord
<1>3. CASE \E s \in {"judge", "load", "recheck", "lock", "reuse"} :
             /\ Goto(p, s) /\ UNCHANGED <<holder, misses, work, prov, askVars>>
             /\ s = "reuse" => kind[p] = "diff"
             /\ \A q \in Procs \ {p} : cand'[q] = cand[q] /\ idx'[q] = idx[q]
  <2>1. PICK s \in {"judge", "load", "recheck", "lock", "reuse"} :
             /\ Goto(p, s) /\ UNCHANGED <<holder, misses, work, prov, askVars>>
             /\ s = "reuse" => kind[p] = "diff"
             /\ \A q \in Procs \ {p} : cand'[q] = cand[q] /\ idx'[q] = idx[q]
    BY <1>3
  <2>2. /\ pc'[p] = s /\ kind' = kind /\ ans' = ans /\ seen' = seen
        /\ \A q \in Procs \ {p} : Untouched(q)
    BY <1>0, <2>1, AdvanceTouches
  <2>3. HolderInv(p)'
    BY <1>0, <2>1, <2>2 DEF HolderInv, Holding, Current
  <2> QED BY <1>1, <2>1, <2>2, <2>3, StepCoord
<1>4. \/ \E body : \E how \in {"judged", "failed"} : ReturnTo(p, how, body)
      \/ \E s \in {"judge", "load", "recheck", "lock", "reuse"} :
             /\ Goto(p, s) /\ UNCHANGED <<holder, misses, work, prov, askVars>>
             /\ s = "reuse" => kind[p] = "diff"
             /\ \A q \in Procs \ {p} : cand'[q] = cand[q] /\ idx'[q] = idx[q]
  <2>0. cand \in [Procs -> SidecarDoc] /\ idx \in [Procs -> MapDoc]
    BY <1>0 DEF TypeOK
  <2>1. CASE ReadSidecar(p)
    BY <2>0, <2>1 DEF ReadSidecar
  <2>2. CASE JudgeSidecar(p)
    BY <2>0, <2>2 DEF JudgeSidecar, OnStale, localVars
  <2>3. CASE LoadMap(p)
    BY <2>0, <2>3 DEF LoadMap, OnStale
  <2>4. CASE JudgeIndex(p)
    BY <2>0, <2>4 DEF JudgeIndex, OnStale
  <2> QED BY <2>1, <2>2, <2>3, <2>4 DEF Judge
<1> QED BY <1>2, <1>3, <1>4

\* The lock is taken or waited for, never passed by.
LEMMA LockCoord ==
    ASSUME CoordInv, Coordinated, NEW p \in Procs, Lock(p)
    PROVE  SettledInv' /\ \A q \in Procs : HolderInv(q)'
<1>0. TypeOK /\ HolderInv(p)
  BY DEF CoordInv, SafetyInv
<1>1. CASE TryLock(p)
  <2>1. PICK s \in {"reuse", "wait"} :
           /\ Goto(p, s) /\ UNCHANGED <<diskVars, localVars, askVars>>
           /\ s = "reuse" => holder' = {p}
           /\ holder \subseteq holder' /\ pc[p] = "lock"
    BY <1>1 DEF TryLock, TakeLock, Coordinated
  <2>2. /\ pc'[p] = s /\ kind' = kind /\ ans' = ans /\ seen' = seen
        /\ \A q \in Procs \ {p} : Untouched(q)
    BY <1>0, <2>1, AdvanceTouches DEF localVars
  <2>3. kind[p] = "read"
    BY <2>1 DEF CoordInv, LockInv
  <2>4. HolderInv(p)'
    BY <1>0, <2>1, <2>2, <2>3 DEF HolderInv, Holding, Current
  <2> QED BY <2>1, <2>2, <2>4, StepCoord
<1>2. CASE WaitSucceeds(p)
  BY <1>2, ReturnToCoord, StepCoord DEF WaitSucceeds
<1> QED BY <1>1, <1>2 DEF Lock, WaitGivesUp, Coordinated

\* What a run that has nothing to parse, and the cache's very paths, would
\* write is what map.json holds: the documents agree while p holds the lock.
LEMMA NoopReuses ==
    ASSUME CoordInv, NEW p \in holder, pc[p] \notin {"side", "cache"},
           Present = Hits, SamePaths
    PROVE  Reused.body = mapjson.body
<1>1. Settled
  BY DEF CoordInv, SettledInv, HolderInv, Holding, LockInv, LockDiscipline
<1>2. /\ cache.body = cache.hash /\ cache.hash = mapjson.body
      /\ cache.hash \in [Files -> Hash]
  BY <1>1 DEF Settled, CoordInv, SafetyInv, DocsGood, TypeOK, CacheDoc
<1>3. \A f \in Files : f \notin Hits => cache.hash[f] = Absent
  BY DEF SamePaths
<1>4. Reused.body = [f \in Files |-> cache.hash[f]]
  BY <1>2, <1>3 DEF Reused
<1> QED BY <1>2, <1>4

\* Extraction, by a diff or under the lock.
LEMMA MapCoord ==
    ASSUME CoordInv, Coordinated, NEW p \in Procs, Map(p)
    PROVE  SettledInv' /\ \A q \in Procs : HolderInv(q)'
<1>0. /\ TypeOK /\ HolderInv(p) /\ ProcGood(p)
      /\ work \in [Procs -> CacheDoc] /\ misses \in [Procs -> SUBSET Files]
  BY DEF CoordInv, SafetyInv, TypeOK
<1>1. CASE ReuseCache(p)
  <2>1. CASE ReturnTo(p, "failed", NoFiles)
    BY <1>1, <2>1, ReturnToCoord, StepCoord DEF ReuseCache
  <2>2. CASE ~ReturnTo(p, "failed", NoFiles)
    <3>1. PICK s \in {"noop", "extract"} :
             /\ Goto(p, s) /\ UNCHANGED <<holder, cand, idx, prov, askVars>>
             /\ misses' = [misses EXCEPT ![p] = Present \ Hits]
             /\ work' = [work EXCEPT ![p] = Reused]
             /\ s = "noop" => kind[p] # "diff" /\ Present = Hits /\ SamePaths
      BY <1>1, <2>2 DEF ReuseCache
    <3>2. UNCHANGED diskVars /\ pc[p] = "reuse"
      BY <1>1 DEF ReuseCache
    <3>3. /\ pc'[p] = s /\ kind' = kind /\ ans' = ans /\ seen' = seen
          /\ \A q \in Procs \ {p} : Untouched(q)
      BY <1>0, <3>1, AdvanceTouches
    <3>4. s = "noop" => /\ kind[p] = "read" /\ p \in holder
                        /\ mapjson.body = work'[p].body
      BY <1>0, <3>1, <3>2, NoopReuses DEF HolderInv, CoordInv
    <3>5. HolderInv(p)'
      BY <1>0, <3>1, <3>2, <3>3, <3>4 DEF HolderInv, Holding, Current, diskVars
    <3> QED BY <3>1, <3>2, <3>3, <3>5, StepCoord
  <2> QED BY <2>1, <2>2
<1>2. CASE Extract(p)
  <2>1. /\ Goto(p, "store") /\ UNCHANGED <<diskVars, holder, askVars>>
        /\ UNCHANGED <<cand, idx, misses, prov>> /\ pc[p] = "extract"
        /\ \A q \in Procs \ {p} : work'[q] = work[q]
    BY <1>0, <1>2 DEF Extract
  <2>2. /\ pc'[p] = "store" /\ kind' = kind /\ ans' = ans /\ seen' = seen
        /\ \A q \in Procs \ {p} : Untouched(q)
    BY <1>0, <2>1, AdvanceTouches
  <2>3. HolderInv(p)'
    BY <1>0, <2>1, <2>2 DEF HolderInv, Holding, Current
  <2> QED BY <2>1, <2>2, <2>3, StepCoord
<1>3. CASE Store(p)
  <2>1. CASE ReturnTo(p, "memory", work[p].body)
    BY <1>3, <2>1, ReturnToCoord, StepCoord DEF Store
  <2>2. CASE ~ReturnTo(p, "memory", work[p].body)
    <3>1. PICK s \in {"persist", "hash"} :
             /\ Goto(p, s) /\ UNCHANGED <<holder, cand, idx, misses, prov>>
             /\ UNCHANGED askVars /\ (s = "hash" => kind[p] = "read")
             /\ \A q \in Procs \ {p} : work'[q] = work[q]
      BY <1>0, <1>3, <2>2 DEF Store, HolderInv
    <3>2. UNCHANGED diskVars /\ pc[p] = "store"
      BY <1>3 DEF Store
    <3>3. /\ pc'[p] = s /\ kind' = kind /\ ans' = ans /\ seen' = seen
          /\ \A q \in Procs \ {p} : Untouched(q)
      BY <1>0, <3>1, AdvanceTouches
    <3>4. s = "hash" => p \in holder
      BY <1>0, <3>1, <3>2 DEF HolderInv
    <3>5. HolderInv(p)'
      BY <1>0, <3>1, <3>3, <3>4 DEF HolderInv, Holding, Current
    <3> QED BY <3>1, <3>2, <3>3, <3>5, StepCoord
  <2> QED BY <2>1, <2>2
<1>4. CASE PersistRemap(p)
  <2>1. CASE ReturnTo(p, "memory", work[p].body)
    BY <1>4, <2>1, ReturnToCoord, StepCoord DEF PersistRemap
  <2>2. CASE ~ReturnTo(p, "memory", work[p].body)
    <3>1. /\ Goto(p, "hash") /\ UNCHANGED <<diskVars, localVars, askVars>>
          /\ holder' = {p} /\ holder \subseteq holder' /\ pc[p] = "persist"
      BY <1>4, <2>2 DEF PersistRemap, TakeLock, Coordinated
    <3>2. /\ pc'[p] = "hash" /\ kind' = kind /\ ans' = ans /\ seen' = seen
          /\ \A q \in Procs \ {p} : Untouched(q)
      BY <1>0, <3>1, AdvanceTouches DEF localVars
    <3>3. HolderInv(p)'
      BY <1>0, <3>1, <3>2 DEF HolderInv, Holding, Current
    <3> QED BY <3>1, <3>2, <3>3, StepCoord
  <2> QED BY <2>1, <2>2
<1>5. CASE MapRunIsNoop(p)
  <2>1. PICK s \in {"reload", "hash"} :
           /\ Goto(p, s) /\ UNCHANGED <<holder, localVars, askVars>>
           /\ s = "reload" => mapjson.sig # 0
    BY <1>0, <1>5 DEF MapRunIsNoop, HolderInv
  <2>2. UNCHANGED diskVars /\ pc[p] = "noop"
    BY <1>5 DEF MapRunIsNoop
  <2>3. /\ pc'[p] = s /\ kind' = kind /\ ans' = ans /\ seen' = seen
        /\ \A q \in Procs \ {p} : Untouched(q)
    BY <1>0, <2>1, AdvanceTouches DEF localVars
  <2>4. kind[p] = "read" /\ p \in holder /\ mapjson.body = work[p].body
    BY <1>0, <2>2 DEF HolderInv, Holding
  <2>5. Current(p, mapjson.body)
    BY <1>0, <2>2, <2>4 DEF ProcGood, WorkGood, JudgeGood, Current
  <2>6. HolderInv(p)'
    BY <1>0, <2>1, <2>2, <2>3, <2>4, <2>5
       DEF HolderInv, Holding, Current, diskVars
  <2> QED BY <2>1, <2>2, <2>3, <2>6, StepCoord
<1> QED BY <1>1, <1>2, <1>3, <1>4, <1>5 DEF Map

\* Only the holder writes, so nobody writes between its replaces.
LEMMA WriteCoord ==
    ASSUME CoordInv, NEW p \in Procs, Write(p)
    PROVE  SettledInv' /\ \A q \in Procs : HolderInv(q)'
<1>0. /\ TypeOK /\ HolderInv(p) /\ ProcGood(p) /\ pc \in [Procs -> Steps]
      /\ prov \in [Procs -> Provenance] /\ writes \in Nat
  BY DEF CoordInv, SafetyInv, TypeOK
<1>1. p \in holder /\ pc[p] \in Holding
  BY <1>0 DEF Write, HashFiles, StatFiles, WriteMapJson, WriteSidecar,
              SaveCache, Reload, HolderInv, Holding
<1>2. CASE HashFiles(p) \/ StatFiles(p)
  <2>1. PICK s \in {"stat", "map"} :
           /\ Goto(p, s) /\ UNCHANGED <<diskVars, holder, askVars>>
           /\ UNCHANGED <<cand, idx, misses, work>>
           /\ pc[p] \in {"hash", "stat"}
           /\ \A q \in Procs \ {p} : prov'[q] = prov[q]
    BY <1>0, <1>2 DEF HashFiles, StatFiles
  <2>2. /\ pc'[p] = s /\ kind' = kind /\ ans' = ans /\ seen' = seen
        /\ \A q \in Procs \ {p} : Untouched(q)
    BY <1>0, <2>1, AdvanceTouches
  <2>3. HolderInv(p)'
    BY <1>0, <1>1, <2>1, <2>2 DEF HolderInv, Holding, Current
  <2> QED BY <2>1, <2>2, <2>3, StepCoord
<1>3. CASE WriteMapJson(p)
  <2>1. /\ Goto(p, "side") /\ UNCHANGED <<localVars, askVars>>
        /\ holder' = holder
        /\ mapjson'.body = work[p].body /\ mapjson'.sig = writes + 1
    BY <1>3 DEF WriteMapJson
  <2>2. /\ pc'[p] = "side" /\ kind' = kind /\ ans' = ans /\ seen' = seen
        /\ \A q \in Procs \ {p} : Untouched(q)
    BY <1>0, <2>1, AdvanceTouches DEF localVars
  <2>3. HolderInv(p)'
    <3>1. mapjson'.sig # 0 /\ work' = work
      BY <1>0, <2>1 DEF localVars
    <3> QED BY <1>0, <1>1, <2>1, <2>2, <3>1 DEF HolderInv, Holding, Current
  <2>4. SettledInv'
    BY <2>2 DEF SettledInv
  <2> QED BY <1>1, <2>1, <2>2, <2>3, <2>4, OthersHold
<1>4. CASE WriteSidecar(p)
  <2>1. /\ Goto(p, "cache") /\ UNCHANGED <<mapjson, localVars, askVars>>
        /\ holder' = holder
        /\ sidecar'.sig = mapjson.sig /\ pc[p] = "side"
    BY <1>4 DEF WriteSidecar
  <2>2. /\ pc'[p] = "cache" /\ kind' = kind /\ ans' = ans /\ seen' = seen
        /\ \A q \in Procs \ {p} : Untouched(q)
    BY <1>0, <2>1, AdvanceTouches DEF localVars
  <2>3. HolderInv(p)'
    BY <1>0, <1>1, <2>1, <2>2 DEF HolderInv, Holding, Current, localVars
  <2>4. SettledInv'
    BY <2>2 DEF SettledInv
  <2> QED BY <1>1, <2>1, <2>2, <2>3, <2>4, OthersHold
<1>5. CASE SaveCache(p)
  <2>1. /\ mapjson.body = work[p].body /\ sidecar.sig = mapjson.sig
        /\ mapjson.sig # 0
        /\ work[p].body = work[p].hash /\ Current(p, work[p].body)
    BY <1>0, <1>5 DEF SaveCache, HolderInv, ProcGood, WorkGood
  <2>2. UNCHANGED <<mapjson, sidecar>> /\ cache' = work[p]
    BY <1>5 DEF SaveCache
  <2>3. SettledInv'
    BY <2>1, <2>2 DEF SettledInv, Settled
  <2>4. CASE \E body : \E how \in {"memory", "written"} : ReturnTo(p, how, body)
    BY <1>1, <2>2, <2>3, <2>4, ReturnToCoord, OthersHold
  <2>5. CASE /\ kind[p] = "read" /\ Goto(p, "reload")
             /\ UNCHANGED <<holder, localVars, askVars>>
    <3>1. /\ pc'[p] = "reload" /\ kind' = kind /\ ans' = ans /\ seen' = seen
          /\ \A q \in Procs \ {p} : Untouched(q)
      BY <1>0, <2>5, AdvanceTouches DEF localVars
    <3>2. HolderInv(p)'
      BY <1>0, <1>1, <2>1, <2>2, <2>5, <3>1 DEF HolderInv, Holding, Current
    <3> QED BY <1>1, <2>2, <2>3, <2>5, <3>1, <3>2, OthersHold
  <2> QED BY <1>5, <2>4, <2>5 DEF SaveCache
<1>6. CASE Reload(p)
  <2>1. /\ pc[p] = "reload" /\ UNCHANGED diskVars
        /\ Current(p, mapjson.body)
    BY <1>0, <1>6 DEF Reload, HolderInv
  <2> QED BY <1>6, <2>1, ReturnToCoord, StepCoord DEF Reload
<1> QED BY <1>2, <1>3, <1>4, <1>5, <1>6 DEF Write

\* An edit only widens what counts as current.
LEMMA EditCoord ==
    ASSUME CoordInv, NEW f \in Files, NEW c \in Contents \cup {Absent},
           Edit(f, c)
    PROVE  SettledInv' /\ \A q \in Procs : HolderInv(q)'
<1>1. UNCHANGED <<diskVars, holder, pc, localVars, kind, ans>>
  BY DEF Edit
<1>2. ASSUME NEW q \in Procs PROVE HolderInv(q)'
  <2>1. \A g \in Files : seen[q][g] \subseteq seen'[q][g]
    BY DEF Edit, CoordInv, SafetyInv, TypeOK
  <2>2. \A body : Current(q, body) => Current(q, body)'
    BY <2>1 DEF Current
  <2>3. HolderInv(q)
    BY DEF CoordInv
  <2> QED BY <1>1, <2>1, <2>3 DEF HolderInv, Current, diskVars, localVars
<1>3. SettledInv'
  BY <1>1 DEF CoordInv, SettledInv, Settled, diskVars
<1> QED BY <1>2, <1>3

\* A request begins outside the locked section, and map is not among them.
LEMMA StartRequestCoord ==
    ASSUME CoordInv, Coordinated, NEW p \in Procs, NEW k \in Kinds,
           StartRequest(p, k)
    PROVE  SettledInv' /\ \A q \in Procs : HolderInv(q)'
<1>1. /\ pc'[p] = "sidecar" /\ kind'[p] = k /\ ans'[p] = NoAnswer
      /\ k \in {"read", "peek", "diff"} /\ pc[p] = "idle"
      /\ UNCHANGED <<diskVars, holder>>
  BY DEF StartRequest, Goto, Coordinated, CoordInv, SafetyInv, TypeOK
<1>2. HolderInv(p)'
  BY <1>1 DEF HolderInv, Holding, NoAnswer
<1>3. \A q \in Procs \ {p} : Untouched(q)
  BY DEF StartRequest, Goto, localVars, CoordInv, SafetyInv, TypeOK, Untouched
<1> QED BY <1>1, <1>2, <1>3, StepCoord

LEMMA CoordInit == Coordinated /\ Init => CoordInv
<1> SUFFICES ASSUME Coordinated, Init PROVE CoordInv
  OBVIOUS
<1>1. LockInv
  BY InitType, ConstantsAssumption DEF Init, LockInv, LockDiscipline
<1>2. SettledInv
  BY DEF Init, SettledInv, Settled, NoMap, NoEntries
<1>3. \A p \in Procs : HolderInv(p)
  BY DEF Init, HolderInv, Holding, NoAnswer
<1> QED BY <1>1, <1>2, <1>3, SafetyInit DEF CoordInv

\* CoordInv is inductive when every request goes through a working lock.
LEMMA CoordStep ==
    ASSUME Coordinated, CoordInv, [Next]_vars
    PROVE  CoordInv'
<1>1. SafetyInv' /\ LockInv'
  BY SafetyStep, LockStep DEF Coordinated, CoordInv
<1> SUFFICES SettledInv' /\ \A q \in Procs : HolderInv(q)'
  BY <1>1 DEF CoordInv
<1>2. CASE UNCHANGED vars
  BY <1>2 DEF vars, diskVars, localVars, askVars, CoordInv, SettledInv,
              Settled, HolderInv, Current
<1>3. ASSUME NEW p \in Procs, Proceed(p)
      PROVE  SettledInv' /\ \A q \in Procs : HolderInv(q)'
  BY <1>3, JudgeCoord, LockCoord, MapCoord, WriteCoord DEF Proceed
<1> QED
  BY <1>2, <1>3, EditCoord, StartRequestCoord DEF Next, Crash, Coordinated

\* So it holds throughout.
LEMMA CoordHolds ==
    ASSUME Coordinated
    PROVE  Spec => []CoordInv
<1>1. Init => CoordInv
  BY CoordInit
<1>2. CoordInv /\ [Next]_vars => CoordInv'
  BY CoordStep
<1> QED BY <1>1, <1>2, PTL DEF Spec

\* When every request goes through a working lock, the map a regen reloads,
\* which nothing judges again, shows each file as it stood at some moment of
\* the request: it is its own run's or, for a run with nothing to parse, the
\* very map that run would have written (repo_ops._locked_regen).
THEOREM RegenAnswersSafe ==
    ASSUME Coordinated
    PROVE  Spec => []RegenAnswerIsCurrent
<1>1. CoordInv => RegenAnswerIsCurrent
  BY DEF CoordInv, HolderInv, RegenAnswerIsCurrent
<1> QED BY <1>1, CoordHolds, PTL

\* Under the same assumption a run that finds nothing to do finds on disk
\* the map it has just built, although _map_run_is_noop compares no hash of
\* map.json: the lock keeps map.json and cache.json in step.
THEOREM NoopSafe ==
    ASSUME Coordinated
    PROVE  Spec => NoopIsIdentical
<1>1. CoordInv => \A p \in Procs :
                     pc[p] = "noop" => mapjson.body = work[p].body
  BY DEF CoordInv, HolderInv
<1>2. CoordInv =>
        [\A p \in Procs :
           pc[p] = "noop" /\ pc'[p] \in {"reload", "idle"}
               /\ ans'[p].how # "failed"
             => mapjson.body = work[p].body]_vars
  BY <1>1
<1> QED BY <1>2, CoordHolds, PTL DEF NoopIsIdentical

\* Under the same assumption one regen is enough: on a tree that did not
\* change since the request began, the map it leaves is fresh and its
\* sidecar may vouch for it.
THEOREM RegenSettles ==
    ASSUME Coordinated
    PROVE  Spec => RegenLeavesMapFresh
<1>1. ASSUME CoordInv, NEW p \in Procs, pc[p] = "reload",
             seen[p] = [f \in Files |-> {tree[f]}]
      PROVE  Fresh(mapjson.prov) /\ sidecar.sig = mapjson.sig
  <2>1. /\ HolderInv(p) /\ DocsGood /\ p \in holder
    BY <1>1 DEF CoordInv, SafetyInv, HolderInv, Holding
  <2>2. Settled
    BY <1>1, <2>1
       DEF CoordInv, SettledInv, HolderInv, Holding, LockInv, LockDiscipline
  <2>3. \A f \in Files : mapjson.prov.hash[f] = tree[f]
    BY <1>1, <2>1 DEF HolderInv, Current, DocsGood, GoodMap
  <2>4. Fresh(mapjson.prov)
    BY <2>3 DEF Fresh, Present
  <2> QED BY <1>1, <2>1, <2>2, <2>4 DEF HolderInv, Settled
<1>2. CoordInv =>
        [\A p \in Procs :
           pc[p] = "reload" /\ ans'[p].how = "regen"
               /\ seen[p] = [f \in Files |-> {tree[f]}]
             => Fresh(mapjson.prov) /\ sidecar.sig = mapjson.sig]_vars
  BY <1>1
<1> QED BY <1>2, CoordHolds, PTL DEF RegenLeavesMapFresh
==============================================================================
