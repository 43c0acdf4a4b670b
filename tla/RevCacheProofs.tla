----------------------------- MODULE RevCacheProofs -----------------------------
(***************************************************************************)
(* Proofs about RevCache, for any number of commands, builds and revisions *)
(* and with every failure allowed: what a command may be answered with,    *)
(* and how many entries the commands leave behind.                         *)
(***************************************************************************)
EXTENDS RevCache, FiniteSetTheorems, WellFoundedInduction, TLAPS

-----------------------------------------------------------------------------
(* Sequences of revisions.  Among is a recursive function; it is followed  *)
(* with an induction over a set of numbers.                                *)

\* A set of numbers has a least one.
LEMMA LeastNat ==
    ASSUME NEW T, T \subseteq Nat, T # {}
    PROVE  \E n \in T : \A m \in T : n <= m
<1>1. PICK n \in T : \A m \in T : ~(<<m, n>> \in OpToRel(<, Nat))
  BY NatLessThanWellFounded, WFMin
<1>2. \A m \in T : ~(m < n)
  BY <1>1 DEF OpToRel
<1> QED BY <1>2

\* What holds of 0 and passes on to the next number holds of every number.
LEMMA SetInduction ==
    ASSUME NEW S, 0 \in S, \A n \in Nat : n \in S => n + 1 \in S
    PROVE  Nat \subseteq S
<1> SUFFICES ASSUME Nat \ S # {} PROVE FALSE
  OBVIOUS
<1>1. PICK n \in Nat \ S : \A m \in Nat \ S : n <= m
  BY LeastNat
<1>2. n # 0 /\ n - 1 \in Nat
  BY <1>1
<1>3. n - 1 \in S
  BY <1>1, <1>2
<1> QED BY <1>1, <1>2, <1>3

\* Among goes through the sequence from its first element to its last.
LEMMA AmongUnfolds ==
    ASSUME NEW T, NEW seq \in Seq(T), NEW set
    PROVE  \E w : /\ w[0] = <<>>
                  /\ \A n \in 1..Len(seq) :
                        w[n] = IF seq[n] \in set
                               THEN Append(w[n - 1], seq[n]) ELSE w[n - 1]
                  /\ Among(seq, set) = w[Len(seq)]
<1> DEFINE Upto(n, w) ==
      w = [k \in 0..n |-> IF k = 0 THEN <<>>
                          ELSE IF seq[k] \in set
                          THEN Append(w[k - 1], seq[k]) ELSE w[k - 1]]
<1> DEFINE S == {n \in Nat : \E w : Upto(n, w)}
<1>1. 0 \in S
  <2>1. Upto(0, [k \in 0..0 |-> <<>>])
    OBVIOUS
  <2> QED BY <2>1
<1>2. ASSUME NEW n \in Nat, n \in S PROVE n + 1 \in S
  <2>1. PICK w : Upto(n, w)
    BY <1>2
  <2> DEFINE next == IF seq[n + 1] \in set THEN Append(w[n], seq[n + 1]) ELSE w[n]
             v    == [k \in 0..(n + 1) |-> IF k = n + 1 THEN next ELSE w[k]]
  <2>2. \A k \in 0..n : v[k] = w[k]
    OBVIOUS
  <2>3. ASSUME NEW k \in 0..(n + 1)
        PROVE  v[k] = IF k = 0 THEN <<>>
                      ELSE IF seq[k] \in set
                      THEN Append(v[k - 1], seq[k]) ELSE v[k - 1]
    <3>1. CASE k = n + 1
      <4>1. v[k - 1] = w[n] /\ v[k] = next /\ k # 0
        BY <3>1, <2>2
      <4> HIDE DEF v
      <4> QED BY <3>1, <4>1
    <3>2. CASE k \in 0..n
      <4>1. v[k] = w[k] /\ (k # 0 => v[k - 1] = w[k - 1])
        BY <3>2, <2>2
      <4>2. w[k] = IF k = 0 THEN <<>>
                   ELSE IF seq[k] \in set
                   THEN Append(w[k - 1], seq[k]) ELSE w[k - 1]
        BY <2>1, <3>2
      <4> HIDE DEF v
      <4> QED BY <4>1, <4>2
    <3> QED BY <3>1, <3>2
  <2>4. v = [k \in 0..(n + 1) |-> v[k]]
    OBVIOUS
  <2> HIDE DEF v
  <2>5. Upto(n + 1, v)
    BY <2>3, <2>4
  <2> QED BY <2>5
<1> HIDE DEF S
<1>3. Len(seq) \in S
  BY <1>1, <1>2, SetInduction
<1> DEFINE W == CHOOSE w : Upto(Len(seq), w)
<1>4. Upto(Len(seq), W)
  BY <1>3 DEF S
<1>5. Among(seq, set) = W[Len(seq)]
  BY DEF Among
<1> HIDE DEF W
<1>6. W[0] = <<>>
  BY <1>4
<1>7. ASSUME NEW n \in 1..Len(seq)
      PROVE  W[n] = IF seq[n] \in set THEN Append(W[n - 1], seq[n]) ELSE W[n - 1]
  <2>1. n \in 0..Len(seq) /\ n # 0
    OBVIOUS
  <2>2. \A k \in 0..Len(seq) :
            W[k] = IF k = 0 THEN <<>>
                   ELSE IF seq[k] \in set
                   THEN Append(W[k - 1], seq[k]) ELSE W[k - 1]
    BY <1>4
  <2> QED BY <2>1, <2>2
<1> QED BY <1>5, <1>6, <1>7

\* One more revision, used last.
LEMMA AppendNew ==
    ASSUME NEW T, NEW seq \in Seq(T), NEW x \in T,
           IsInjective(seq), x \notin ToSet(seq)
    PROVE  /\ Append(seq, x) \in Seq(T)
           /\ ToSet(Append(seq, x)) = ToSet(seq) \cup {x}
           /\ IsInjective(Append(seq, x))
<1>1. /\ DOMAIN Append(seq, x) = 1..(Len(seq) + 1)
      /\ \A i \in 1..Len(seq) : Append(seq, x)[i] = seq[i] /\ seq[i] # x
      /\ Append(seq, x)[Len(seq) + 1] = x
  BY DEF ToSet
<1>2. IsInjective(Append(seq, x))
  BY <1>1 DEF IsInjective
<1>3. ToSet(Append(seq, x)) = ToSet(seq) \cup {x}
  BY <1>1 DEF ToSet
<1> QED BY <1>2, <1>3

\* Among keeps the members of the set, each once.
LEMMA AmongMembers ==
    ASSUME NEW T, NEW seq \in Seq(T), IsInjective(seq), NEW set
    PROVE  /\ Among(seq, set) \in Seq(T)
           /\ ToSet(Among(seq, set)) = ToSet(seq) \cap set
           /\ IsInjective(Among(seq, set))
<1>1. PICK w : /\ w[0] = <<>>
               /\ \A n \in 1..Len(seq) :
                     w[n] = IF seq[n] \in set
                            THEN Append(w[n - 1], seq[n]) ELSE w[n - 1]
               /\ Among(seq, set) = w[Len(seq)]
  BY AmongUnfolds
<1> DEFINE First(n) == {seq[i] : i \in 1..n}
           Good(n) == /\ w[n] \in Seq(T)
                      /\ ToSet(w[n]) = First(n) \cap set
                      /\ IsInjective(w[n])
           S == {n \in Nat : n <= Len(seq) => Good(n)}
<1>2. 0 \in S
  <2>1. w[0] \in Seq(T) /\ DOMAIN w[0] = {}
    BY <1>1
  <2>2. ToSet(w[0]) = {} /\ First(0) = {} /\ IsInjective(w[0])
    BY <2>1 DEF ToSet, IsInjective
  <2> HIDE DEF First
  <2> QED BY <2>1, <2>2
<1>3. ASSUME NEW n \in Nat, n \in S PROVE n + 1 \in S
  <2> SUFFICES ASSUME n + 1 <= Len(seq) PROVE Good(n + 1)
    OBVIOUS
  <2>1. Good(n)
    BY <1>3
  <2>2. n + 1 \in 1..Len(seq) /\ seq[n + 1] \in T
    OBVIOUS
  <2>3. w[n + 1] = IF seq[n + 1] \in set THEN Append(w[n], seq[n + 1]) ELSE w[n]
    BY <1>1, <2>2
  <2>4. First(n + 1) = First(n) \cup {seq[n + 1]}
    BY <2>2
  <2>5. seq[n + 1] \notin First(n)
    BY <2>2 DEF IsInjective
  <2> HIDE DEF First
  <2>6. CASE seq[n + 1] \in set
    BY <2>1, <2>2, <2>3, <2>4, <2>5, <2>6, AppendNew
  <2>7. CASE seq[n + 1] \notin set
    BY <2>1, <2>3, <2>4, <2>7
  <2> QED BY <2>6, <2>7
<1> HIDE DEF S
<1>4. Len(seq) \in S
  BY <1>2, <1>3, SetInduction
<1>5. First(Len(seq)) = ToSet(seq)
  BY DEF ToSet
<1> QED BY <1>1, <1>4, <1>5 DEF S

\* The last n elements of a sequence are n at most.
LEMMA LastFew ==
    ASSUME NEW T, NEW seq \in Seq(T), NEW n \in Nat
    PROVE  LET K == {seq[i] : i \in {j \in 1..Len(seq) : j > Len(seq) - n}}
           IN  IsFiniteSet(K) /\ Cardinality(K) <= n
<1> DEFINE I == {j \in 1..Len(seq) : j > Len(seq) - n}
           K == {seq[i] : i \in I}
           J == (Len(seq) - n + 1) .. Len(seq)
           g == [i \in I |-> seq[i]]
<1>1. IsFiniteSet(J) /\ Cardinality(J) <= n
  BY FS_Interval
<1>2. I \in SUBSET J
  OBVIOUS
<1>3. IsFiniteSet(I) /\ Cardinality(I) <= Cardinality(J)
  BY <1>1, <1>2, FS_Subset
<1>4. g \in Surjection(I, K)
  BY DEF Surjection
<1>5. IsFiniteSet(K) /\ Cardinality(K) <= Cardinality(I)
  <2> HIDE DEF I, K, g
  <2> QED BY <1>3, <1>4, FS_Surjection
<1>6. Cardinality(I) \in Nat /\ Cardinality(J) \in Nat /\ Cardinality(K) \in Nat
  BY <1>1, <1>3, <1>5, FS_CardinalityType
<1> HIDE DEF I, J, K
<1>7. IsFiniteSet(K) /\ Cardinality(K) <= n
  BY <1>1, <1>3, <1>5, <1>6
<1> QED BY <1>7 DEF I, K

\* A sequence without repetitions is as long as it has elements.
LEMMA LengthOf ==
    ASSUME NEW T, NEW seq \in Seq(T), IsInjective(seq)
    PROVE  /\ IsFiniteSet(ToSet(seq))
           /\ Cardinality(ToSet(seq)) = Len(seq)
<1>1. IsFiniteSet(1..Len(seq)) /\ Cardinality(1..Len(seq)) = Len(seq)
  <2>1. Len(seq) \in Nat
    OBVIOUS
  <2> QED BY <2>1, FS_Interval
<1> DEFINE g == [i \in 1..Len(seq) |-> seq[i]]
<1>2. g \in Surjection(1..Len(seq), ToSet(seq)) /\ g \in Injection(1..Len(seq), ToSet(seq))
  BY DEF Surjection, Injection, IsInjective, ToSet
<1> HIDE DEF g
<1> QED BY <1>1, <1>2, FS_Surjection

\* What _evict is to remove, and what it leaves of the entries it listed.
LEMMA OldestLeavesFew ==
    ASSUME used \in Seq(Revs), IsInjective(used), NEW revs \in SUBSET ToSet(used)
    PROVE  /\ Oldest(revs) \in Seq(Revs)
           /\ \E K : /\ IsFiniteSet(K) /\ Cardinality(K) <= MaxEntries
                     /\ revs \subseteq K \cup ToSet(Oldest(revs))
<1> DEFINE order == Among(used, revs)
           K == {order[i] : i \in {j \in 1..Len(order) : j > Len(order) - MaxEntries}}
<1>1. order \in Seq(Revs) /\ ToSet(order) = revs
  <2>1. /\ Among(used, revs) \in Seq(Revs)
        /\ ToSet(Among(used, revs)) = ToSet(used) \cap revs
    BY AmongMembers
  <2> QED BY <2>1
<1>2. Oldest(revs) = IF Len(order) > MaxEntries
                     THEN SubSeq(order, 1, Len(order) - MaxEntries) ELSE <<>>
  BY DEF Oldest
<1> HIDE DEF order
<1>3. IsFiniteSet(K) /\ Cardinality(K) <= MaxEntries
  BY <1>1, LastFew, RevCacheAssumption
<1>4. Oldest(revs) \in Seq(Revs)
  BY <1>1, <1>2, RevCacheAssumption
<1>5. revs \subseteq K \cup ToSet(Oldest(revs))
  <2> SUFFICES ASSUME NEW i \in 1..Len(order), ~(i > Len(order) - MaxEntries)
               PROVE  order[i] \in ToSet(Oldest(revs))
    BY <1>1 DEF ToSet
  <2>1. /\ Oldest(revs) = SubSeq(order, 1, Len(order) - MaxEntries)
        /\ i \in 1..(Len(order) - MaxEntries)
    BY <1>1, <1>2, RevCacheAssumption
  <2>2. i \in DOMAIN Oldest(revs) /\ Oldest(revs)[i] = order[i]
    BY <1>1, <2>1, RevCacheAssumption
  <2> QED BY <2>2 DEF ToSet
<1> QED BY <1>3, <1>4, <1>5

-----------------------------------------------------------------------------
(* Type correctness.                                                       *)

\* Besides the types: what is to be saved was built, and a command that still
\* looks for the entry has not polled too often.
TypeInv ==
    /\ TypeOK
    /\ \A c \in Commands :
        /\ pc[c] \in {"save", "list", "stat", "evict"} => built[c].kind = "saved"
        /\ pc[c] \in {"resolve", "look", "judge", "lock"} =>
                role[c] \in {"none", "waiter"} /\ polls[c] < Polls

\* The entries and the order of their use.
EntriesOK ==
    /\ entry \in [Revs -> Files]
    /\ used \in Seq(Revs)
    /\ IsInjective(used)
    /\ ToSet(used) = {r \in Revs : entry[r] # Nothing}

\* The locals of the commands, and the locks.
LocalsOK ==
    /\ lock \in [Revs -> Commands \cup {NoCommand}]
    /\ role \in [Commands -> {"none", "unresolved", "holder", "open", "waiter"}]
    /\ doc \in [Commands -> Files]
    /\ polls \in [Commands -> 0 .. Polls]
    /\ built \in [Commands -> Files]
    /\ listed \in [Commands -> SUBSET Revs]
    /\ victims \in [Commands -> Seq(Revs)]

LEMMA FileKinds ==
    /\ Nothing \in Files /\ Nothing.kind # "saved"
    /\ Blank \in Files /\ Blank.kind # "saved" /\ Blank # Nothing
    /\ \A snap \in Snapshots :
            Saved(snap) \in Files /\ Saved(snap) # Nothing
    /\ \A file \in Files : file.kind = "saved" =>
            file.snap \in Snapshots /\ file = Saved(file.snap)
<1>1. Nothing.kind = "nothing" /\ Blank.kind = "blank"
  BY DEF Nothing, Blank
<1>2. \A snap \in Snapshots : Saved(snap).kind = "saved" /\ Saved(snap).snap = snap
  BY DEF Saved
<1> QED BY <1>1, <1>2 DEF Files

\* Taking an entry away, and using one.
LEMMA UseOf ==
    ASSUME EntriesOK, NEW r \in Revs
    PROVE  /\ Forget(r) \in Seq(Revs) /\ IsInjective(Forget(r))
           /\ ToSet(Forget(r)) = ToSet(used) \ {r}
           /\ UsedNow(r) \in Seq(Revs) /\ IsInjective(UsedNow(r))
           /\ ToSet(UsedNow(r)) = ToSet(used) \cup {r}
<1>1. /\ Forget(r) \in Seq(Revs) /\ IsInjective(Forget(r))
      /\ ToSet(Forget(r)) = ToSet(used) \cap (Revs \ {r})
  BY AmongMembers DEF Forget, EntriesOK
<1>2. ToSet(Forget(r)) = ToSet(used) \ {r}
  BY <1>1 DEF EntriesOK
<1>3. /\ UsedNow(r) \in Seq(Revs) /\ IsInjective(UsedNow(r))
      /\ ToSet(UsedNow(r)) = ToSet(Forget(r)) \cup {r}
  BY <1>1, <1>2, AppendNew DEF UsedNow
<1> QED BY <1>1, <1>2, <1>3

LEMMA Unlinked ==
    ASSUME EntriesOK, NEW r \in Revs,
           entry' = [entry EXCEPT ![r] = Nothing], used' = Forget(r)
    PROVE  EntriesOK'
  BY UseOf, FileKinds DEF EntriesOK

LEMMA Written ==
    ASSUME EntriesOK, NEW r \in Revs, NEW f \in Files \ {Nothing},
           entry' = [entry EXCEPT ![r] = f], used' = UsedNow(r)
    PROVE  EntriesOK'
  BY UseOf DEF EntriesOK

LEMMA TypeInit == Init => TypeInv
<1> SUFFICES ASSUME Init PROVE TypeInv
  OBVIOUS
<1>1. <<>> \in Seq(Revs) /\ IsInjective(<<>>) /\ ToSet(<<>>) = {}
  BY DEF IsInjective, ToSet
<1>2. TypeOK
  BY <1>1, FileKinds, RevCacheAssumption DEF Init, TypeOK, Outcomes
<1> QED BY <1>2, RevCacheAssumption DEF Init, TypeInv

\* A command that goes on, or is over: what it leaves of its own state, and of
\* the locks, is of the right type.
LEMMA EndType ==
    ASSUME TypeInv, NEW c \in Commands, NEW o \in Outcomes, o.kind # "none",
           End(c, o), EntriesOK',
           UNCHANGED <<job, role, doc, polls, built, evictVars>>
    PROVE  TypeInv'
<1>1. /\ outcome' = [outcome EXCEPT ![c] = o]
      /\ pc' = [pc EXCEPT ![c] = "done"]
      /\ lock' = [r \in Revs |-> IF lock[r] = c THEN NoCommand ELSE lock[r]]
  BY DEF End, Goto
<1>2. \A d \in Commands : pc'[d] = "done" <=> outcome'[d].kind # "none"
  BY <1>1 DEF TypeInv, TypeOK
<1>3. \A r \in Revs : lock'[r] # NoCommand =>
         /\ pc'[lock'[r]] \in {"build", "save", "list", "stat", "evict"}
         /\ role'[lock'[r]] = "holder"
  BY <1>1 DEF TypeInv, TypeOK
<1>4. /\ lock' \in [Revs -> Commands \cup {NoCommand}]
      /\ outcome' \in [Commands -> Outcomes]
      /\ pc' \in [Commands -> {"resolve", "look", "judge", "lock", "build", "save",
                               "list", "stat", "evict", "done"}]
  BY <1>1 DEF TypeInv, TypeOK
<1>5. TypeOK'
  BY <1>2, <1>3, <1>4 DEF TypeInv, TypeOK, EntriesOK, evictVars
<1> QED BY <1>1, <1>5 DEF TypeInv, TypeOK

LEMMA GoOnType ==
    ASSUME TypeInv, NEW c \in Commands,
           NEW l \in {"look", "judge", "lock", "build", "save", "list", "stat", "evict"},
           pc[c] # "done", Goto(c, l), EntriesOK', LocalsOK',
           UNCHANGED <<job, outcome>>,
           \A d \in Commands \ {c} :
                role'[d] = role[d] /\ polls'[d] = polls[d] /\ built'[d] = built[d],
           \A r \in Revs : lock'[r] # lock[r] => lock'[r] = c,
           \A r \in Revs : lock'[r] = c =>
                /\ l \in {"build", "save", "list", "stat", "evict"}
                /\ role'[c] = "holder",
           l \in {"save", "list", "stat", "evict"} => built'[c].kind = "saved",
           l \in {"look", "judge", "lock"} =>
                role'[c] \in {"none", "waiter"} /\ polls'[c] < Polls
    PROVE  TypeInv'
<1>1. pc' = [pc EXCEPT ![c] = l]
  BY DEF Goto
<1>2. \A r \in Revs : lock'[r] # NoCommand =>
         /\ pc'[lock'[r]] \in {"build", "save", "list", "stat", "evict"}
         /\ role'[lock'[r]] = "holder"
  <2> SUFFICES ASSUME NEW r \in Revs, lock'[r] # NoCommand, lock'[r] # c
               PROVE  /\ pc'[lock'[r]] \in {"build", "save", "list", "stat", "evict"}
                      /\ role'[lock'[r]] = "holder"
    BY <1>1 DEF TypeInv, TypeOK
  <2>1. lock'[r] = lock[r] /\ lock[r] \in Commands \ {c}
    BY DEF LocalsOK
  <2> QED BY <1>1, <2>1 DEF TypeInv, TypeOK
<1>3. \A d \in Commands : pc'[d] = "done" <=> outcome'[d].kind # "none"
  BY <1>1 DEF TypeInv, TypeOK
<1>4. pc' \in [Commands -> {"resolve", "look", "judge", "lock", "build", "save",
                            "list", "stat", "evict", "done"}]
  BY <1>1 DEF TypeInv, TypeOK
<1>5. TypeOK'
  BY <1>2, <1>3, <1>4 DEF TypeInv, TypeOK, EntriesOK, LocalsOK
<1> QED BY <1>1, <1>5 DEF TypeInv, TypeOK

\* What every step of a command starts from.
LEMMA CommandType ==
    ASSUME TypeInv, NEW c \in Commands
    PROVE  /\ EntriesOK /\ LocalsOK
           /\ job[c] \in Jobs /\ RevOf(c) \in Revs
           /\ doc[c] \in Files /\ built[c] \in Files
           /\ polls[c] \in 0 .. Polls
           /\ \A r \in Revs : lock[r] = c =>
                 /\ pc[c] \in {"build", "save", "list", "stat", "evict"}
                 /\ role[c] = "holder"
  BY RevCacheAssumption DEF TypeInv, TypeOK, EntriesOK, LocalsOK, RevOf, Jobs

\* Where a miss leads, and that it counts a poll only of a waiter.
LEMMA MissType ==
    ASSUME TypeInv, NEW c \in Commands, pc[c] = "judge", Miss(c)
    PROVE  \E l \in {"look", "lock", "build"} :
              /\ Goto(c, l)
              /\ polls' \in [Commands -> 0 .. Polls]
              /\ \A d \in Commands \ {c} : polls'[d] = polls[d]
              /\ l \in {"look", "lock"} => polls'[c] < Polls
<1>1. polls \in [Commands -> 0 .. Polls] /\ polls[c] < Polls /\ Polls \in Nat
  BY RevCacheAssumption DEF TypeInv, TypeOK
<1>2. CASE role[c] = "none"
  BY <1>1, <1>2 DEF Miss
<1>3. CASE role[c] # "none"
  <2>1. polls' = [polls EXCEPT ![c] = polls[c] + 1]
    BY <1>3 DEF Miss
  <2>2. Goto(c, IF polls[c] + 1 < Polls THEN "look" ELSE "build")
    BY <1>3 DEF Miss
  <2>3. CASE polls[c] + 1 < Polls
    BY <1>1, <2>1, <2>2, <2>3
  <2>4. CASE ~(polls[c] + 1 < Polls)
    BY <1>1, <2>1, <2>2, <2>4
  <2> QED BY <2>3, <2>4
<1> QED BY <1>2, <1>3

LEMMA LookType ==
    ASSUME TypeInv, NEW c \in Commands,
           Resolve(c) \/ Load(c) \/ LoadNothing(c) \/ LoadStale(c)
    PROVE  TypeInv'
<1>0. /\ EntriesOK /\ LocalsOK
      /\ job[c] \in Jobs /\ RevOf(c) \in Revs
      /\ doc[c] \in Files /\ built[c] \in Files
      /\ \A r \in Revs : lock[r] = c =>
            /\ pc[c] \in {"build", "save", "list", "stat", "evict"}
            /\ role[c] = "holder"
  BY CommandType
<1>1. CASE Resolve(c)
  <2>1. PICK l \in {"look", "build"} :
            /\ Goto(c, l)
            /\ l = "look" => UNCHANGED role
            /\ l = "build" => role' = [role EXCEPT ![c] = "unresolved"]
    BY <1>0, <1>1 DEF Resolve
  <2>2. UNCHANGED <<job, entry, used, lock, doc, polls, built, listed, victims, outcome>>
    BY <1>0, <1>1 DEF Resolve, entryVars, evictVars
  <2>3. /\ role' \in [Commands -> {"none", "unresolved", "holder", "open", "waiter"}]
        /\ \A d \in Commands \ {c} : role'[d] = role[d]
        /\ l = "look" => role'[c] \in {"none", "waiter"}
    BY <1>0, <1>1, <2>1 DEF Resolve, TypeInv, TypeOK
  <2>4. polls'[c] < Polls /\ pc[c] = "resolve"
    BY <1>0, <1>1, <2>2 DEF Resolve, TypeInv
  <2>5. EntriesOK'
    BY <1>0, <2>2 DEF EntriesOK
  <2>8. LocalsOK'
    BY <1>0, <2>1, <2>2, <2>3, <2>4, <2>5 DEF LocalsOK
  <2> QED BY <1>0, <2>1, <2>2, <2>3, <2>4, <2>5, <2>8, GoOnType
<1>2. CASE Load(c)
  <2>1. /\ Goto(c, "judge") /\ pc[c] = "look"
        /\ doc' = [doc EXCEPT ![c] = entry[RevOf(c)]]
        /\ UNCHANGED <<job, entry, used, lock, role, polls, built, listed, victims, outcome>>
    BY <1>0, <1>2 DEF Load, entryVars, evictVars
  <2>2. EntriesOK'
    BY <1>0, <2>1 DEF EntriesOK
  <2>3. doc' \in [Commands -> Files]
    BY <1>0, <2>1 DEF TypeInv, TypeOK
  <2>4. role'[c] \in {"none", "waiter"} /\ polls'[c] < Polls
    BY <2>1 DEF TypeInv
  <2>8. LocalsOK'
    BY <1>0, <2>1, <2>2, <2>3 DEF LocalsOK
  <2> QED BY <1>0, <2>1, <2>2, <2>3, <2>4, <2>8, GoOnType
<1>3. CASE LoadNothing(c) \/ LoadStale(c)
  <2>1. /\ pc[c] = "judge" /\ Miss(c)
        /\ UNCHANGED <<job, lock, role, doc, built, listed, victims, outcome>>
    BY <1>0, <1>3 DEF LoadNothing, LoadStale, entryVars, evictVars
  <2>2. PICK l \in {"look", "lock", "build"} :
              /\ Goto(c, l)
              /\ polls' \in [Commands -> 0 .. Polls]
              /\ \A d \in Commands \ {c} : polls'[d] = polls[d]
              /\ l \in {"look", "lock"} => polls'[c] < Polls
    BY <1>0, <2>1, MissType
  <2>3. EntriesOK'
    <3>1. CASE LoadNothing(c)
      BY <1>0, <3>1 DEF LoadNothing, EntriesOK, entryVars
    <3>2. CASE LoadStale(c)
      BY <1>0, <3>2, Unlinked DEF LoadStale
    <3> QED BY <1>3, <3>1, <3>2
  <2>4. \A r \in Revs : lock'[r] # c
    BY <1>0, <2>1
  <2>5. role'[c] \in {"none", "waiter"}
    BY <1>0, <2>1 DEF TypeInv
  <2>8. LocalsOK'
    BY <1>0, <2>1, <2>2, <2>3, <2>4, <2>5 DEF LocalsOK
  <2> QED BY <1>0, <2>1, <2>2, <2>3, <2>4, <2>5, <2>8, GoOnType
<1> QED BY <1>1, <1>2, <1>3

LEMMA LockType ==
    ASSUME TypeInv, NEW c \in Commands, TryLock(c)
    PROVE  TypeInv'
<1>0. /\ EntriesOK /\ LocalsOK
      /\ job[c] \in Jobs /\ RevOf(c) \in Revs
      /\ doc[c] \in Files /\ built[c] \in Files
      /\ \A r \in Revs : lock[r] = c =>
            /\ pc[c] \in {"build", "save", "list", "stat", "evict"}
            /\ role[c] = "holder"
  BY CommandType
<1>1. /\ pc[c] = "lock"
      /\ UNCHANGED <<job, entry, used, doc, polls, built, listed, victims, outcome>>
  BY <1>0 DEF TryLock, entryVars, evictVars
<1>2. EntriesOK'
  BY <1>0, <1>1 DEF EntriesOK
<1>3. polls'[c] < Polls
  BY <1>0, <1>1 DEF TypeInv
<1>4. CASE /\ lock' = [lock EXCEPT ![RevOf(c)] = c]
           /\ role' = [role EXCEPT ![c] = "holder"]
           /\ Goto(c, "build")
  <2>1. /\ role' \in [Commands -> {"none", "unresolved", "holder", "open", "waiter"}]
        /\ \A d \in Commands \ {c} : role'[d] = role[d]
        /\ role'[c] = "holder"
        /\ lock' \in [Revs -> Commands \cup {NoCommand}]
        /\ \A r \in Revs : lock'[r] # lock[r] => lock'[r] = c
    BY <1>0, <1>4 DEF TypeInv, TypeOK
  <2>8. LocalsOK'
    BY <1>0, <1>1, <1>2, <1>4, <2>1 DEF LocalsOK
  <2> QED BY <1>0, <1>1, <1>2, <1>4, <2>1, <2>8, GoOnType
<1>5. CASE /\ UNCHANGED lock
           /\ \E l \in {"look", "build"}, x \in {"waiter", "open"} :
                 /\ Goto(c, l) /\ role' = [role EXCEPT ![c] = x]
                 /\ l = "look" => x = "waiter"
  <2>1. PICK l \in {"look", "build"}, x \in {"waiter", "open"} :
            /\ Goto(c, l) /\ role' = [role EXCEPT ![c] = x]
            /\ l = "look" => x = "waiter"
    BY <1>0, <1>5
  <2>2. /\ role' \in [Commands -> {"none", "unresolved", "holder", "open", "waiter"}]
        /\ \A d \in Commands \ {c} : role'[d] = role[d]
        /\ role'[c] = x
    BY <1>0, <2>1 DEF TypeInv, TypeOK
  <2>3. \A r \in Revs : lock'[r] # c
    BY <1>0, <1>1, <1>5
  <2>8. LocalsOK'
    BY <1>0, <1>1, <1>2, <1>3, <1>5, <2>1, <2>2, <2>3 DEF LocalsOK
  <2> QED BY <1>0, <1>1, <1>2, <1>3, <1>5, <2>1, <2>2, <2>3, <2>8, GoOnType
<1> QED BY <1>4, <1>5 DEF TryLock

LEMMA WorkType ==
    ASSUME TypeInv, NEW c \in Commands,
           Build(c) \/ Save(c) \/ List(c) \/ Stat(c) \/ Evict(c)
    PROVE  TypeInv'
<1>0. /\ EntriesOK /\ LocalsOK
      /\ job[c] \in Jobs /\ RevOf(c) \in Revs
      /\ doc[c] \in Files /\ built[c] \in Files
      /\ \A r \in Revs : lock[r] = c =>
            /\ pc[c] \in {"build", "save", "list", "stat", "evict"}
            /\ role[c] = "holder"
  BY CommandType
<1>1. CASE Build(c)
  <2>1. PICK snap \in Snapshots : built' = [built EXCEPT ![c] = Saved(snap)]
    <3>1. PICK whole \in BOOLEAN :
              built' = [built EXCEPT ![c] =
                          Saved([options |-> job[c].options,
                                 build |-> job[c].build, whole |-> whole])]
      BY <1>0, <1>1, RevCacheAssumption DEF Build
    <3>2. [options |-> job[c].options, build |-> job[c].build, whole |-> whole]
              \in Snapshots
      BY <1>0 DEF Jobs, Snapshots
    <3> QED BY <3>1, <3>2
  <2>2. Saved(snap) \in Files /\ Saved(snap).kind = "saved"
    BY <1>0, FileKinds DEF Saved
  <2>3. /\ Goto(c, "save") /\ pc[c] = "build"
        /\ UNCHANGED <<job, entry, used, lock, role, doc, polls, listed, victims, outcome>>
    BY <1>0, <1>1 DEF Build, entryVars, evictVars
  <2>4. /\ built' \in [Commands -> Files] /\ built'[c].kind = "saved"
        /\ \A d \in Commands \ {c} : built'[d] = built[d]
    BY <1>0, <2>1, <2>2 DEF TypeInv, TypeOK
  <2>5. EntriesOK'
    BY <1>0, <2>3 DEF EntriesOK
  <2>8. LocalsOK'
    BY <1>0, <2>3, <2>4, <2>5 DEF LocalsOK
  <2> QED BY <1>0, <2>3, <2>4, <2>5, <2>8, GoOnType
<1>2. CASE Save(c)
  <2>1. /\ Goto(c, "list") /\ pc[c] = "save"
        /\ entry' = [entry EXCEPT ![RevOf(c)] = built[c]]
        /\ used' = UsedNow(RevOf(c))
        /\ UNCHANGED <<job, lock, role, doc, polls, built, listed, victims, outcome>>
    BY <1>0, <1>2 DEF Save, evictVars
  <2>2. built[c].kind = "saved"
    BY <1>0, <2>1 DEF TypeInv
  <2>3. EntriesOK'
    BY <1>0, <2>1, <2>2, Written, FileKinds
  <2>8. LocalsOK'
    BY <1>0, <2>1, <2>2, <2>3 DEF LocalsOK
  <2> QED BY <1>0, <2>1, <2>2, <2>3, <2>8, GoOnType
<1>3. CASE List(c)
  <2>1. /\ Goto(c, "stat") /\ pc[c] = "list"
        /\ listed' = [listed EXCEPT ![c] = ToSet(used)]
        /\ UNCHANGED <<job, entry, used, lock, role, doc, polls, built, victims, outcome>>
    BY <1>0, <1>3 DEF List, entryVars
  <2>2. built[c].kind = "saved"
    BY <1>0, <2>1 DEF TypeInv
  <2>3. EntriesOK'
    BY <1>0, <2>1 DEF EntriesOK
  <2>4. listed' \in [Commands -> SUBSET Revs]
    BY <1>0, <2>1 DEF TypeInv, TypeOK
  <2>8. LocalsOK'
    BY <1>0, <2>1, <2>2, <2>3, <2>4 DEF LocalsOK
  <2> QED BY <1>0, <2>1, <2>2, <2>3, <2>4, <2>8, GoOnType
<1>4. CASE Stat(c)
  <2>1. /\ Goto(c, "evict") /\ pc[c] = "stat"
        /\ victims' = [victims EXCEPT ![c] = Oldest(listed[c])]
        /\ listed[c] \in SUBSET ToSet(used)
        /\ UNCHANGED <<job, entry, used, lock, role, doc, polls, built, listed, outcome>>
    BY <1>0, <1>4 DEF Stat, entryVars
  <2>2. built[c].kind = "saved"
    BY <1>0, <2>1 DEF TypeInv
  <2>3. EntriesOK'
    BY <1>0, <2>1 DEF EntriesOK
  <2>4. victims' \in [Commands -> Seq(Revs)]
    BY <1>0, <2>1, OldestLeavesFew DEF TypeInv, TypeOK, EntriesOK
  <2>8. LocalsOK'
    BY <1>0, <2>1, <2>2, <2>3, <2>4 DEF LocalsOK
  <2> QED BY <1>0, <2>1, <2>2, <2>3, <2>4, <2>8, GoOnType
<1>5. CASE Evict(c)
  <2>1. /\ pc[c] = "evict" /\ victims[c] # <<>>
        /\ entry' = [entry EXCEPT ![Head(victims[c])] = Nothing]
        /\ used' = Forget(Head(victims[c]))
        /\ victims' = [victims EXCEPT ![c] = Tail(victims[c])]
        /\ UNCHANGED <<job, lock, pc, role, doc, polls, built, listed, outcome>>
    BY <1>0, <1>5 DEF Evict
  <2>2. victims[c] \in Seq(Revs)
    BY <1>0 DEF TypeInv, TypeOK
  <2>3. Head(victims[c]) \in Revs /\ Tail(victims[c]) \in Seq(Revs)
    BY <1>0, <2>1, <2>2
  <2>4. EntriesOK'
    BY <1>0, <2>1, <2>3, Unlinked
  <2>5. victims' \in [Commands -> Seq(Revs)]
    BY <1>0, <2>1, <2>3 DEF TypeInv, TypeOK
  <2> QED BY <2>1, <2>4, <2>5 DEF TypeInv, TypeOK, EntriesOK
<1> QED BY <1>1, <1>2, <1>3, <1>4, <1>5

\* Every way in which a command ends.
LEMMA OverType ==
    ASSUME TypeInv, NEW c \in Commands,
           \/ LoadHit(c) \/ ExportFails(c) \/ SkipSave(c) \/ StatFails(c)
           \/ Evicted(c) \/ Die(c)
    PROVE  TypeInv'
<1>0. /\ EntriesOK /\ LocalsOK
      /\ job[c] \in Jobs /\ RevOf(c) \in Revs
      /\ doc[c] \in Files /\ built[c] \in Files
      /\ \A r \in Revs : lock[r] = c =>
            /\ pc[c] \in {"build", "save", "list", "stat", "evict"}
            /\ role[c] = "holder"
  BY CommandType
<1>1. \E o \in Outcomes : o.kind # "none" /\ End(c, o)
  <2>1. CASE LoadHit(c)
    <3>1. doc[c].snap \in Snapshots
      BY <1>0, <2>1, FileKinds DEF LoadHit, IsCurrent
    <3> QED BY <2>1, <3>1 DEF LoadHit, Outcomes
  <2>2. CASE SkipSave(c) \/ Evicted(c)
    <3>1. built[c].kind = "saved" /\ Answer(c)
      BY <1>0, <2>2 DEF SkipSave, Evicted, TypeInv
    <3>2. built[c].snap \in Snapshots
      BY <1>0, <3>1, FileKinds
    <3> QED BY <3>1, <3>2 DEF Answer, Outcomes
  <2>3. CASE ExportFails(c) \/ StatFails(c) \/ Die(c)
    <3>1. \E k \in {"no-export", "file-not-found", "killed"} : End(c, [kind |-> k])
      BY <1>0, <2>3 DEF ExportFails, StatFails, Die
    <3> QED BY <3>1 DEF Outcomes
  <2> QED BY <2>1, <2>2, <2>3
<1>2. UNCHANGED <<job, role, doc, polls, built, evictVars>>
  BY <1>0 DEF LoadHit, ExportFails, SkipSave, StatFails, Evicted, Die
<1>3. EntriesOK'
  <2>1. CASE LoadHit(c)
    <3> DEFINE f == IF entry[RevOf(c)] = Nothing THEN Blank ELSE entry[RevOf(c)]
    <3>1. f \in Files \ {Nothing}
      BY <1>0, FileKinds DEF EntriesOK
    <3>2. entry' = [entry EXCEPT ![RevOf(c)] = f] /\ used' = UsedNow(RevOf(c))
      BY <1>0, <2>1 DEF LoadHit
    <3> HIDE DEF f
    <3> QED BY <1>0, <3>1, <3>2, Written
  <2>2. CASE ~LoadHit(c)
    BY <1>0, <2>2 DEF ExportFails, SkipSave, StatFails, Evicted, Die, entryVars, EntriesOK
  <2> QED BY <2>1, <2>2
<1> QED BY <1>1, <1>2, <1>3, EndType

LEMMA TypeStep == TypeInv /\ [Next]_vars => TypeInv'
<1> SUFFICES ASSUME TypeInv, [Next]_vars PROVE TypeInv'
  OBVIOUS
<1>1. CASE UNCHANGED vars
  BY <1>1 DEF vars, entryVars, evictVars, TypeInv, TypeOK
<1>2. CASE \E c \in Commands : Step(c) \/ Die(c)
  BY <1>2, LookType, LockType, WorkType, OverType DEF Step
<1> QED BY <1>1, <1>2 DEF Next

(***************************************************************************)
(* Every variable keeps its type, and with it: a file is in the order of   *)
(* use exactly while it exists, a lock is held only by a command at work   *)
(* on a miss and is dropped on every way out, and no command ends without  *)
(* an outcome or goes on after one.                                        *)
(***************************************************************************)
THEOREM TypeCorrect == Spec => []TypeOK
<1>1. TypeInv => TypeOK
  BY DEF TypeInv
<1> QED BY <1>1, TypeInit, TypeStep, PTL DEF Spec

-----------------------------------------------------------------------------
(* The bound.                                                              *)

Evicting == {"list", "stat", "evict"}

\* Commands that added a file, or may have, and have not seen to the bound.
Owing == {c \in Commands :
            \/ pc[c] \in Evicting
            \/ outcome[c].kind \in {"killed", "file-not-found", "cached"}}

RevsOf(C) == {RevOf(c) : c \in C}
WithinCap(K) == IsFiniteSet(K) /\ Cardinality(K) <= MaxEntries

(***************************************************************************)
(* What a command in its eviction will leave: no more than the cap of what *)
(* it listed, and what the commands in L[c] added after it listed.  All of *)
(* those still owe, and one of them that evicts too listed later.          *)
(***************************************************************************)
Promises(D, L, c) ==
    /\ pc[c] = "list" => L[c] = {}
    /\ pc[c] \in {"stat", "evict"} =>
          /\ c \notin L[c] /\ L[c] \subseteq D
          /\ \A d \in L[c] : pc[d] \in Evicting => L[d] \subseteq L[c]
    /\ pc[c] = "stat" => ToSet(used) \subseteq listed[c] \cup RevsOf(L[c])
    /\ pc[c] = "evict" =>
          \E K : WithinCap(K)
                 /\ ToSet(used) \subseteq K \cup ToSet(victims[c]) \cup RevsOf(L[c])

\* The files are those the last complete eviction left, Q, and one for each
\* command of D that has added one since.
Covers(Q, D, L) ==
    /\ WithinCap(Q)
    /\ D \subseteq Owing
    /\ L \in [Commands -> SUBSET Commands]
    /\ ToSet(used) \subseteq Q \cup RevsOf(D)
    /\ \A c \in D : Promises(D, L, c)

(***************************************************************************)
(* When an eviction completes, what was added after its listing is owed by *)
(* commands that have yet to evict, or never will: had one of them evicted *)
(* already, it would have listed later and left no more than the cap       *)
(* itself.  The prophecy of who owes what is not state of the code, so it  *)
(* is quantified.  Only commands that have begun owe: they are finitely    *)
(* many, however many commands there may be.                               *)
(***************************************************************************)
BoundInv ==
    /\ IsFiniteSet({c \in Commands : pc[c] # "resolve"})
    /\ \E Q, D, L : Covers(Q, D, L)

\* A command that does not step stays as it is.
OthersStay(c) ==
    \A d \in Commands \ {c} :
        /\ pc'[d] = pc[d] /\ outcome'[d] = outcome[d]
        /\ listed'[d] = listed[d] /\ victims'[d] = victims[d]

LEMMA StaysCovered ==
    ASSUME NEW Q, NEW D, NEW L, Covers(Q, D, L), NEW c \in Commands,
           OthersStay(c), UNCHANGED job, ToSet(used') \subseteq ToSet(used),
           c \in D => pc[c] \in Evicting /\ c \in Owing' /\ Promises(D, L, c)'
    PROVE  Covers(Q, D, L)'
<1>1. D \subseteq Owing'
  BY DEF Covers, Owing, OthersStay
<1>2. \A C : RevsOf(C)' = RevsOf(C)
  BY DEF RevsOf, RevOf
<1>3. ASSUME NEW d \in D, d # c PROVE Promises(D, L, d)'
  <2>1. /\ Promises(D, L, d) /\ d \in Commands
        /\ pc'[d] = pc[d] /\ listed'[d] = listed[d] /\ victims'[d] = victims[d]
    BY <1>3 DEF Covers, OthersStay, Owing
  <2>2. ASSUME pc[d] \in {"stat", "evict"}, NEW e \in L[d], pc'[e] \in Evicting
        PROVE  pc[e] \in Evicting
    <3>1. e \in D /\ e \in Commands
      BY <2>1, <2>2 DEF Promises, Covers, Owing
    <3> QED BY <2>2, <3>1 DEF OthersStay
  <2> QED BY <1>2, <2>1, <2>2 DEF Promises, WithinCap
<1>4. ToSet(used') \subseteq Q \cup RevsOf(D)'
  BY <1>2 DEF Covers
<1> QED BY <1>1, <1>3, <1>4 DEF Covers, WithinCap

\* A command that adds a file, or touches one, owes from then on.
LEMMA OwesNow ==
    ASSUME NEW Q, NEW D, NEW L, Covers(Q, D, L), NEW c \in Commands,
           c \notin D, pc[c] \notin Evicting, OthersStay(c), UNCHANGED job,
           ToSet(used') \subseteq ToSet(used) \cup {RevOf(c)},
           pc'[c] \notin {"stat", "evict"}, c \in Owing'
    PROVE  \E LL : Covers(Q, D \cup {c}, LL)'
<1> DEFINE E == D \cup {c}
<1>0. PICK LL : LL = [d \in Commands |->
                        IF pc[d] \in {"stat", "evict"} THEN L[d] \cup {c} ELSE {}]
  OBVIOUS
<1>1. E \subseteq Owing' /\ LL \in [Commands -> SUBSET Commands]
  BY <1>0 DEF Covers, Owing, OthersStay
<1>2. \A C : RevsOf(C)' = RevsOf(C) /\ RevsOf(C \cup {c}) = RevsOf(C) \cup {RevOf(c)}
  BY DEF RevsOf, RevOf
<1>3. ToSet(used') \subseteq Q \cup RevsOf(E)'
  BY <1>2 DEF Covers
<1>4. LL[c] = {}
  BY <1>0 DEF Evicting
<1>5. \A d \in Commands : pc[d] \in {"stat", "evict"} => LL[d] = L[d] \cup {c}
  BY <1>0
<1>6. \A d \in Commands : LL[d] = {} \/ LL[d] = L[d] \cup {c}
  BY <1>0
<1>7. \A d \in Commands : pc[d] = "list" => LL[d] = {}
  BY <1>0
<1>8. ASSUME NEW d \in D PROVE Promises(E, LL, d)'
  <2>1. /\ Promises(D, L, d) /\ d \in Commands /\ d # c
        /\ pc'[d] = pc[d] /\ listed'[d] = listed[d] /\ victims'[d] = victims[d]
    BY DEF Covers, OthersStay, Owing
  <2>2. pc'[d] = "list" => LL[d] = {}
    BY <1>7, <2>1
  <2>3. ASSUME pc'[d] \in {"stat", "evict"}
        PROVE  /\ LL[d] = L[d] \cup {c}
               /\ d \notin LL[d] /\ LL[d] \subseteq E
               /\ \A e \in LL[d] : pc'[e] \in Evicting => LL[e] \subseteq LL[d]
    <3>1. LL[d] = L[d] \cup {c} /\ d \notin L[d] /\ L[d] \subseteq D
      BY <1>5, <2>1, <2>3 DEF Promises
    <3>2. ASSUME NEW e \in L[d], e # c, pc'[e] \in Evicting
          PROVE  LL[e] \subseteq LL[d]
      <4>1. e \in Commands
        BY <2>1, <3>2 DEF Covers
      <4>2. L[e] \subseteq L[d]
        BY <2>1, <2>3, <3>2, <4>1 DEF Promises, OthersStay
      <4> QED BY <1>6, <3>1, <4>1, <4>2
    <3> QED BY <1>4, <2>1, <3>1, <3>2
  <2>4. pc'[d] = "stat" => ToSet(used') \subseteq listed'[d] \cup RevsOf(LL[d])'
    BY <1>2, <2>1, <2>3 DEF Promises
  <2>5. ASSUME pc'[d] = "evict"
        PROVE  \E K : WithinCap(K)
                 /\ ToSet(used') \subseteq K \cup ToSet(victims'[d]) \cup RevsOf(LL[d])'
    <3>1. PICK K : WithinCap(K)
                 /\ ToSet(used) \subseteq K \cup ToSet(victims[d]) \cup RevsOf(L[d])
      BY <2>1, <2>5 DEF Promises
    <3>2. RevsOf(LL[d])' = RevsOf(L[d]) \cup {RevOf(c)}
      BY <1>2, <2>3, <2>5
    <3> QED BY <2>1, <3>1, <3>2
  <2> QED BY <2>2, <2>3, <2>4, <2>5 DEF Promises, WithinCap
<1>9. Promises(E, LL, c)'
  BY <1>4 DEF Promises
<1> QED BY <1>1, <1>3, <1>8, <1>9 DEF Covers, WithinCap

\* An eviction that completes settles what everybody owed at its listing.
LEMMA Settles ==
    ASSUME NEW Q, NEW D, NEW L, Covers(Q, D, L), NEW c \in D,
           pc[c] = "evict", victims[c] = <<>>, OthersStay(c),
           UNCHANGED <<job, used>>
    PROVE  \E K : Covers(K, L[c], L)'
<1>1. /\ c \in Commands /\ c \notin L[c] /\ L[c] \subseteq D
      /\ \A d \in L[c] : pc[d] \in Evicting => L[d] \subseteq L[c]
  BY DEF Covers, Owing, Promises
<1>2. PICK K : WithinCap(K) /\ ToSet(used) \subseteq K \cup RevsOf(L[c])
  BY DEF Covers, Promises, ToSet
<1>3. \A C : RevsOf(C)' = RevsOf(C)
  BY DEF RevsOf, RevOf
<1>4. L[c] \subseteq Owing'
  BY <1>1 DEF Covers, Owing, OthersStay
<1>5. ASSUME NEW d \in L[c] PROVE Promises(L[c], L, d)'
  <2>1. /\ Promises(D, L, d) /\ d \in Commands
        /\ pc'[d] = pc[d] /\ listed'[d] = listed[d] /\ victims'[d] = victims[d]
    BY <1>1 DEF Covers, OthersStay, Owing
  <2>2. ASSUME pc[d] \in {"stat", "evict"}
        PROVE  /\ L[d] \subseteq L[c]
               /\ \A e \in L[d] : e # c /\ pc'[e] = pc[e]
    <3>1. L[d] \subseteq L[c]
      BY <1>1, <2>2 DEF Evicting
    <3> QED BY <1>1, <3>1 DEF Covers, Owing, OthersStay
  <2> QED BY <1>3, <2>1, <2>2 DEF Promises, WithinCap
<1> QED BY <1>2, <1>3, <1>4, <1>5 DEF Covers, WithinCap

LEMMA BoundInit == Init => BoundInv
<1> SUFFICES ASSUME Init PROVE BoundInv
  OBVIOUS
<1>1. {c \in Commands : pc[c] # "resolve"} = {} /\ ToSet(used) = {}
  BY DEF Init, ToSet
<1>2. PICK L : L = [c \in Commands |-> {}]
  OBVIOUS
<1>3. WithinCap({})
  BY FS_EmptySet, RevCacheAssumption DEF WithinCap
<1>4. Covers({}, {}, L)
  BY <1>1, <1>2, <1>3 DEF Covers
<1> QED BY <1>1, <1>4, FS_EmptySet DEF BoundInv

\* One step of a command starts no other.
LEMMA BegunFinite ==
    ASSUME IsFiniteSet({c \in Commands : pc[c] # "resolve"}),
           NEW c \in Commands, OthersStay(c)
    PROVE  IsFiniteSet({d \in Commands : pc'[d] # "resolve"})
<1> DEFINE B == {d \in Commands : pc[d] # "resolve"}
           C == {d \in Commands : pc'[d] # "resolve"}
<1>1. IsFiniteSet(B \cup {c})
  BY FS_AddElement
<1>2. C \in SUBSET (B \cup {c})
  BY DEF OthersStay
<1> HIDE DEF B, C
<1>3. IsFiniteSet(C)
  BY <1>1, <1>2, FS_Subset
<1> QED BY <1>3 DEF C

\* What a step leaves alone, and whether its command owes.
LEMMA StepFrame ==
    ASSUME TypeInv, NEW c \in Commands, Step(c) \/ Die(c)
    PROVE  /\ OthersStay(c) /\ UNCHANGED job
           /\ c \in Owing <=> pc[c] \in Evicting
<1>1. UNCHANGED job
  BY DEF Step, Resolve, Load, LoadNothing, LoadStale, LoadHit, TryLock, Build,
         ExportFails, SkipSave, Save, List, Stat, StatFails, Evict, Evicted, Die
<1>2. pc' = pc \/ \E l : pc' = [pc EXCEPT ![c] = l]
  BY DEF Step, Resolve, Load, LoadNothing, LoadStale, LoadHit, TryLock, Build,
         ExportFails, SkipSave, Save, List, Stat, StatFails, Evict, Evicted, Die,
         Goto, Miss, End, Answer
<1>3. outcome' = outcome \/ \E o : outcome' = [outcome EXCEPT ![c] = o]
  BY DEF Step, Resolve, Load, LoadNothing, LoadStale, LoadHit, TryLock, Build,
         ExportFails, SkipSave, Save, List, Stat, StatFails, Evict, Evicted, Die,
         End, Answer
<1>4. /\ listed' = listed \/ \E x : listed' = [listed EXCEPT ![c] = x]
      /\ victims' = victims \/ \E x : victims' = [victims EXCEPT ![c] = x]
  BY DEF Step, Resolve, Load, LoadNothing, LoadStale, LoadHit, TryLock, Build,
         ExportFails, SkipSave, Save, List, Stat, StatFails, Evict, Evicted, Die,
         evictVars
<1>5. OthersStay(c)
  BY <1>2, <1>3, <1>4 DEF OthersStay, TypeInv, TypeOK
<1>6. pc[c] # "done"
  BY DEF Step, Resolve, Load, LoadNothing, LoadStale, LoadHit, TryLock, Build,
         ExportFails, SkipSave, Save, List, Stat, StatFails, Evict, Evicted, Die
<1>7. outcome[c].kind = "none"
  BY <1>6 DEF TypeInv, TypeOK
<1>8. c \in Owing <=> pc[c] \in Evicting
  BY <1>7 DEF Owing
<1> QED BY <1>1, <1>5, <1>8

\* Before it writes, a command owes nothing.
LEMMA BeforeWriting ==
    ASSUME TypeInv, NEW c \in Commands,
           NEW Q, NEW D, NEW L, Covers(Q, D, L),
           \/ Resolve(c) \/ Load(c) \/ LoadNothing(c) \/ LoadStale(c)
           \/ TryLock(c) \/ Build(c) \/ ExportFails(c) \/ SkipSave(c)
    PROVE  Covers(Q, D, L)'
<1>1. pc[c] \notin Evicting
  BY DEF Resolve, Load, LoadNothing, LoadStale, TryLock, Build, ExportFails,
         SkipSave, Evicting
<1>2. OthersStay(c) /\ UNCHANGED job /\ c \notin D
  BY <1>1, StepFrame DEF Step, Covers
<1>3. ToSet(used') \subseteq ToSet(used)
  <2>1. used' = used \/ used' = Forget(RevOf(c))
    BY DEF Resolve, Load, LoadNothing, LoadStale, TryLock, Build, ExportFails,
           SkipSave, entryVars
  <2> QED BY <2>1, CommandType, UseOf
<1> QED BY <1>2, <1>3, StaysCovered

\* Writing an entry, and touching one.
LEMMA Writing ==
    ASSUME TypeInv, NEW c \in Commands,
           NEW Q, NEW D, NEW L, Covers(Q, D, L), Save(c) \/ LoadHit(c)
    PROVE  \E LL : Covers(Q, D \cup {c}, LL)'
<1>1. pc[c] \notin Evicting
  BY DEF Save, LoadHit, Evicting
<1>2. OthersStay(c) /\ UNCHANGED job /\ c \notin D
  BY <1>1, StepFrame DEF Step, Covers
<1>3. used' = UsedNow(RevOf(c))
  BY DEF Save, LoadHit
<1>4. ToSet(used') \subseteq ToSet(used) \cup {RevOf(c)}
  BY <1>3, CommandType, UseOf
<1>5. pc'[c] \notin {"stat", "evict"} /\ c \in Owing'
  <2>1. CASE Save(c)
    <3>1. pc'[c] = "list"
      BY <2>1 DEF Save, Goto, TypeInv, TypeOK
    <3> QED BY <3>1 DEF Owing, Evicting
  <2>2. CASE LoadHit(c)
    <3>1. pc'[c] = "done" /\ outcome'[c].kind = "cached"
      BY <2>2 DEF LoadHit, End, Goto, TypeInv, TypeOK
    <3> QED BY <3>1 DEF Owing
  <2> QED BY <2>1, <2>2
<1> QED BY <1>1, <1>2, <1>4, <1>5, OwesNow

\* Evicting, and what cuts an eviction short.
LEMMA Evicts ==
    ASSUME TypeInv, NEW c \in Commands,
           NEW Q, NEW D, NEW L, Covers(Q, D, L),
           List(c) \/ Stat(c) \/ Evict(c) \/ StatFails(c) \/ Die(c)
    PROVE  Covers(Q, D, L)'
<1>1. OthersStay(c) /\ UNCHANGED job /\ (c \in D => pc[c] \in Evicting)
  BY StepFrame DEF Step, Covers
<1>2. \A C : RevsOf(C)' = RevsOf(C)
  BY <1>1 DEF RevsOf, RevOf
<1>3. c \in D => Promises(D, L, c)
  BY DEF Covers
<1>4. CASE List(c)
  <2>1. /\ pc[c] = "list" /\ pc'[c] = "stat"
        /\ listed'[c] = ToSet(used) /\ UNCHANGED used
    BY <1>4 DEF List, Goto, TypeInv, TypeOK, entryVars
  <2>2. c \in D => Promises(D, L, c)'
    BY <1>3, <2>1 DEF Promises
  <2>3. c \in Owing'
    BY <2>1 DEF Owing, Evicting
  <2> QED BY <1>1, <2>1, <2>2, <2>3, StaysCovered
<1>5. CASE Stat(c)
  <2>1. /\ pc[c] = "stat" /\ pc'[c] = "evict"
        /\ victims'[c] = Oldest(listed[c])
        /\ listed[c] \in SUBSET ToSet(used) /\ UNCHANGED used
    BY <1>5 DEF Stat, Goto, TypeInv, TypeOK, entryVars
  <2>2. PICK K : WithinCap(K) /\ listed[c] \subseteq K \cup ToSet(Oldest(listed[c]))
    BY <2>1, OldestLeavesFew DEF TypeInv, TypeOK, WithinCap
  <2>3. ASSUME c \in D PROVE Promises(D, L, c)'
    <3>1. /\ c \notin L[c] /\ L[c] \subseteq D
          /\ \A d \in L[c] : pc[d] \in Evicting => L[d] \subseteq L[c]
          /\ ToSet(used) \subseteq listed[c] \cup RevsOf(L[c])
      BY <1>3, <2>1, <2>3 DEF Promises
    <3>2. \A d \in L[c] : pc'[d] = pc[d]
      BY <1>1, <3>1 DEF Covers, Owing, OthersStay
    <3>3. ToSet(used') \subseteq K \cup ToSet(victims'[c]) \cup RevsOf(L[c])'
      BY <1>2, <2>1, <2>2, <3>1
    <3> QED BY <2>1, <2>2, <3>1, <3>2, <3>3 DEF Promises, WithinCap
  <2>4. c \in Owing'
    BY <2>1 DEF Owing, Evicting
  <2> QED BY <1>1, <2>1, <2>3, <2>4, StaysCovered
<1>6. CASE Evict(c)
  <2> DEFINE r == Head(victims[c])
  <2>1. /\ pc[c] = "evict" /\ pc' = pc /\ victims[c] # <<>>
        /\ victims'[c] = Tail(victims[c]) /\ used' = Forget(r)
    BY <1>6 DEF Evict, TypeInv, TypeOK
  <2>2. victims[c] \in Seq(Revs)
    BY DEF TypeInv, TypeOK
  <2>3. r \in Revs /\ ToSet(victims[c]) = ToSet(Tail(victims[c])) \cup {r}
    <3>1. r \in Revs /\ r = victims[c][1]
      BY <2>1, <2>2
    <3>2. ASSUME NEW i \in DOMAIN victims[c], i # 1
          PROVE  /\ i - 1 \in DOMAIN Tail(victims[c])
                 /\ Tail(victims[c])[i - 1] = victims[c][i]
      BY <2>1, <2>2, <3>2
    <3>3. ASSUME NEW i \in DOMAIN Tail(victims[c])
          PROVE  /\ i + 1 \in DOMAIN victims[c]
                 /\ Tail(victims[c])[i] = victims[c][i + 1]
      BY <2>1, <2>2, <3>3
    <3>4. 1 \in DOMAIN victims[c]
      BY <2>1, <2>2
    <3> QED BY <3>1, <3>2, <3>3, <3>4 DEF ToSet
  <2>4. ToSet(used') = ToSet(used) \ {r}
    BY <2>1, <2>3, CommandType, UseOf
  <2> HIDE DEF r
  <2>5. ASSUME c \in D PROVE Promises(D, L, c)'
    <3>1. PICK K : WithinCap(K)
             /\ ToSet(used) \subseteq K \cup ToSet(victims[c]) \cup RevsOf(L[c])
      BY <1>3, <2>1, <2>5 DEF Promises
    <3>2. ToSet(used') \subseteq K \cup ToSet(victims'[c]) \cup RevsOf(L[c])'
      BY <1>2, <2>1, <2>3, <2>4, <3>1
    <3> QED BY <1>3, <2>1, <2>5, <3>1, <3>2 DEF Promises, WithinCap
  <2>6. c \in Owing'
    BY <2>1 DEF Owing, Evicting
  <2> QED BY <1>1, <2>4, <2>5, <2>6, StaysCovered
<1>7. CASE StatFails(c) \/ Die(c)
  <2>1. /\ pc'[c] = "done" /\ UNCHANGED used
        /\ outcome'[c].kind \in {"file-not-found", "killed"}
    BY <1>7 DEF StatFails, Die, End, Goto, TypeInv, TypeOK, entryVars
  <2>2. Promises(D, L, c)' /\ c \in Owing'
    BY <2>1 DEF Promises, Owing
  <2> QED BY <1>1, <2>1, <2>2, StaysCovered
<1> QED BY <1>4, <1>5, <1>6, <1>7

LEMMA Completes ==
    ASSUME TypeInv, NEW c \in Commands,
           NEW Q, NEW D, NEW L, Covers(Q, D, L), Evicted(c)
    PROVE  \E P, E : Covers(P, E, L)'
<1>1. /\ OthersStay(c) /\ pc[c] = "evict" /\ victims[c] = <<>>
      /\ UNCHANGED <<job, used>>
  BY StepFrame DEF Step, Evicted, entryVars
<1>2. CASE c \in D
  BY <1>1, <1>2, Settles
<1>3. CASE c \notin D
  BY <1>1, <1>3, StaysCovered
<1> QED BY <1>2, <1>3

LEMMA BoundStep == TypeInv /\ BoundInv /\ [Next]_vars => BoundInv'
<1> SUFFICES ASSUME TypeInv, BoundInv, [Next]_vars PROVE BoundInv'
  OBVIOUS
<1>1. PICK Q, D, L : Covers(Q, D, L)
  BY DEF BoundInv
<1>2. CASE UNCHANGED vars
  <2>1. UNCHANGED <<job, used, pc, listed, victims, outcome>>
    BY <1>2 DEF vars, entryVars, evictVars
  <2>2. \A C : RevsOf(C)' = RevsOf(C)
    BY <2>1 DEF RevsOf, RevOf
  <2>3. \A c \in D : Promises(D, L, c)'
    BY <1>1, <2>1, <2>2 DEF Covers, Promises, WithinCap
  <2>4. Owing' = Owing
    BY <2>1 DEF Owing
  <2>5. Covers(Q, D, L)'
    BY <1>1, <2>1, <2>2, <2>3, <2>4 DEF Covers, WithinCap
  <2> QED BY <2>1, <2>5 DEF BoundInv
<1>3. ASSUME NEW c \in Commands, Step(c) \/ Die(c)
      PROVE  BoundInv'
  <2>1. \E P, E, LL : Covers(P, E, LL)'
    BY <1>1, <1>3, BeforeWriting, Writing, Evicts, Completes DEF Step
  <2>2. IsFiniteSet({d \in Commands : pc'[d] # "resolve"})
    BY <1>3, StepFrame, BegunFinite DEF BoundInv
  <2> QED BY <2>1, <2>2 DEF BoundInv
<1> QED BY <1>2, <1>3 DEF Next

\* A set of commands has at most as many revisions.
LEMMA RevsBound ==
    ASSUME NEW C, IsFiniteSet(C)
    PROVE  /\ IsFiniteSet(RevsOf(C))
           /\ Cardinality(RevsOf(C)) <= Cardinality(C)
<1> DEFINE g == [c \in C |-> RevOf(c)]
<1>1. g \in Surjection(C, RevsOf(C))
  BY DEF Surjection, RevsOf
<1> QED BY <1>1, FS_Surjection

(***************************************************************************)
(* Bounded to MAX_ENTRIES: when every command is over, the files are at    *)
(* most the cap and one for each command that was killed, that died of a   *)
(* listed file another had evicted, or whose hit touched an entry already  *)
(* evicted; however the evictions overlapped with saves and touches of     *)
(* other commands, and with each other (_evict, save, _touch).             *)
(***************************************************************************)
THEOREM BoundSafe == Spec => []BoundedAtRest
<1>1. ASSUME TypeInv, BoundInv PROVE BoundedAtRest
  <2> SUFFICES ASSUME \A c \in Commands : pc[c] = "done"
               PROVE  Len(used) <= MaxEntries + Cardinality(Unevicted)
    BY DEF BoundedAtRest
  <2>1. PICK Q, D, L : Covers(Q, D, L)
    BY <1>1 DEF BoundInv
  <2>2. D \in SUBSET Unevicted /\ Unevicted \in SUBSET Commands
    BY <2>1 DEF Covers, Owing, Evicting, Unevicted
  <2>3. {c \in Commands : pc[c] # "resolve"} = Commands
    OBVIOUS
  <2>4. IsFiniteSet(Unevicted)
    BY <1>1, <2>2, <2>3, FS_Subset DEF BoundInv
  <2>5. IsFiniteSet(D) /\ Cardinality(D) <= Cardinality(Unevicted)
    BY <2>2, <2>4, FS_Subset
  <2>6. IsFiniteSet(RevsOf(D)) /\ Cardinality(RevsOf(D)) <= Cardinality(D)
    BY <2>5, RevsBound
  <2>7. IsFiniteSet(Q) /\ Cardinality(Q) <= MaxEntries
    BY <2>1 DEF Covers, WithinCap
  <2> DEFINE U == Q \cup RevsOf(D)
  <2>8. /\ IsFiniteSet(U)
        /\ Cardinality(U) = Cardinality(Q) + Cardinality(RevsOf(D))
                               - Cardinality(Q \cap RevsOf(D))
    BY <2>6, <2>7, FS_Union
  <2>9. IsFiniteSet(Q \cap RevsOf(D))
    BY <2>7, FS_Subset
  <2>10. ToSet(used) \in SUBSET U
    BY <2>1 DEF Covers
  <2> HIDE DEF U
  <2>11. Cardinality(ToSet(used)) <= Cardinality(U)
    BY <2>8, <2>10, FS_Subset
  <2>12. Cardinality(ToSet(used)) = Len(used) /\ Len(used) \in Nat
    <3>1. used \in Seq(Revs) /\ IsInjective(used)
      BY <1>1 DEF TypeInv, TypeOK
    <3> QED BY <3>1, LengthOf
  <2>13. /\ Cardinality(Unevicted) \in Nat /\ Cardinality(D) \in Nat
         /\ Cardinality(RevsOf(D)) \in Nat /\ Cardinality(Q) \in Nat
         /\ Cardinality(U) \in Nat /\ Cardinality(Q \cap RevsOf(D)) \in Nat
    BY <2>4, <2>5, <2>6, <2>7, <2>8, <2>9, FS_CardinalityType
  <2> QED BY <2>5, <2>6, <2>7, <2>8, <2>11, <2>12, <2>13, RevCacheAssumption
<1> QED BY <1>1, TypeInit, TypeStep, BoundInit, BoundStep, PTL DEF Spec

-----------------------------------------------------------------------------
(* What a command may be answered with.  Which entries are evicted, and in *)
(* which order, does not matter here: an eviction only ever takes an entry *)
(* away.                                                                   *)

\* A file that holds a snapshot holds a whole one.
Whole(file) == file.kind = "saved" => file.snap.whole

Loaded(c) ==
    /\ doc[c] \in Files
    /\ Whole(doc[c])
    /\ built[c] \in Files
    /\ pc[c] \in {"save", "list", "stat", "evict"} => built[c].kind = "saved"
    /\ outcome[c].kind = "cached" =>
            outcome[c].snap.build = job[c].build /\ outcome[c].snap.whole

(***************************************************************************)
(* Whatever is in the cache, and whatever of it was read before it was     *)
(* replaced or removed, was saved by a command that found it whole.  The   *)
(* build needs no invariant of its own: it is in what was read, not in     *)
(* what is there by now, and load compares the two.                        *)
(***************************************************************************)
CacheInv ==
    /\ DOMAIN pc = Commands /\ DOMAIN doc = Commands
    /\ DOMAIN built = Commands /\ DOMAIN outcome = Commands
    /\ DOMAIN entry = Revs
    /\ job \in [Commands -> Jobs]
    /\ \A r \in Revs : entry[r] \in Files /\ Whole(entry[r])
    /\ \A c \in Commands : Loaded(c)

-----------------------------------------------------------------------------
LEMMA WholeFiles ==
    /\ Nothing \in Files /\ Whole(Nothing)
    /\ Blank \in Files /\ Whole(Blank)
    /\ \A file \in Files : file.kind = "saved" =>
            \E snap \in Snapshots : file = Saved(snap)
  BY DEF Nothing, Blank, Files, Whole, Saved

LEMMA InitHolds == Init => CacheInv
<1> SUFFICES ASSUME Init PROVE CacheInv
  OBVIOUS
<1>1. ASSUME NEW c \in Commands
      PROVE  Loaded(c)
  BY <1>1, WholeFiles DEF Init, Loaded
<1> QED BY <1>1, WholeFiles DEF Init, CacheInv

\* What the steps of one command leave alone for the others.
LEMMA OnlyOneCommand ==
    ASSUME CacheInv, NEW c \in Commands, UNCHANGED job,
           pc' = pc \/ \E l : pc' = [pc EXCEPT ![c] = l],
           doc' = doc \/ \E f : doc' = [doc EXCEPT ![c] = f],
           built' = built \/ \E f : built' = [built EXCEPT ![c] = f],
           outcome' = outcome \/ \E o : outcome' = [outcome EXCEPT ![c] = o],
           entry' = entry \/ \E r, f : /\ f \in Files /\ Whole(f)
                                       /\ entry' = [entry EXCEPT ![r] = f],
           Loaded(c)'
    PROVE  CacheInv'
<1>1. /\ DOMAIN pc' = Commands /\ DOMAIN doc' = Commands
      /\ DOMAIN built' = Commands /\ DOMAIN outcome' = Commands
  BY DEF CacheInv
<1>2. DOMAIN entry' = Revs
      /\ \A r \in Revs : entry'[r] \in Files /\ Whole(entry'[r])
  BY DEF CacheInv
<1>3. ASSUME NEW d \in Commands PROVE Loaded(d)'
  <2>1. CASE d # c
    <3>1. UNCHANGED <<job, pc[d], doc[d], built[d], outcome[d]>>
      BY <2>1 DEF CacheInv
    <3> QED BY <3>1 DEF CacheInv, Loaded, Whole
  <2> QED BY <2>1
<1> QED BY <1>1, <1>2, <1>3 DEF CacheInv

-----------------------------------------------------------------------------
\* The end of a command that was not answered from the cache.
LEMMA EndStep ==
    ASSUME CacheInv, NEW c \in Commands, NEW o, o.kind # "cached", End(c, o),
           UNCHANGED <<job, entry, doc, built>>
    PROVE  CacheInv'
<1>1. /\ pc' = [pc EXCEPT ![c] = "done"] /\ pc'[c] = "done"
      /\ outcome' = [outcome EXCEPT ![c] = o] /\ outcome'[c] = o
  BY DEF End, Goto, CacheInv
<1>2. Loaded(c)'
  BY <1>1 DEF CacheInv, Loaded, Whole
<1> QED BY <1>1, <1>2, OnlyOneCommand

LEMMA AnsweredStep ==
    ASSUME CacheInv, NEW c \in Commands,
           \/ ExportFails(c) \/ SkipSave(c) \/ StatFails(c) \/ Evicted(c)
           \/ Die(c)
    PROVE  CacheInv'
<1>1. \E o : o.kind # "cached" /\ End(c, o)
  BY DEF ExportFails, SkipSave, StatFails, Evicted, Die, Answer
<1>2. UNCHANGED <<job, entry, doc, built>>
  BY DEF ExportFails, SkipSave, StatFails, Evicted, Die, entryVars
<1> QED BY <1>1, <1>2, EndStep

\* Looking the revision up, and what becomes of the entry that was found.
LEMMA LoadStep ==
    ASSUME CacheInv, NEW c \in Commands,
           \/ Resolve(c) \/ Load(c) \/ LoadNothing(c) \/ LoadStale(c)
           \/ TryLock(c)
    PROVE  CacheInv'
<1>1. PICK l \in {"look", "judge", "lock", "build"} : Goto(c, l)
  BY DEF Resolve, Load, LoadNothing, LoadStale, TryLock, Miss
<1>2. UNCHANGED <<job, built, outcome>>
  BY DEF Resolve, Load, LoadNothing, LoadStale, TryLock
<1>3. pc' = [pc EXCEPT ![c] = l] /\ pc'[c] = l
  BY <1>1 DEF Goto, CacheInv
<1>4. CASE UNCHANGED doc
  <2>1. Loaded(c)'
    BY <1>2, <1>3, <1>4 DEF CacheInv, Loaded
  <2>2. entry' = entry \/ entry' = [entry EXCEPT ![RevOf(c)] = Nothing]
    BY <1>4 DEF Resolve, Load, LoadNothing, LoadStale, TryLock, entryVars
  <2> QED BY <1>2, <1>3, <1>4, <2>1, <2>2, WholeFiles, OnlyOneCommand
<1>5. CASE Load(c)
  <2>1. RevOf(c) \in Revs
    BY DEF RevOf, CacheInv, Jobs
  <2>2. doc' = [doc EXCEPT ![c] = entry[RevOf(c)]] /\ UNCHANGED entry
    BY <1>5 DEF Load, entryVars
  <2>3. doc'[c] \in Files /\ Whole(doc'[c])
    BY <2>1, <2>2 DEF CacheInv
  <2>4. Loaded(c)'
    BY <1>2, <1>3, <2>3 DEF CacheInv, Loaded, Whole
  <2> QED BY <1>2, <1>3, <2>2, <2>4, OnlyOneCommand
<1> QED BY <1>4, <1>5 DEF Resolve, LoadNothing, LoadStale, TryLock

LEMMA HitStep ==
    ASSUME CacheInv, NEW c \in Commands, LoadHit(c)
    PROVE  CacheInv'
<1> DEFINE o == [kind |-> "cached", snap |-> doc[c].snap]
<1>1. /\ pc' = [pc EXCEPT ![c] = "done"] /\ pc'[c] = "done"
      /\ outcome' = [outcome EXCEPT ![c] = o] /\ outcome'[c] = o
      /\ UNCHANGED <<job, doc, built>>
  BY DEF LoadHit, End, Goto, CacheInv
<1>2. o.snap.build = job[c].build /\ o.snap.whole
  BY DEF LoadHit, IsCurrent, CacheInv, Loaded, Whole
<1>3. Loaded(c)'
  BY <1>1, <1>2 DEF CacheInv, Loaded, Whole
<1>4. \E f : /\ f \in Files /\ Whole(f)
             /\ entry' = [entry EXCEPT ![RevOf(c)] = f]
  <2>1. RevOf(c) \in Revs
    BY DEF RevOf, CacheInv, Jobs
  <2> DEFINE f == IF entry[RevOf(c)] = Nothing THEN Blank ELSE entry[RevOf(c)]
  <2>2. f \in Files /\ Whole(f)
    BY <2>1, WholeFiles DEF CacheInv
  <2>3. entry' = [entry EXCEPT ![RevOf(c)] = f]
    BY DEF LoadHit
  <2> QED BY <2>2, <2>3
<1> HIDE DEF o
<1> QED BY <1>1, <1>3, <1>4, OnlyOneCommand

\* Building a snapshot, saving it, and evicting others.
LEMMA BuildStep ==
    ASSUME CacheInv, NEW c \in Commands,
           Build(c) \/ Save(c) \/ List(c) \/ Stat(c) \/ Evict(c)
    PROVE  CacheInv'
<1>1. UNCHANGED <<job, doc, outcome>> /\ job[c] \in Jobs
  BY DEF Build, Save, List, Stat, Evict, CacheInv
<1>2. CASE Build(c)
  <2>1. PICK whole \in BOOLEAN :
            built' = [built EXCEPT ![c] =
                        Saved([options |-> job[c].options,
                               build |-> job[c].build, whole |-> whole])]
    BY <1>2, RevCacheAssumption DEF Build
  <2> DEFINE s == [options |-> job[c].options, build |-> job[c].build,
                   whole |-> whole]
  <2>2. s \in Snapshots
    BY <1>1 DEF Jobs, Snapshots
  <2>3. Saved(s) \in Files /\ Saved(s).kind = "saved"
    BY <2>2 DEF Files, Saved
  <2>4. /\ built' = [built EXCEPT ![c] = Saved(s)] /\ built'[c] = Saved(s)
        /\ pc' = [pc EXCEPT ![c] = "save"] /\ UNCHANGED entry
    BY <1>2, <2>1 DEF Build, Goto, CacheInv, entryVars
  <2>5. Loaded(c)'
    BY <1>1, <2>3, <2>4 DEF CacheInv, Loaded, Whole
  <2> HIDE DEF s
  <2> QED BY <1>1, <2>4, <2>5, OnlyOneCommand
<1>3. CASE Save(c)
  <2>1. built[c] \in Files /\ Whole(built[c])
    BY <1>3 DEF Save, Saveable, CacheInv, Loaded, Whole
  <2>2. /\ entry' = [entry EXCEPT ![RevOf(c)] = built[c]] /\ UNCHANGED built
        /\ pc' = [pc EXCEPT ![c] = "list"] /\ pc[c] = "save"
    BY <1>3 DEF Save, Goto
  <2>3. Loaded(c)'
    BY <1>1, <2>2 DEF CacheInv, Loaded, Whole
  <2> QED BY <1>1, <2>1, <2>2, <2>3, OnlyOneCommand
<1>4. CASE List(c) \/ Stat(c) \/ Evict(c)
  <2>1. /\ pc[c] \in {"list", "stat", "evict"} /\ UNCHANGED built
        /\ pc' = pc \/ \E l : pc' = [pc EXCEPT ![c] = l]
    BY <1>4 DEF List, Stat, Evict, Goto
  <2>2. Loaded(c)'
    BY <1>1, <2>1 DEF CacheInv, Loaded, Whole
  <2>3. entry' = entry \/ \E r : entry' = [entry EXCEPT ![r] = Nothing]
    BY <1>4 DEF List, Stat, Evict, entryVars
  <2> QED BY <1>1, <2>1, <2>2, <2>3, WholeFiles, OnlyOneCommand
<1> QED BY <1>2, <1>3, <1>4

-----------------------------------------------------------------------------
LEMMA CacheStep == CacheInv /\ [Next]_vars => CacheInv'
<1> SUFFICES ASSUME CacheInv, [Next]_vars PROVE CacheInv'
  OBVIOUS
<1>1. CASE UNCHANGED vars
  BY <1>1 DEF vars, entryVars, CacheInv, Loaded, Whole
<1>2. CASE \E c \in Commands : Step(c) \/ Die(c)
  BY <1>2, AnsweredStep, LoadStep, HitStep, BuildStep DEF Step
<1> QED BY <1>1, <1>2 DEF Next

(***************************************************************************)
(* A hit is a whole snapshot of the running build, whatever commands of    *)
(* this and other builds save, unlink, evict or touch between load's read  *)
(* and its verdict, and whoever dies meanwhile (load, _is_current,         *)
(* _is_all_empty_body).                                                    *)
(***************************************************************************)
THEOREM CachedAnswersSafe == Spec => []CachedAnswersAreTrue
<1>1. CacheInv => CachedAnswersAreTrue
  BY DEF CacheInv, Loaded, CachedAnswersAreTrue
<1> QED BY <1>1, InitHolds, CacheStep, PTL DEF Spec
================================================================================
