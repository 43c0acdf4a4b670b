-------------------------- MODULE ResolveReuseProofs --------------------------
(***************************************************************************)
(* Proofs about ResolveReuse and CallResolution, for every set of files,   *)
(* contents, configurations and processes.                                 *)
(*                                                                         *)
(* The heart is that build_reuse is exact: a file whose names an edit does *)
(* not reach resolves as it did.  An edit is bounded by a set of names     *)
(* that is closed under the renames of the tree; a walk of _OriginLookup   *)
(* that starts outside that set never enters it, so it takes the same hops *)
(* before and after the edit.  The walk and the closure are recursive      *)
(* functions, followed step by step with an induction over sets of         *)
(* numbers.  Then runs: the saved cache is always one run's, so what reuse *)
(* starts from is a tree and what resolving all of it gives.               *)
(***************************************************************************)
EXTENDS ResolveReuse, FiniteSetTheorems, WellFoundedInduction, TLAPS

-----------------------------------------------------------------------------
(* Induction, as a fact about sets of numbers. *)

\* A set of numbers has a least one.
LEMMA LeastNat ==
    ASSUME NEW T, T \subseteq Nat, T # {}
    PROVE  \E n \in T : \A m \in T : n <= m
<1>1. PICK n \in T : \A m \in T : ~(<<m, n>> \in OpToRel(<, Nat))
  BY NatLessThanWellFounded, WFMin
<1>2. \A m \in T : ~(m < n)
  BY <1>1 DEF OpToRel
<1> QED BY <1>2

\* What holds of 0 and passes on to the next number holds of every number.
LEMMA SetInduction ==
    ASSUME NEW S, 0 \in S, \A n \in Nat : n \in S => n + 1 \in S
    PROVE  Nat \subseteq S
<1> SUFFICES ASSUME Nat \ S # {} PROVE FALSE
  OBVIOUS
<1>1. PICK n \in Nat \ S : \A m \in Nat \ S : n <= m
  BY LeastNat
<1>2. n # 0 /\ n - 1 \in Nat
  BY <1>1
<1>3. n - 1 \in S
  BY <1>1, <1>2
<1> QED BY <1>1, <1>2, <1>3

-----------------------------------------------------------------------------
(* The walk of _OriginLookup. *)

\* One step further from every place reached.
Further(t, conf, places) ==
    places \cup UNION {Hops(t, conf, at[1], at[2]) : at \in places}

\* The walk is a sequence of such steps.
LEMMA ReachUnfolds ==
    ASSUME NEW t, NEW conf, NEW start
    PROVE  \E w : /\ w[0] = start
                  /\ \A d \in 0..ReexportDepth :
                        d # 0 => w[d] = Further(t, conf, w[d - 1])
                  /\ Reach(t, conf, start) = w[ReexportDepth]
<1> DEFINE Walk(n, w) ==
      w = [d \in 0..n |-> IF d = 0 THEN start
                          ELSE w[d - 1] \cup
                               UNION {Hops(t, conf, at[1], at[2]) :
                                         at \in w[d - 1]}]
<1> DEFINE S == {n \in Nat : \E w : Walk(n, w)}
<1>1. 0 \in S
  <2>1. Walk(0, [d \in 0..0 |-> start])
    OBVIOUS
  <2> QED BY <2>1
<1>2. ASSUME NEW n \in Nat, n \in S PROVE n + 1 \in S
  <2>1. PICK w : Walk(n, w)
    BY <1>2
  <2> DEFINE next == w[n] \cup UNION {Hops(t, conf, at[1], at[2]) : at \in w[n]}
             v    == [d \in 0..(n + 1) |-> IF d = n + 1 THEN next ELSE w[d]]
  <2>2. \A d \in 0..n : v[d] = w[d]
    OBVIOUS
  <2>3. ASSUME NEW d \in 0..(n + 1)
        PROVE  v[d] = IF d = 0 THEN start
                      ELSE v[d - 1] \cup
                           UNION {Hops(t, conf, at[1], at[2]) :
                                     at \in v[d - 1]}
    <3>1. CASE d = n + 1
      <4>1. v[d - 1] = w[n] /\ v[d] = next /\ d # 0
        BY <3>1, <2>2
      <4> HIDE DEF v
      <4> QED BY <4>1
    <3>2. CASE d \in 0..n
      <4>1. v[d] = w[d] /\ (d # 0 => v[d - 1] = w[d - 1])
        BY <3>2, <2>2
      <4>2. w[d] = IF d = 0 THEN start
                   ELSE w[d - 1] \cup
                        UNION {Hops(t, conf, at[1], at[2]) :
                                  at \in w[d - 1]}
        BY <2>1, <3>2
      <4> HIDE DEF v
      <4> QED BY <4>1, <4>2
    <3> QED BY <3>1, <3>2
  <2>4. v = [d \in 0..(n + 1) |-> v[d]]
    OBVIOUS
  <2> HIDE DEF v
  <2>5. Walk(n + 1, v)
    BY <2>3, <2>4
  <2> QED BY <2>5
<1> HIDE DEF S
<1>3. ReexportDepth \in S
  BY <1>1, <1>2, SetInduction, DepthAssumption
<1> DEFINE W == CHOOSE w : Walk(ReexportDepth, w)
<1>4. Walk(ReexportDepth, W)
  BY <1>3 DEF S
<1>5. Reach(t, conf, start) = W[ReexportDepth]
  BY DEF Reach
<1> HIDE DEF W
<1>6. W[0] = start
  BY <1>4, DepthAssumption
<1>7. ASSUME NEW d \in 0..ReexportDepth, d # 0
      PROVE  W[d] = Further(t, conf, W[d - 1])
  BY <1>4, <1>7 DEF Further
<1> QED BY <1>5, <1>6, <1>7

-----------------------------------------------------------------------------
(* The closure of a set of names under the renames. *)

Nows(S) == {r.now : r \in S}

\* The closure is a sequence of steps too.
LEMMA ClosureUnfolds ==
    ASSUME NEW t, NEW names, Cardinality(Renames(t)) \in Nat
    PROVE  \E g : /\ g[0] = names
                  /\ \A k \in Nat : k < Cardinality(Renames(t)) =>
                        g[k + 1] = g[k] \cup
                           Nows({x \in Renames(t) : x.was \in g[k]})
                  /\ ReexportClosure(t, names) = g[Cardinality(Renames(t))]
<1> DEFINE N == Cardinality(Renames(t))
<1> DEFINE Grown(n, g) ==
      g = [k \in 0..n |-> IF k = 0 THEN names
                          ELSE g[k - 1] \cup
                               {r.now : r \in {x \in Renames(t) :
                                                  x.was \in g[k - 1]}}]
<1> DEFINE S == {n \in Nat : \E g : Grown(n, g)}
<1>1. 0 \in S
  <2>1. Grown(0, [k \in 0..0 |-> names])
    OBVIOUS
  <2> QED BY <2>1
<1>2. ASSUME NEW n \in Nat, n \in S PROVE n + 1 \in S
  <2>1. PICK g : Grown(n, g)
    BY <1>2
  <2> DEFINE next == g[n] \cup {r.now : r \in {x \in Renames(t) : x.was \in g[n]}}
             v    == [k \in 0..(n + 1) |-> IF k = n + 1 THEN next ELSE g[k]]
  <2>2. \A k \in 0..n : v[k] = g[k]
    OBVIOUS
  <2>3. ASSUME NEW k \in 0..(n + 1)
        PROVE  v[k] = IF k = 0 THEN names
                      ELSE v[k - 1] \cup
                           {r.now : r \in {x \in Renames(t) :
                                              x.was \in v[k - 1]}}
    <3>1. CASE k = n + 1
      <4>1. v[k - 1] = g[n] /\ v[k] = next /\ k # 0
        BY <3>1, <2>2
      <4> HIDE DEF v
      <4> QED BY <4>1
    <3>2. CASE k \in 0..n
      <4>1. v[k] = g[k] /\ (k # 0 => v[k - 1] = g[k - 1])
        BY <3>2, <2>2
      <4>2. g[k] = IF k = 0 THEN names
                   ELSE g[k - 1] \cup
                        {r.now : r \in {x \in Renames(t) :
                                           x.was \in g[k - 1]}}
        BY <2>1, <3>2
      <4> HIDE DEF v
      <4> QED BY <4>1, <4>2
    <3> QED BY <3>1, <3>2
  <2>4. v = [k \in 0..(n + 1) |-> v[k]]
    OBVIOUS
  <2> HIDE DEF v
  <2>5. Grown(n + 1, v)
    BY <2>3, <2>4
  <2> QED BY <2>5
<1> HIDE DEF S
<1>3. N \in S
  BY <1>1, <1>2, SetInduction
<1> DEFINE G == CHOOSE g : Grown(N, g)
<1>4. Grown(N, G)
  BY <1>3 DEF S
<1>5. ReexportClosure(t, names) = G[N]
  BY DEF ReexportClosure
<1> HIDE DEF G
<1>6. G[0] = names
  BY <1>4
<1>7. ASSUME NEW k \in Nat, k < N
      PROVE  G[k + 1] = G[k] \cup Nows({x \in Renames(t) : x.was \in G[k]})
  <2>1. k + 1 \in 0..N /\ k + 1 # 0 /\ (k + 1) - 1 = k
    BY <1>7
  <2> HIDE DEF N
  <2> QED BY <1>4, <2>1 DEF Nows
<1> QED BY <1>5, <1>6, <1>7

\* A name passed on under another one.
Passes(t, names) == \A r \in Renames(t) : r.was \in names => r.now \in names

\* As many steps as there are renames are enough: each step that reaches a
\* new name takes a rename that was not taken before.
LEMMA ClosureCloses ==
    ASSUME NEW t, NEW names, IsFiniteSet(Renames(t))
    PROVE  /\ names \subseteq ReexportClosure(t, names)
           /\ Passes(t, ReexportClosure(t, names))
<1> DEFINE R == Renames(t)
           N == Cardinality(R)
<1>0. N \in Nat
  BY FS_CardinalityType
<1>1. PICK g : /\ g[0] = names
               /\ \A k \in Nat : k < N =>
                     g[k + 1] = g[k] \cup Nows({x \in R : x.was \in g[k]})
               /\ ReexportClosure(t, names) = g[N]
  BY <1>0, ClosureUnfolds
<1> DEFINE Used(k) == {x \in R : x.was \in g[k]}
<1>2. \A k \in Nat : IsFiniteSet(Used(k)) /\ Cardinality(Used(k)) \in Nat
                     /\ Cardinality(Used(k)) <= N
  <2>1. \A k \in Nat : Used(k) \in SUBSET R
    OBVIOUS
  <2> HIDE DEF R, Used
  <2> QED BY <2>1, FS_Subset, FS_CardinalityType DEF R
<1> DEFINE S == {k \in Nat : k <= N => /\ names \subseteq g[k]
                                       /\ \/ Passes(t, g[k])
                                          \/ Cardinality(Used(k)) > k}
<1>3. 0 \in S
  <2>1. CASE Used(0) = {}
    BY <1>1, <2>1 DEF Passes
  <2>2. CASE Used(0) # {}
    <3>1. Cardinality(Used(0)) # 0
      BY <1>2, <2>2, FS_EmptySet
    <3>2. Cardinality(Used(0)) > 0
      <4> HIDE DEF Used
      <4> QED BY <1>2, <3>1
    <3> HIDE DEF Used
    <3> QED BY <1>1, <3>2
  <2> QED BY <2>1, <2>2
<1>4. ASSUME NEW k \in Nat, k \in S PROVE k + 1 \in S
  <2> SUFFICES ASSUME k + 1 <= N
               PROVE  /\ names \subseteq g[k + 1]
                      /\ Passes(t, g[k + 1]) \/ Cardinality(Used(k + 1)) > k + 1
    OBVIOUS
  <2>0. k < N /\ k <= N
    BY <1>0
  <2>1. g[k + 1] = g[k] \cup Nows(Used(k))
    <3> HIDE DEF N, R
    <3> QED BY <1>1, <2>0
  <2>2. names \subseteq g[k + 1]
    <3> HIDE DEF N, Used
    <3> QED BY <1>4, <2>0, <2>1
  <2>3. CASE Used(k + 1) = Used(k)
    <3>1. ASSUME NEW r \in R, r.was \in g[k + 1] PROVE r.now \in g[k + 1]
      <4>1. r \in Used(k)
        BY <2>3, <3>1
      <4>2. r.now \in Nows(Used(k))
        <5> HIDE DEF Used
        <5> QED BY <4>1 DEF Nows
      <4> HIDE DEF Used
      <4> QED BY <2>1, <4>2
    <3> HIDE DEF Used
    <3> QED BY <2>2, <3>1 DEF Passes
  <2>4. CASE Used(k + 1) # Used(k)
    <3>1. Used(k) \subseteq Used(k + 1)
      BY <2>1
    <3>2. CASE Passes(t, g[k])
      <4>1. Nows(Used(k)) \subseteq g[k]
        BY <3>2 DEF Passes, Nows
      <4>2. g[k + 1] = g[k]
        BY <2>1, <4>1
      <4> QED BY <2>4, <4>2
    <3>3. CASE Cardinality(Used(k)) > k
      <4>1. Cardinality(Used(k)) <= Cardinality(Used(k + 1))
            /\ Cardinality(Used(k)) # Cardinality(Used(k + 1))
        <5> DEFINE A == Used(k)
                   B == Used(k + 1)
        <5>1. IsFiniteSet(B) /\ A \in SUBSET B /\ A # B
          <6> HIDE DEF Used
          <6> QED BY <1>2, <2>4, <3>1
        <5> HIDE DEF A, B
        <5>2. Cardinality(A) <= Cardinality(B) /\ Cardinality(A) # Cardinality(B)
          BY <5>1, FS_Subset
        <5> QED BY <5>2 DEF A, B
      <4>2. Cardinality(Used(k + 1)) > k + 1
        <5> DEFINE a == Cardinality(Used(k))
                   b == Cardinality(Used(k + 1))
        <5>1. a \in Nat /\ b \in Nat /\ a > k /\ a <= b /\ a # b
          <6> k + 1 \in Nat
            OBVIOUS
          <6> HIDE DEF Used
          <6> QED BY <1>2, <3>3, <4>1
        <5> HIDE DEF a, b
        <5>2. b > k + 1
          BY <5>1
        <5> QED BY <5>2 DEF b
      <4> QED BY <2>2, <4>2
    <3>4. Passes(t, g[k]) \/ Cardinality(Used(k)) > k
      <4> HIDE DEF N, Used
      <4> QED BY <1>4, <2>0
    <3> HIDE DEF Used
    <3> QED BY <2>2, <3>2, <3>3, <3>4
  <2> HIDE DEF Used
  <2> QED BY <2>2, <2>3, <2>4
<1> HIDE DEF S
<1>5. N \in S
  BY <1>0, <1>3, <1>4, SetInduction
<1>6. ~(Cardinality(Used(N)) > N)
  <2> DEFINE a == Cardinality(Used(N))
  <2>1. a \in Nat /\ a <= N
    BY <1>0, <1>2
  <2> HIDE DEF a, N
  <2>2. ~(a > N)
    BY <1>0, <2>1
  <2> QED BY <2>2 DEF a, N
<1>7. names \subseteq g[N] /\ Passes(t, g[N])
  <2> HIDE DEF Used, N
  <2> QED BY <1>0, <1>5, <1>6 DEF S
<1> QED BY <1>1, <1>7

\* The image of a finite set is finite.
LEMMA ImageFinite ==
    ASSUME NEW S, IsFiniteSet(S), NEW f
    PROVE  IsFiniteSet({f[x] : x \in S})
<1> DEFINE T == {f[x] : x \in S}
           g == [x \in S |-> f[x]]
<1>1. g \in Surjection(S, T)
  BY DEF Surjection
<1> QED BY <1>1, FS_Surjection

\* A tree passes finitely many names on.
LEMMA RenamesFinite ==
    ASSUME NEW t, IsTree(t)
    PROVE  IsFiniteSet(Renames(t))
<1> DEFINE X(p) == {x \in t[p].reexports : x.name # Star}
           F(p) == [r \in X(p) |-> [was |-> r.original, now |-> r.name]]
           I(p) == t[p].imports
           G(p) == [i \in I(p) |-> [was |-> i.original, now |-> i.local]]
           H == [p \in DOMAIN t |-> {F(p)[r] : r \in X(p)} \cup {G(p)[i] : i \in I(p)}]
<1>1. ASSUME NEW p \in DOMAIN t PROVE IsFiniteSet(H[p])
  <2>1. IsFiniteSet(I(p)) /\ IsFiniteSet(t[p].reexports)
    BY ContentsAssumption DEF IsTree
  <2>2. IsFiniteSet(X(p))
    <3>1. X(p) \in SUBSET t[p].reexports
      OBVIOUS
    <3> QED BY <2>1, <3>1, FS_Subset
  <2> HIDE DEF F, G, X, I
  <2>3. IsFiniteSet({F(p)[r] : r \in X(p)}) /\ IsFiniteSet({G(p)[i] : i \in I(p)})
    BY <2>1, <2>2, ImageFinite
  <2>4. IsFiniteSet({F(p)[r] : r \in X(p)} \cup {G(p)[i] : i \in I(p)})
    BY <2>3, FS_Union
  <2> QED BY <2>4
<1>2. IsFiniteSet(DOMAIN t)
  BY ContentsAssumption, FS_Subset DEF IsTree
<1> HIDE DEF H
<1>3. IsFiniteSet({H[p] : p \in DOMAIN t})
  BY <1>2, ImageFinite
<1>4. \A T \in {H[p] : p \in DOMAIN t} : IsFiniteSet(T)
  BY <1>1
<1>5. IsFiniteSet(UNION {H[p] : p \in DOMAIN t})
  BY <1>3, <1>4, FS_UNION
<1>6. Renames(t) = UNION {H[p] : p \in DOMAIN t}
  <2>1. ASSUME NEW p \in DOMAIN t
        PROVE  H[p] = {[was |-> r.original, now |-> r.name] :
                          r \in {x \in t[p].reexports : x.name # Star}}
                      \cup {[was |-> i.original, now |-> i.local] :
                               i \in t[p].imports}
    BY DEF H
  <2> QED BY <2>1 DEF Renames
<1> QED BY <1>5, <1>6

-----------------------------------------------------------------------------
(* An edit, and the names that bound what it reaches. *)

\* now is was, edited where no type and no star re-export changed, and every
\* name whose declarations, re-exports or bindings changed is in C, with all
\* the names those are passed on under.
BoundedEdit(was, now, C) ==
    /\ IsTree(was) /\ IsTree(now) /\ DOMAIN was = DOMAIN now
    /\ Passes(now, C)
    /\ \A p \in DOMAIN now : was[p] # now[p] =>
          /\ ~BlocksReuse(was[p], now[p])
          /\ ChangedNames(was[p], now[p]) \subseteq C
          /\ ReexportDeltaNames(was[p], now[p]) \subseteq C

\* Another name has the declarations it had.
LEMMA RowsSame ==
    ASSUME NEW was, NEW now, NEW C, BoundedEdit(was, now, C),
           NEW p \in DOMAIN now, NEW n, n \notin C
    PROVE  Rows(was[p], n) = Rows(now[p], n)
<1>1. CASE was[p] # now[p]
  <2>1. n \notin ChangedNames(was[p], now[p])
    BY <1>1 DEF BoundedEdit
  <2>2. n \notin Defined(was[p]) => Rows(was[p], n) = {}
    BY DEF Defined, Rows
  <2>3. n \notin Defined(now[p]) => Rows(now[p], n) = {}
    BY DEF Defined, Rows
  <2> QED BY <2>1, <2>2, <2>3 DEF ChangedNames
<1> QED BY <1>1

LEMMA IndexMember ==
    ASSUME NEW t, NEW n, NEW s
    PROVE  s \in Index(t, n) <=>
             \E p \in DOMAIN t : \E d \in Rows(t[p], n) :
                s = [path |-> p, name |-> n, kind |-> d.kind]
  BY DEF Index, AllSymbols, SymbolsOf, Rows

LEMMA IndexSame ==
    ASSUME NEW was, NEW now, NEW C, BoundedEdit(was, now, C), NEW n, n \notin C
    PROVE  Index(was, n) = Index(now, n)
<1>1. DOMAIN was = DOMAIN now
  BY DEF BoundedEdit
<1>2. \A p \in DOMAIN now : Rows(was[p], n) = Rows(now[p], n)
  BY RowsSame
<1>3. ASSUME NEW s PROVE s \in Index(was, n) <=> s \in Index(now, n)
  BY <1>1, <1>2, IndexMember
<1> QED BY <1>3

Named(content, n)    == {r \in content.reexports : r.name = n}
BindingsTo(content, n) ==
    {i \in content.imports : i.local = n /\ i.from # External}

\* The names of a re-export or a binding gained or lost are in the delta.
LEMMA DeltaMember ==
    ASSUME NEW old, NEW new
    PROVE  /\ \A r \in Differ(old.reexports, new.reexports) :
                 r.name \in ReexportDeltaNames(old, new)
           /\ \A i \in Differ(old.imports, new.imports) :
                 i.from # External => i.local \in ReexportDeltaNames(old, new)
<1> DEFINE RS == {{r.name, r.original} : r \in Differ(old.reexports, new.reexports)}
           IS == {{i.local, i.original} :
                     i \in {x \in Differ(old.imports, new.imports) :
                               x.from # External}}
<1>1. ASSUME NEW r \in Differ(old.reexports, new.reexports)
      PROVE  {r.name, r.original} \in RS
  OBVIOUS
<1>2. ASSUME NEW i \in Differ(old.imports, new.imports), i.from # External
      PROVE  {i.local, i.original} \in IS
  BY <1>2
<1>3. ReexportDeltaNames(old, new) = (UNION RS) \cup (UNION IS)
  BY DEF ReexportDeltaNames
<1> HIDE DEF RS, IS
<1>4. ASSUME NEW r \in Differ(old.reexports, new.reexports)
      PROVE  r.name \in UNION RS
  BY <1>1
<1>5. ASSUME NEW i \in Differ(old.imports, new.imports), i.from # External
      PROVE  i.local \in UNION IS
  BY <1>2, <1>5
<1> QED BY <1>3, <1>4, <1>5

\* Another name is re-exported and bound as it was, and so is every star.
LEMMA RecordsSame ==
    ASSUME NEW was, NEW now, NEW C, BoundedEdit(was, now, C),
           NEW p \in DOMAIN now, NEW n, n \notin C
    PROVE  /\ Named(was[p], n) = Named(now[p], n)
           /\ Named(was[p], Star) = Named(now[p], Star)
           /\ BindingsTo(was[p], n) = BindingsTo(now[p], n)
<1>1. CASE was[p] # now[p]
  <2>1. /\ ~BlocksReuse(was[p], now[p])
        /\ n \notin ReexportDeltaNames(was[p], now[p])
    BY <1>1 DEF BoundedEdit
  <2>2. ASSUME NEW r \in Differ(was[p].reexports, now[p].reexports)
        PROVE  r.name # Star /\ r.name # n
    <3>1. r.name \in {r.name, r.original}
      OBVIOUS
    <3>2. r.name \in ReexportDeltaNames(was[p], now[p])
      BY <3>1, DeltaMember
    <3> QED BY <2>1, <3>2 DEF BlocksReuse
  <2>3. ASSUME NEW i \in Differ(was[p].imports, now[p].imports),
               i.from # External
        PROVE  i.local # n
    <3>1. i.local \in ReexportDeltaNames(was[p], now[p])
      BY <2>3, DeltaMember
    <3> QED BY <2>1, <3>1
  <2>4. \A m : (\A r \in Differ(was[p].reexports, now[p].reexports) : r.name # m)
               => Named(was[p], m) = Named(now[p], m)
    BY DEF Differ, Named
  <2>5. BindingsTo(was[p], n) = BindingsTo(now[p], n)
    BY <2>3 DEF Differ, BindingsTo
  <2> QED BY <2>2, <2>4, <2>5
<1> QED BY <1>1

-----------------------------------------------------------------------------
(* The walk, before and after the edit. *)

\* A place whose name the edit does not reach.
Clear(now, C, at) ==
    /\ at = <<at[1], at[2]>> /\ at[1] \in DOMAIN now /\ at[2] \notin C

\* Every binding, and every re-export but a star, passes a name on.
LEMMA RenameMember ==
    ASSUME NEW t, NEW p \in DOMAIN t
    PROVE  /\ \A i \in t[p].imports :
                 [was |-> i.original, now |-> i.local] \in Renames(t)
           /\ \A r \in t[p].reexports : r.name # Star =>
                 [was |-> r.original, now |-> r.name] \in Renames(t)
<1> DEFINE A(q) == {[was |-> r.original, now |-> r.name] :
                       r \in {x \in t[q].reexports : x.name # Star}}
           B(q) == {[was |-> i.original, now |-> i.local] : i \in t[q].imports}
<1>1. \A i \in t[p].imports : [was |-> i.original, now |-> i.local] \in B(p)
  OBVIOUS
<1>2. \A r \in t[p].reexports :
         r.name # Star => [was |-> r.original, now |-> r.name] \in A(p)
  OBVIOUS
<1>3. Renames(t) = UNION {A(q) \cup B(q) : q \in DOMAIN t}
  BY DEF Renames
<1> HIDE DEF A, B
<1>4. A(p) \cup B(p) \subseteq Renames(t)
  BY <1>3
<1> QED BY <1>1, <1>2, <1>4

\* What an unreached name is re-exported from is not reached either.
LEMMA OriginalClear ==
    ASSUME NEW t, NEW C, IsTree(t), Passes(t, C),
           NEW p \in DOMAIN t, NEW n, n \notin C, NEW r \in Named(t[p], n)
    PROVE  r.original \notin C
<1>1. r \in t[p].reexports /\ r.name = n
  BY DEF Named
<1>2. CASE n = Star
  BY <1>1, <1>2, ContentsAssumption DEF IsTree
<1>3. CASE n # Star
  <2>1. [was |-> r.original, now |-> r.name] \in Renames(t)
    BY <1>1, <1>3, RenameMember
  <2> QED BY <1>1, <2>1 DEF Passes
<1> QED BY <1>2, <1>3

LEMMA FollowMember ==
    ASSUME NEW t, NEW conf, IsTree(t), NEW p, NEW n, NEW at
    PROVE  at \in FollowBinding(t, conf, p, n) <=>
             \E i \in BindingsTo(t[p], n) :
                \E q \in FileOf(t, conf, i.from) : at = <<q, i.original>>
<1>1. FileOf(t, conf, External) = {}
  BY ContentsAssumption DEF FileOf, IsTree
<1>2. at \in FollowBinding(t, conf, p, n) <=>
        \E i \in Bindings(t, p, n) :
           at \in FileOf(t, conf, i.from) \X {i.original}
  BY DEF FollowBinding
<1>3. ASSUME NEW i
      PROVE  at \in FileOf(t, conf, i.from) \X {i.original} <=>
               \E q \in FileOf(t, conf, i.from) : at = <<q, i.original>>
  OBVIOUS
<1>4. ASSUME NEW i \in Bindings(t, p, n), i.from = External
      PROVE  ~\E q \in FileOf(t, conf, i.from) : at = <<q, i.original>>
  BY <1>1, <1>4
<1>5. \A i : i \in BindingsTo(t[p], n) <=>
               i \in Bindings(t, p, n) /\ i.from # External
  BY DEF BindingsTo, Bindings
<1> QED BY <1>2, <1>3, <1>4, <1>5

\* An unreached name leads where it led, and on to unreached names.
LEMMA FollowSame ==
    ASSUME NEW was, NEW now, NEW C, BoundedEdit(was, now, C), NEW conf,
           NEW p \in DOMAIN now, NEW n, n \notin C
    PROVE  /\ FollowBinding(was, conf, p, n) = FollowBinding(now, conf, p, n)
           /\ \A at \in FollowBinding(now, conf, p, n) : Clear(now, C, at)
<1>1. /\ IsTree(was) /\ IsTree(now) /\ DOMAIN was = DOMAIN now /\ Passes(now, C)
      /\ BindingsTo(was[p], n) = BindingsTo(now[p], n)
  BY RecordsSame DEF BoundedEdit
<1>2. \A from : FileOf(was, conf, from) = FileOf(now, conf, from)
                /\ FileOf(now, conf, from) \subseteq DOMAIN now
  BY <1>1 DEF FileOf
<1>3. ASSUME NEW at PROVE at \in FollowBinding(was, conf, p, n)
                            <=> at \in FollowBinding(now, conf, p, n)
  BY <1>1, <1>2, FollowMember
<1>4. ASSUME NEW at \in FollowBinding(now, conf, p, n) PROVE Clear(now, C, at)
  <2>1. PICK i \in BindingsTo(now[p], n) :
           \E q \in FileOf(now, conf, i.from) : at = <<q, i.original>>
    BY <1>1, FollowMember
  <2>2. [was |-> i.original, now |-> i.local] \in Renames(now)
    BY RenameMember DEF BindingsTo
  <2>3. i.original \notin C
    BY <1>1, <2>2 DEF Passes, BindingsTo
  <2> QED BY <1>2, <2>1, <2>3 DEF Clear
<1> QED BY <1>3, <1>4

\* The hops of a place are the same, and lead on to clear places.
LEMMA HopsSame ==
    ASSUME NEW was, NEW now, NEW C, BoundedEdit(was, now, C), NEW conf,
           NEW p \in DOMAIN now, NEW n, n \notin C
    PROVE  /\ Hops(was, conf, p, n) = Hops(now, conf, p, n)
           /\ \A at \in Hops(now, conf, p, n) : Clear(now, C, at)
<1> DEFINE Stars(t) == IF n = Default THEN {} ELSE Named(t[p], Star)
           S(t) == UNION {FileOf(t, conf, r.from) \X {n} : r \in Stars(t)}
           O(t) == UNION {FileOf(t, conf, r.from) \X {r.original} :
                             r \in Named(t[p], n)}
           B(t) == UNION {FollowBinding(t, conf, p, r.original) :
                             r \in {x \in Named(t[p], n) : x.from = Here}}
           F(t) == FollowBinding(t, conf, p, n)
<1>0. ASSUME NEW t PROVE Hops(t, conf, p, n) = ((S(t) \cup O(t)) \cup B(t)) \cup F(t)
  <2>1. {r \in t[p].reexports : r.name = Star /\ n # Default} = Stars(t)
    BY DEF Named
  <2>2. {r \in t[p].reexports : r.name = n} = Named(t[p], n)
    BY DEF Named
  <2> HIDE DEF Stars
  <2> QED BY <2>1, <2>2 DEF Hops
<1>1. /\ DOMAIN was = DOMAIN now /\ Passes(now, C) /\ IsTree(now)
      /\ Named(was[p], n) = Named(now[p], n)
      /\ Stars(was) = Stars(now)
  BY RecordsSame DEF BoundedEdit
<1>2. \A from : FileOf(was, conf, from) = FileOf(now, conf, from)
                /\ FileOf(now, conf, from) \subseteq DOMAIN now
  BY <1>1 DEF FileOf
<1>3. \A r \in Named(now[p], n) : r.original \notin C
  BY <1>1, OriginalClear
<1>4. S(was) = S(now) /\ \A at \in S(now) : Clear(now, C, at)
  <2> HIDE DEF Stars
  <2> QED BY <1>1, <1>2 DEF Clear
<1>5. O(was) = O(now) /\ \A at \in O(now) : Clear(now, C, at)
  BY <1>1, <1>2, <1>3 DEF Clear
<1>6. F(was) = F(now) /\ \A at \in F(now) : Clear(now, C, at)
  BY FollowSame
<1>7. B(was) = B(now) /\ \A at \in B(now) : Clear(now, C, at)
  <2>1. \A r \in Named(now[p], n) :
           /\ FollowBinding(was, conf, p, r.original)
                = FollowBinding(now, conf, p, r.original)
           /\ \A at \in FollowBinding(now, conf, p, r.original) :
                 Clear(now, C, at)
    BY <1>3, FollowSame
  <2> QED BY <1>1, <2>1
<1> HIDE DEF S, O, B, F
<1> QED BY <1>0, <1>4, <1>5, <1>6, <1>7

\* So a walk from clear places visits the same places.
LEMMA ReachSame ==
    ASSUME NEW was, NEW now, NEW C, BoundedEdit(was, now, C), NEW conf,
           NEW start, \A at \in start : Clear(now, C, at)
    PROVE  /\ Reach(was, conf, start) = Reach(now, conf, start)
           /\ \A at \in Reach(now, conf, start) : Clear(now, C, at)
<1>1. PICK v : /\ v[0] = start
               /\ \A d \in 0..ReexportDepth :
                     d # 0 => v[d] = Further(was, conf, v[d - 1])
               /\ Reach(was, conf, start) = v[ReexportDepth]
  BY ReachUnfolds
<1>2. PICK w : /\ w[0] = start
               /\ \A d \in 0..ReexportDepth :
                     d # 0 => w[d] = Further(now, conf, w[d - 1])
               /\ Reach(now, conf, start) = w[ReexportDepth]
  BY ReachUnfolds
<1> DEFINE S == {d \in Nat : d <= ReexportDepth =>
                    v[d] = w[d] /\ \A at \in w[d] : Clear(now, C, at)}
<1>3. 0 \in S
  BY <1>1, <1>2
<1>4. ASSUME NEW d \in Nat, d \in S PROVE d + 1 \in S
  <2> SUFFICES ASSUME d + 1 <= ReexportDepth
               PROVE  /\ v[d + 1] = w[d + 1]
                      /\ \A at \in w[d + 1] : Clear(now, C, at)
    OBVIOUS
  <2>1. /\ d + 1 \in 0..ReexportDepth /\ d + 1 # 0 /\ (d + 1) - 1 = d
        /\ d <= ReexportDepth
    BY DepthAssumption
  <2>2. v[d] = w[d] /\ \A at \in w[d] : Clear(now, C, at)
    BY <1>4, <2>1
  <2>3. v[d + 1] = Further(was, conf, w[d]) /\ w[d + 1] = Further(now, conf, w[d])
    BY <1>1, <1>2, <2>1, <2>2
  <2>4. ASSUME NEW at \in w[d]
        PROVE  /\ Hops(was, conf, at[1], at[2]) = Hops(now, conf, at[1], at[2])
               /\ \A to \in Hops(now, conf, at[1], at[2]) : Clear(now, C, to)
    BY <2>2, HopsSame DEF Clear
  <2> QED BY <2>2, <2>3, <2>4 DEF Further
<1> HIDE DEF S
<1>5. ReexportDepth \in S
  BY <1>3, <1>4, SetInduction, DepthAssumption
<1> QED BY <1>1, <1>2, <1>5, DepthAssumption DEF S

\* And finds the same declarations.
LEMMA OriginsSame ==
    ASSUME NEW was, NEW now, NEW C, BoundedEdit(was, now, C), NEW conf,
           NEW p \in DOMAIN now, NEW n, n \notin C
    PROVE  Origins(was, conf, p, n) = Origins(now, conf, p, n)
<1> DEFINE R(t) == Reach(t, conf, FollowBinding(t, conf, p, n))
           D(t, at) == {<<at[1], r.original>> :
                           r \in {x \in t[at[1]].reexports :
                                     x.from = Here /\ x.name = at[2]}}
           P(t) == Declared(t, R(t))
<1>1. R(was) = R(now) /\ \A at \in R(now) : Clear(now, C, at)
  BY FollowSame, ReachSame
<1>2. DOMAIN was = DOMAIN now /\ IsTree(now) /\ Passes(now, C)
  BY DEF BoundedEdit
<1>3. ASSUME NEW at \in R(now)
      PROVE  D(was, at) = D(now, at) /\ \A to \in D(now, at) : Clear(now, C, to)
  <2>1. at[1] \in DOMAIN now /\ at[2] \notin C
    BY <1>1 DEF Clear
  <2>2. Named(was[at[1]], at[2]) = Named(now[at[1]], at[2])
    BY <2>1, RecordsSame
  <2>3. \A r \in Named(now[at[1]], at[2]) : r.original \notin C
    BY <1>2, <2>1, OriginalClear
  <2> HIDE DEF R
  <2> QED BY <2>1, <2>2, <2>3 DEF Named, Clear
<1>4. \A t : P(t) = R(t) \cup (UNION {D(t, at) : at \in R(t)})
  BY DEF Declared
<1>5. P(was) = P(now) /\ \A at \in P(now) : Clear(now, C, at)
  <2> HIDE DEF P, R, D
  <2> QED BY <1>1, <1>3, <1>4
<1>6. ASSUME NEW s, s.name \notin C
      PROVE  s \in AllSymbols(was) <=> s \in AllSymbols(now)
  <2>1. Index(was, s.name) = Index(now, s.name)
    BY <1>6, IndexSame
  <2> QED BY <2>1 DEF Index
<1>7. \A s : <<s.path, s.name>> \in P(now) => s.name \notin C
  <2> HIDE DEF P
  <2> QED BY <1>5 DEF Clear
<1>8. \A t : Origins(t, conf, p, n) =
                {s \in AllSymbols(t) : s.kind # Method /\ <<s.path, s.name>> \in P(t)}
  BY DEF Origins
<1> HIDE DEF P
<1> QED BY <1>5, <1>6, <1>7, <1>8

-----------------------------------------------------------------------------
(* build_reuse is exact. *)

\* A file that was not edited and uses no name the edit reaches resolves as
\* it did.
LEMMA FileSame ==
    ASSUME NEW was, NEW now, NEW C, BoundedEdit(was, now, C), NEW conf,
           NEW p \in DOMAIN now, was[p] = now[p], p \notin FilesUsing(now, C)
    PROVE  ResolveFile(was, conf, p) = ResolveFile(now, conf, p)
<1>1. /\ \A c \in now[p].calls : c.name \notin C
      /\ \A i \in now[p].imports : i.local \notin C /\ i.original \notin C
  BY DEF FilesUsing
<1>2. ASSUME NEW c \in now[p].calls
      PROVE  ResolveCall(was, conf, p, c) = ResolveCall(now, conf, p, c)
  <2>1. /\ Index(was, c.name) = Index(now, c.name)
        /\ Origins(was, conf, p, c.name) = Origins(now, conf, p, c.name)
    BY <1>1, IndexSame, OriginsSame
  <2>2. Bindings(was, p, c.name) = Bindings(now, p, c.name)
    BY DEF Bindings
  <2>3. \A i \in Bindings(now, p, c.name) :
           Index(was, i.original) = Index(now, i.original)
    BY <1>1, IndexSame DEF Bindings
  <2>4. AliasCandidates(was, conf, p, c.name) = AliasCandidates(now, conf, p, c.name)
    <3> DEFINE Found(t) == {{x \in Index(t, i.original) : ModuleMatches(i.from, x.path)} :
                              i \in Bindings(t, p, c.name)}
    <3>1. Found(was) = Found(now)
      BY <2>2, <2>3
    <3>2. ASSUME NEW t
          PROVE  AliasCandidates(t, conf, p, c.name) =
                    IF Single(Origins(t, conf, p, c.name)) \/ UNION Found(t) = {}
                    THEN Origins(t, conf, p, c.name) ELSE UNION Found(t)
      BY DEF AliasCandidates
    <3> HIDE DEF Found
    <3> QED BY <2>1, <3>1, <3>2
  <2>5. PickCandidate(was, conf, p, c) = PickCandidate(now, conf, p, c)
    BY <2>1, <2>2 DEF PickCandidate, HintMatch, ShadowedByExternalImport
  <2> QED BY <2>1, <2>4, <2>5 DEF ResolveCall
<1> QED BY <1>2 DEF ResolveFile

\* What a run saved: a tree and what resolving all of it gives.
Saved(doc, t) == doc = CacheDoc(t, ResolveAll(t, doc.config), doc.config)

\* A tree as a function.
Tree(t) == IsTree(t) /\ t = [p \in DOMAIN t |-> t[p]]

\* Names that an edited file declares, re-exports or binds otherwise, from
\* what the extraction cache kept of it.
EditedNames(files, old, dirty) ==
    UNION {ChangedNames(old[p], files[p])
             \cup ReexportDeltaNames(old[p], files[p]) : p \in dirty}

\* Whatever the extraction cache holds, reusing what a run saved gives what
\* resolving every file gives.
LEMMA ReuseExact ==
    ASSUME NEW files, NEW old, NEW doc, NEW conf, NEW was,
           Tree(files), Tree(was), Saved(doc, was)
    PROVE  Resolved(files, old, doc, conf) = ResolveAll(files, conf)
<1> DEFINE dirty  == Dirty(files, doc)
           fresh  == ToResolve(files, old, doc, conf)
           C      == ReexportClosure(files, EditedNames(files, old, dirty))
<1>1. /\ DOMAIN doc.files = DOMAIN was
      /\ \A p \in DOMAIN was : /\ doc.files[p].hash = was[p]
                               /\ doc.files[p].calls = ResolveFile(was, doc.config, p)
  BY DEF Saved, CacheDoc, ResolveAll
<1>2. ASSUME NEW p \in DOMAIN files \ fresh
      PROVE  doc.files[p].calls = ResolveFile(files, conf, p)
  <2>1. /\ doc.config = conf /\ DOMAIN files = DOMAIN was
        /\ ~Torn(old, doc, dirty) /\ dirty \subseteq DOMAIN old
        /\ \A q \in dirty : ~BlocksReuse(old[q], files[q])
        /\ p \notin dirty \cup NameDeltaDirty(files, old, doc, dirty)
    BY <1>1, <1>2 DEF ToResolve
  <2>2. dirty = {q \in DOMAIN files : was[q] # files[q]}
    BY <1>1, <2>1 DEF Dirty
  <2>3. \A q \in dirty : old[q] = was[q]
    BY <1>1, <2>1, <2>2 DEF Torn
  <2>4. IsFiniteSet(Renames(files))
    BY RenamesFinite DEF Tree
  <2>5. EditedNames(files, old, dirty) \subseteq C /\ Passes(files, C)
    BY <2>4, ClosureCloses
  <2>6. \A q \in dirty : /\ ChangedNames(was[q], files[q]) \subseteq C
                         /\ ReexportDeltaNames(was[q], files[q]) \subseteq C
    <3> HIDE DEF C, dirty
    <3> QED BY <2>3, <2>5 DEF EditedNames
  <2>7. BoundedEdit(was, files, C)
    <3> HIDE DEF C
    <3> QED BY <2>1, <2>2, <2>3, <2>5, <2>6 DEF BoundedEdit, Tree
  <2>8. p \notin FilesUsing(files, C)
    BY <2>1 DEF NameDeltaDirty, EditedNames
  <2>9. was[p] = files[p] /\ p \in DOMAIN files
    BY <2>1, <2>2
  <2>10. ResolveFile(was, conf, p) = ResolveFile(files, conf, p)
    <3> HIDE DEF C
    <3> QED BY <2>7, <2>8, <2>9, FileSame
  <2> QED BY <1>1, <2>1, <2>9, <2>10
<1> HIDE DEF fresh
<1> QED BY <1>2 DEF Resolved, ResolveAll, fresh

\* A run that loads no cache resolves every file.
LEMMA NothingToReuse ==
    ASSUME NEW files, NEW old, NEW conf
    PROVE  Resolved(files, old, NoCache, conf) = ResolveAll(files, conf)
<1>1. ToResolve(files, old, NoCache, conf) = DOMAIN files
  BY DEF ToResolve
<1> QED BY <1>1 DEF Resolved, ResolveAll

-----------------------------------------------------------------------------
(* Types. *)

\* What resolving a file records are entries.
LEMMA EntryShape ==
    ASSUME NEW t, NEW conf, NEW p, NEW e \in ResolveFile(t, conf, p)
    PROVE  CallEntry(p, e)
<1>1. PICK c, found : e \in Record(p, c, found)
  BY DEF ResolveFile, ResolveCall
<1>2. CASE found = {}
  BY <1>1, <1>2 DEF Record, Unresolved, CallEntry
<1>3. CASE found # {} /\ Cardinality(found) > 1
  BY <1>1, <1>3 DEF Record, Ambiguous, CallEntry
<1>4. CASE found # {} /\ ~(Cardinality(found) > 1)
  <2>1. PICK s \in found \ {CallerId(p, c.by)} : e = Edge(c.by, s)
    BY <1>1, <1>4 DEF Record
  <2>2. /\ e = [by |-> c.by, verdict |-> "edge", name |-> s.name, to |-> {s}]
        /\ s # CallerId(p, c.by)
    BY <2>1 DEF Edge
  <2> QED BY <2>2 DEF CallEntry
<1> QED BY <1>2, <1>3, <1>4

IsDoc(doc) ==
    /\ doc.config \in Configs
    /\ \A p \in DOMAIN doc.files :
          /\ p \in Paths /\ doc.files[p].hash \in Contents[p]
          /\ \A e \in doc.files[p].calls : CallEntry(p, e)

\* A run as a record, and what it holds.
Extracted(r) ==
    /\ r.at = "extracted"
    /\ r = [at |-> "extracted", kind |-> r.kind, old |-> r.old,
            files |-> r.files, config |-> r.config]
    /\ r.kind \in Kinds /\ IsTree(r.old) /\ Tree(r.files) /\ r.config \in Configs

Past(r) ==
    /\ r.at \in {"resolved", "saving"}
    /\ r = [at |-> r.at, own |-> r.own, files |-> r.files,
            config |-> r.config, graph |-> r.graph]
    /\ r.own \in BOOLEAN /\ Tree(r.files)
    /\ IsGraph(r.graph, r.files) /\ r.config \in Configs

RunInv(r) == r = Idle \/ Extracted(r) \/ Past(r)

TypeInv ==
    /\ Tree(tree) /\ Tree(head.tree) /\ IsTree(extraction)
    /\ config \in Configs /\ head.config \in Configs
    /\ resolution # NoCache => IsDoc(resolution)
    /\ run = [proc \in Procs |-> run[proc]]
    /\ \A proc \in Procs : RunInv(run[proc])
    /\ edits \in 0..MaxEdits /\ runs \in 0..MaxRuns

LEMMA TypeInvType == TypeInv => TypeOK
<1> SUFFICES ASSUME TypeInv PROVE TypeOK
  OBVIOUS
<1>1. ASSUME NEW proc \in Procs PROVE IsRun(run[proc])
  <2>1. CASE run[proc] = Idle
    BY <2>1 DEF IsRun
  <2>2. CASE Extracted(run[proc])
    <3>1. run[proc].at = "extracted"
      BY <2>2 DEF Extracted
    <3> QED BY <2>2, <3>1 DEF Extracted, IsRun, Tree
  <2>3. CASE Past(run[proc])
    BY <2>3 DEF Past, IsRun, Tree
  <2> QED BY <2>1, <2>2, <2>3 DEF TypeInv, RunInv
<1> QED BY <1>1 DEF TypeInv, TypeOK, Tree, IsDoc

\* What a run ends up with, and what it saves, are entries as well.
LEMMA ResolvedType ==
    ASSUME NEW files, NEW old, NEW doc, NEW conf, doc # NoCache => IsDoc(doc)
    PROVE  IsGraph(Resolved(files, old, doc, conf), files)
<1>1. ASSUME NEW p \in DOMAIN files, NEW e \in Resolved(files, old, doc, conf)[p]
      PROVE  CallEntry(p, e)
  <2>1. CASE p \in ToResolve(files, old, doc, conf)
    BY <2>1, EntryShape DEF Resolved
  <2>2. CASE p \notin ToResolve(files, old, doc, conf)
    <3>1. doc # NoCache /\ DOMAIN files = DOMAIN doc.files
      BY <2>2 DEF ToResolve
    <3>2. e \in doc.files[p].calls
      BY <2>2 DEF Resolved
    <3> QED BY <3>1, <3>2 DEF IsDoc
  <2> QED BY <2>1, <2>2
<1> QED BY <1>1 DEF IsGraph, Resolved

LEMMA CacheDocType ==
    ASSUME NEW t, NEW graph, IsTree(t), IsGraph(graph, t), NEW conf \in Configs
    PROVE  IsDoc(CacheDoc(t, graph, conf))
  BY DEF CacheDoc, IsDoc, IsTree, IsGraph

LEMMA TypeInit == Init => TypeInv
<1> SUFFICES ASSUME Init PROVE TypeInv
  OBVIOUS
<1>1. /\ Tree(head.tree) /\ head.config \in Configs
      /\ tree = head.tree /\ config = head.config /\ extraction = tree
      /\ edits = 0 /\ runs = 0
      /\ run = [proc \in Procs |-> Idle]
  BY StartsAssumption DEF Init, Tree, IsTree
<1>2. IsGraph(ResolveAll(tree, config), tree)
  BY EntryShape DEF IsGraph, ResolveAll
<1>3. IsDoc(resolution)
  BY <1>1, <1>2, CacheDocType DEF Init, Tree
<1>4. /\ run = [proc \in Procs |-> run[proc]]
      /\ \A proc \in Procs : RunInv(run[proc])
  BY <1>1 DEF RunInv
<1>5. edits \in 0..MaxEdits /\ runs \in 0..MaxRuns
  BY <1>1, BoundsAssumption
<1>6. Tree(tree) /\ IsTree(extraction) /\ config \in Configs
  BY <1>1 DEF Tree
<1> QED BY <1>1, <1>3, <1>4, <1>5, <1>6 DEF TypeInv

\* A step of one run.
LEMMA RunStep ==
    ASSUME TypeInv, NEW proc \in Procs, NEW r, run' = [run EXCEPT ![proc] = r]
    PROVE  /\ run' = [q \in Procs |-> run'[q]] /\ run'[proc] = r
           /\ \A q \in Procs \ {proc} : run'[q] = run[q]
           /\ RunInv(r) => \A q \in Procs : RunInv(run'[q])
  BY DEF TypeInv

LEMMA ExtractRun ==
    ASSUME TypeInv, NEW proc \in Procs, Extract(proc)
    PROVE  \E r : run' = [run EXCEPT ![proc] = r] /\ Extracted(r)
<1>1. PICK kind \in Kinds :
         run' = [run EXCEPT ![proc] =
                   [at    |-> "extracted",
                    kind  |-> kind,
                    old   |-> IF kind = "full" THEN NoFiles ELSE extraction,
                    files |-> IF kind = "rev" THEN head.tree ELSE tree,
                    config |-> IF kind = "rev" THEN head.config ELSE config]]
  BY DEF Extract
<1>2. IsTree(NoFiles)
  BY DEF IsTree, NoFiles
<1> DEFINE old  == IF kind = "full" THEN NoFiles ELSE extraction
           fs   == IF kind = "rev" THEN head.tree ELSE tree
           conf == IF kind = "rev" THEN head.config ELSE config
           r    == [at |-> "extracted", kind |-> kind, old |-> old,
                    files |-> fs, config |-> conf]
<1>3. IsTree(old) /\ Tree(fs) /\ conf \in Configs
  BY <1>2 DEF TypeInv
<1>4. Extracted(r)
  <2> HIDE DEF old, fs, conf
  <2> QED BY <1>3 DEF Extracted
<1> QED BY <1>1, <1>4

LEMMA ResolveRun ==
    ASSUME TypeInv, NEW proc \in Procs, Resolve(proc)
    PROVE  LET r    == run[proc]
               conf == IF r.kind = "rev" THEN r.config ELSE config
               doc  == IF r.kind = "full" THEN NoCache ELSE resolution
               out  == [at     |-> "resolved",
                        own    |-> r.kind # "rev",
                        files  |-> r.files,
                        config |-> conf,
                        graph  |-> Resolved(r.files, r.old, doc, conf)]
           IN  /\ run' = [run EXCEPT ![proc] = out] /\ Past(out)
               /\ Extracted(r)
<1> DEFINE r    == run[proc]
           conf == IF r.kind = "rev" THEN r.config ELSE config
           doc  == IF r.kind = "full" THEN NoCache ELSE resolution
           out  == [at     |-> "resolved",
                    own    |-> r.kind # "rev",
                    files  |-> r.files,
                    config |-> conf,
                    graph  |-> Resolved(r.files, r.old, doc, conf)]
<1>1. r.at = "extracted" /\ run' = [run EXCEPT ![proc] = out]
  BY DEF Resolve
<1>2. Extracted(r)
  BY <1>1 DEF TypeInv, RunInv, Past, Idle
<1>3. conf \in Configs /\ (doc # NoCache => IsDoc(doc))
  BY <1>2 DEF TypeInv, Extracted
<1>4. IsGraph(Resolved(r.files, r.old, doc, conf), r.files)
  BY <1>3, ResolvedType
<1>5. Past(out)
  <2> HIDE DEF conf, doc
  <2> QED BY <1>2, <1>3, <1>4 DEF Extracted, Past
<1> QED BY <1>1, <1>2, <1>5

LEMMA SaveExtractionRun ==
    ASSUME TypeInv, NEW proc \in Procs, SaveExtraction(proc)
    PROVE  LET r   == run[proc]
               out == [at |-> "saving", own |-> r.own, files |-> r.files,
                       config |-> r.config, graph |-> r.graph]
           IN  /\ run' = [run EXCEPT ![proc] = out] /\ Past(r) /\ Past(out)
               /\ r.own /\ extraction' = r.files
<1> DEFINE r   == run[proc]
           out == [at |-> "saving", own |-> r.own, files |-> r.files,
                   config |-> r.config, graph |-> r.graph]
<1>1. /\ r.at = "resolved" /\ r.own /\ extraction' = r.files
      /\ run' = [run EXCEPT ![proc].at = "saving"]
  BY DEF SaveExtraction
<1>2. Past(r)
  BY <1>1 DEF TypeInv, RunInv, Extracted, Idle
<1>3. [r EXCEPT !.at = "saving"] = out
  BY <1>2 DEF Past
<1>4. run' = [run EXCEPT ![proc] = out]
  BY <1>1, <1>3 DEF TypeInv
<1>5. Past(out)
  BY <1>2 DEF Past
<1> QED BY <1>1, <1>2, <1>4, <1>5

LEMMA PastRun ==
    ASSUME TypeInv, NEW proc \in Procs, run[proc].at \in {"resolved", "saving"}
    PROVE  Past(run[proc])
  BY DEF TypeInv, RunInv, Extracted, Idle

\* The user's edits leave a tree.
LEMMA EditType ==
    ASSUME TypeInv, EditFile \/ AddFile \/ RemoveFile \/ EditConfig
    PROVE  TypeInv'
<1>1. /\ UNCHANGED <<head, extraction, resolution, run, runs>>
      /\ edits' \in 0..MaxEdits
  BY BoundsAssumption
     DEF EditFile, AddFile, RemoveFile, EditConfig, MayEdit, TypeInv
<1>2. Tree(tree') /\ config' \in Configs
  <2>1. CASE EditFile
    BY <2>1 DEF EditFile, TypeInv, Tree, IsTree
  <2>2. CASE AddFile
    <3>1. PICK p \in Paths \ DOMAIN tree : \E c \in Contents[p] :
             tree' = [q \in (DOMAIN tree) \cup {p} |->
                         IF q = p THEN c ELSE tree[q]]
      BY <2>2 DEF AddFile
    <3> QED BY <2>2, <3>1 DEF AddFile, TypeInv, Tree, IsTree
  <2>3. CASE RemoveFile
    <3>1. PICK p \in DOMAIN tree : tree' = [q \in (DOMAIN tree) \ {p} |-> tree[q]]
      BY <2>3 DEF RemoveFile
    <3> QED BY <2>3, <3>1 DEF RemoveFile, TypeInv, Tree, IsTree
  <2>4. CASE EditConfig
    BY <2>4 DEF EditConfig, TypeInv
  <2> QED BY <2>1, <2>2, <2>3, <2>4
<1> QED BY <1>1, <1>2 DEF TypeInv

\* TypeInv is inductive.
LEMMA TypeStep ==
    ASSUME TypeInv, [Next]_vars
    PROVE  TypeInv'
<1>1. ASSUME NEW proc \in Procs, Extract(proc) PROVE TypeInv'
  <2>1. PICK r : run' = [run EXCEPT ![proc] = r] /\ Extracted(r)
    BY <1>1, ExtractRun
  <2>2. runs' \in 0..MaxRuns
    BY <1>1, BoundsAssumption DEF Extract, TypeInv
  <2> QED BY <1>1, <2>1, <2>2, RunStep DEF Extract, TypeInv, RunInv
<1>2. ASSUME NEW proc \in Procs, MapIsNoop(proc) \/ Leave(proc) \/ Kill(proc)
      PROVE  TypeInv'
  <2>1. run' = [run EXCEPT ![proc] = Idle]
    BY <1>2 DEF MapIsNoop, Leave, Kill
  <2> QED BY <1>2, <2>1, RunStep DEF MapIsNoop, Leave, Kill, TypeInv, RunInv
<1>3. ASSUME NEW proc \in Procs, Resolve(proc) PROVE TypeInv'
  <2>1. PICK r : run' = [run EXCEPT ![proc] = r] /\ Past(r)
    BY <1>3, ResolveRun
  <2> QED BY <1>3, <2>1, RunStep DEF Resolve, TypeInv, RunInv
<1>4. ASSUME NEW proc \in Procs, SaveExtraction(proc) PROVE TypeInv'
  <2>1. PICK r : run' = [run EXCEPT ![proc] = r] /\ Past(r)
    BY <1>4, SaveExtractionRun
  <2>2. IsTree(extraction')
    BY <1>4, SaveExtractionRun DEF Past, Tree
  <2> QED BY <1>4, <2>1, <2>2, RunStep DEF SaveExtraction, TypeInv, RunInv
<1>5. ASSUME NEW proc \in Procs, SaveResolution(proc) PROVE TypeInv'
  <2>1. Past(run[proc])
    BY <1>5, PastRun DEF SaveResolution
  <2>2. IsDoc(resolution')
    BY <1>5, <2>1, CacheDocType DEF SaveResolution, Past, Tree, TypeInv
  <2> QED BY <1>5, <2>2, RunStep DEF SaveResolution, TypeInv, RunInv
<1>6. CASE UNCHANGED vars
  BY <1>6 DEF vars, TypeInv
<1> QED BY <1>1, <1>2, <1>3, <1>4, <1>5, <1>6, EditType DEF Next

\* Every variable stays in its type, with edits of the configuration between
\* a resolution and its save as well.
THEOREM TypeCorrect == Spec => []TypeOK
<1>1. TypeInv /\ [Next]_vars => TypeInv'
  BY TypeStep
<1> QED BY <1>1, TypeInit, TypeInvType, PTL DEF Spec

-----------------------------------------------------------------------------
(* The cache describes one tree, and reusing it changes nothing. *)

\* The cache is what some run saved, every run past resolution holds what
\* resolving its own tree gives, and one about to save resolved it under the
\* configuration of this moment.
ReuseInv ==
    /\ TypeInv
    /\ Tree(SavedHashes) /\ Saved(resolution, SavedHashes)
    /\ \A proc \in Procs :
          run[proc].at \in {"resolved", "saving"} =>
             /\ run[proc].graph = ResolveAll(run[proc].files, run[proc].config)
             /\ run[proc].own => run[proc].config = config
             /\ run[proc].at = "saving" => run[proc].own

LEMMA SavedHashesOf ==
    ASSUME NEW t, Tree(t), NEW conf,
           resolution = CacheDoc(t, ResolveAll(t, conf), conf)
    PROVE  Tree(SavedHashes) /\ Saved(resolution, SavedHashes)
<1>1. SavedHashes = t
  BY DEF SavedHashes, CacheDoc, Tree
<1>2. resolution.config = conf
  BY DEF CacheDoc
<1> QED BY <1>1, <1>2 DEF Saved

LEMMA ReuseInit == Init => ReuseInv
<1> SUFFICES ASSUME Init PROVE ReuseInv
  OBVIOUS
<1>1. TypeInv
  BY TypeInit
<1>2. Tree(SavedHashes) /\ Saved(resolution, SavedHashes)
  BY <1>1, SavedHashesOf DEF Init, TypeInv
<1>3. \A proc \in Procs : run[proc].at = "idle"
  BY DEF Init, Idle
<1> QED BY <1>1, <1>2, <1>3 DEF ReuseInv

\* ReuseInv is inductive while no edit of the configuration falls between a
\* run's resolution and its save.
LEMMA ReuseStep ==
    ASSUME ReuseInv, EditsInSave = FALSE, [Next]_vars
    PROVE  ReuseInv'
<1> DEFINE Held(q) ==
      run[q].at \in {"resolved", "saving"} =>
         /\ run[q].graph = ResolveAll(run[q].files, run[q].config)
         /\ run[q].own => run[q].config = config
         /\ run[q].at = "saving" => run[q].own
      Cached == Tree(SavedHashes) /\ Saved(resolution, SavedHashes)
<1>0. TypeInv /\ TypeInv' /\ Cached /\ \A q \in Procs : Held(q)
  BY TypeStep DEF ReuseInv
<1> SUFFICES Cached' /\ \A q \in Procs : Held(q)'
  BY <1>0 DEF ReuseInv
<1>1. ASSUME UNCHANGED resolution PROVE Cached'
  BY <1>0, <1>1 DEF SavedHashes, Saved
<1>2. ASSUME NEW proc \in Procs, NEW r, run' = [run EXCEPT ![proc] = r],
             UNCHANGED config,
             r.at \in {"resolved", "saving"} =>
                /\ r.graph = ResolveAll(r.files, r.config)
                /\ r.own => r.config = config
                /\ r.at = "saving" => r.own
      PROVE  \A q \in Procs : Held(q)'
  <2>1. run'[proc] = r /\ \A q \in Procs \ {proc} : run'[q] = run[q]
    BY <1>0, <1>2, RunStep
  <2> QED BY <1>0, <1>2, <2>1
<1>3. ASSUME NEW proc \in Procs, Extract(proc)
      PROVE  Cached' /\ \A q \in Procs : Held(q)'
  <2>1. PICK r : run' = [run EXCEPT ![proc] = r] /\ Extracted(r)
    BY <1>0, <1>3, ExtractRun
  <2>2. r.at = "extracted" /\ UNCHANGED <<resolution, config>>
    BY <1>3, <2>1 DEF Extracted, Extract
  <2> QED BY <1>1, <1>2, <2>1, <2>2
<1>4. ASSUME NEW proc \in Procs, MapIsNoop(proc) \/ Leave(proc) \/ Kill(proc)
      PROVE  Cached' /\ \A q \in Procs : Held(q)'
  <2>1. /\ run' = [run EXCEPT ![proc] = Idle] /\ Idle.at = "idle"
        /\ UNCHANGED <<resolution, config>>
    BY <1>4 DEF MapIsNoop, Leave, Kill, Idle
  <2> QED BY <1>1, <1>2, <2>1
<1>5. ASSUME NEW proc \in Procs, Resolve(proc)
      PROVE  Cached' /\ \A q \in Procs : Held(q)'
  <2> DEFINE r    == run[proc]
             conf == IF r.kind = "rev" THEN r.config ELSE config
             doc  == IF r.kind = "full" THEN NoCache ELSE resolution
             out  == [at     |-> "resolved",
                      own    |-> r.kind # "rev",
                      files  |-> r.files,
                      config |-> conf,
                      graph  |-> Resolved(r.files, r.old, doc, conf)]
  <2>1. run' = [run EXCEPT ![proc] = out] /\ Extracted(r)
    BY <1>0, <1>5, ResolveRun
  <2>2. Resolved(r.files, r.old, doc, conf) = ResolveAll(r.files, conf)
    <3> HIDE DEF conf
    <3>1. CASE r.kind = "full"
      BY <3>1, NothingToReuse
    <3>2. CASE r.kind # "full"
      BY <1>0, <2>1, <3>2, ReuseExact DEF Extracted
    <3> QED BY <3>1, <3>2
  <2>3. out.own => out.config = config
    OBVIOUS
  <2>4. UNCHANGED <<resolution, config>>
    BY <1>5 DEF Resolve
  <2>5. out.at = "resolved" /\ out.graph = ResolveAll(out.files, out.config)
    <3> HIDE DEF conf, doc
    <3> QED BY <2>2
  <2> HIDE DEF out
  <2> QED BY <1>1, <1>2, <2>1, <2>3, <2>4, <2>5
<1>6. ASSUME NEW proc \in Procs, SaveExtraction(proc)
      PROVE  Cached' /\ \A q \in Procs : Held(q)'
  <2> DEFINE r   == run[proc]
             out == [at |-> "saving", own |-> r.own, files |-> r.files,
                     config |-> r.config, graph |-> r.graph]
  <2>1. run' = [run EXCEPT ![proc] = out] /\ Past(r) /\ r.own
    BY <1>0, <1>6, SaveExtractionRun
  <2>2. r.graph = ResolveAll(r.files, r.config) /\ r.config = config
    BY <1>0, <2>1 DEF Past
  <2>3. UNCHANGED <<resolution, config>>
    BY <1>6 DEF SaveExtraction
  <2> QED BY <1>1, <1>2, <2>1, <2>2, <2>3
<1>7. ASSUME NEW proc \in Procs, SaveResolution(proc)
      PROVE  Cached' /\ \A q \in Procs : Held(q)'
  <2> DEFINE r == run[proc]
  <2>1. /\ r.at = "saving" /\ run' = [run EXCEPT ![proc] = Idle]
        /\ resolution' = CacheDoc(r.files, r.graph, config)
        /\ UNCHANGED config
    BY <1>7 DEF SaveResolution
  <2>2. /\ r.graph = ResolveAll(r.files, config)
    BY <1>0, <2>1
  <2>3. Tree(r.files)
    BY <1>0, <2>1, PastRun DEF Past
  <2>4. Cached'
    <3>1. resolution' = CacheDoc(r.files, ResolveAll(r.files, config), config)
      BY <2>1, <2>2
    <3>2. SavedHashes' = r.files
      BY <2>3, <3>1 DEF SavedHashes, CacheDoc, Tree
    <3>3. resolution'.config = config
      BY <3>1 DEF CacheDoc
    <3> QED BY <2>3, <3>1, <3>2, <3>3 DEF Saved, Tree
  <2> QED BY <1>2, <2>1, <2>4 DEF Idle
<1>8. ASSUME EditFile \/ AddFile \/ RemoveFile
      PROVE  Cached' /\ \A q \in Procs : Held(q)'
  <2>1. UNCHANGED <<config, resolution, run>>
    BY <1>8 DEF EditFile, AddFile, RemoveFile
  <2> QED BY <1>0, <1>1, <2>1
<1>9. ASSUME EditConfig
      PROVE  Cached' /\ \A q \in Procs : Held(q)'
  <2>1. /\ UNCHANGED <<resolution, run>>
        /\ \A q \in Procs : run[q].at \notin {"resolved", "saving"}
    BY <1>9 DEF EditConfig
  <2> QED BY <1>1, <2>1
<1>10. CASE UNCHANGED vars
  BY <1>0, <1>1, <1>10 DEF vars
<1> QED
  BY <1>3, <1>4, <1>5, <1>6, <1>7, <1>8, <1>9, <1>10 DEF Next

LEMMA ReuseHolds ==
    ASSUME EditsInSave = FALSE
    PROVE  Spec => []ReuseInv
<1>1. ReuseInv /\ [Next]_vars => ReuseInv'
  BY ReuseStep
<1> QED BY <1>1, ReuseInit, PTL DEF Spec

\* Reuse changes nothing: for every content of the files, whatever was
\* edited, added or removed, whatever concurrent runs saved and however often
\* a run was killed between its two saves, the calls a run ends up with are
\* those that resolving every file of its tree gives (build_reuse).
THEOREM ReuseSafe ==
    ASSUME EditsInSave = FALSE
    PROVE  Spec => []ReuseIsExact
<1>1. ReuseInv => ReuseIsExact
  BY DEF ReuseInv, ReuseIsExact, Graphs
<1> QED BY <1>1, ReuseHolds, PTL

\* Under the same assumption the saved cache is always what resolving the
\* contents it records gives under the configuration it records.
THEOREM CacheSafe ==
    ASSUME EditsInSave = FALSE
    PROVE  Spec => []CacheIsOneTree
<1>1. ReuseInv => CacheIsOneTree
  <2> SUFFICES ASSUME ReuseInv PROVE SavedCalls = ResolveAll(SavedHashes, resolution.config)
    BY DEF CacheIsOneTree
  <2>1. resolution = CacheDoc(SavedHashes, ResolveAll(SavedHashes, resolution.config),
                              resolution.config)
    BY DEF ReuseInv, Saved
  <2>2. /\ DOMAIN resolution.files = DOMAIN SavedHashes
        /\ \A p \in DOMAIN SavedHashes :
              resolution.files[p].calls
                = ResolveAll(SavedHashes, resolution.config)[p]
    BY <2>1 DEF CacheDoc
  <2> QED BY <2>2 DEF SavedCalls, ResolveAll
<1> QED BY <1>1, ReuseHolds, PTL
===============================================================================
