---------------------------- MODULE CallResolution ----------------------------
(***************************************************************************)
(* How core/resolver.py gives the receiverless calls of a JS/TS repository *)
(* their targets, and which files an edit can give other answers.          *)
(*                                                                         *)
(* A tree is a function from the paths discovery lists to what extraction  *)
(* finds in each file:                                                     *)
(*   defs      the symbols declared, as [name, kind];                      *)
(*   calls     the calls, as [by, name]: by is the function whose body the *)
(*             call is in, or Module for a top-level statement;            *)
(*   imports   the bindings, as [local, original, from], one per local;    *)
(*   reexports the re-export records, as [name, original, from]: name is   *)
(*             Star for "export * from", from is Here for "export {a as b}".*)
(* A specifier (from) is a path, External (a package), or Alias: a         *)
(* tsconfig alias, which names the path that is the configuration and is   *)
(* spelled like the file AliasStem.  Paths are all different stems.  Left  *)
(* out: receivers, parameters, argument counts (every call fits), test     *)
(* code, and the rules of the other languages.                             *)
(***************************************************************************)
EXTENDS Naturals, FiniteSets

CONSTANTS Module, Star, Here, External, Alias, AliasStem,
          ReexportDepth   \* _REEXPORT_DEPTH: how far a name is followed

ASSUME DepthAssumption == ReexportDepth \in Nat

Function == "function"
Class    == "class"     \* one of TYPE_KINDS
Method   == "method"    \* its qualname is dotted: never top level
Default  == "default"   \* the name of a default export: a star passes it by

-----------------------------------------------------------------------------
(* The index and the specifiers. *)

SymbolsOf(tree, path) ==
    {[path |-> path, name |-> d.name, kind |-> d.kind] : d \in tree[path].defs}

AllSymbols(tree) == UNION {SymbolsOf(tree, path) : path \in DOMAIN tree}

\* Bare name -> every symbol with it.
Index(tree, name) == {s \in AllSymbols(tree) : s.name = name}

\* The file a specifier names, as a set of at most one path.
FileOf(tree, config, from) ==
    DOMAIN tree \cap (IF from = Alias THEN {config} ELSE {from})

\* The stem test: is the path's stem a segment of the specifier?
ModuleMatches(from, path) == path = (IF from = Alias THEN AliasStem ELSE from)

Bindings(tree, path, name) == {i \in tree[path].imports : i.local = name}

-----------------------------------------------------------------------------
(* _OriginLookup: a binding followed to the symbols it names. *)

\* path's own import of name, as the place it continues at.
FollowBinding(tree, config, path, name) ==
    UNION {FileOf(tree, config, i.from) \X {i.original} :
               i \in Bindings(tree, path, name)}

\* Where "name, exported by path" continues.
Hops(tree, config, path, name) ==
    LET stars == {r \in tree[path].reexports : r.name = Star /\ name # Default}
        named == {r \in tree[path].reexports : r.name = name}
    IN  (UNION {FileOf(tree, config, r.from) \X {name} : r \in stars})
          \cup (UNION {FileOf(tree, config, r.from) \X {r.original} : r \in named})
          \cup (UNION {FollowBinding(tree, config, path, r.original) :
                          r \in {x \in named : x.from = Here}})
          \cup FollowBinding(tree, config, path, name)

\* Every (path, name) the walk from start visits.
Reach(tree, config, start) ==
    LET within[d \in 0..ReexportDepth] ==
            IF d = 0 THEN start
            ELSE within[d - 1] \cup
                 UNION {Hops(tree, config, at[1], at[2]) : at \in within[d - 1]}
    IN  within[ReexportDepth]

\* A source-less re-export also declares its original, in the same file.
Declared(tree, reached) ==
    reached \cup UNION {{<<at[1], r.original>> :
                            r \in {x \in tree[at[1]].reexports :
                                       x.from = Here /\ x.name = at[2]}} :
                        at \in reached}

\* The top-level symbols the binding of name in path leads to.
Origins(tree, config, path, name) ==
    LET places == Declared(tree, Reach(tree, config,
                                       FollowBinding(tree, config, path, name)))
    IN  {s \in AllSymbols(tree) : s.kind # Method /\ <<s.path, s.name>> \in places}

-----------------------------------------------------------------------------
(* _resolve_call. *)

CallerId(path, by) ==
    [path |-> path, name |-> by,
     kind |-> IF by = Module THEN "module" ELSE Function]

Edge(by, s)             == [by |-> by, verdict |-> "edge", name |-> s.name, to |-> {s}]
Ambiguous(by, name, ss) == [by |-> by, verdict |-> "ambiguous", name |-> name, to |-> ss]
Unresolved(by, name)    == [by |-> by, verdict |-> "external", name |-> name, to |-> {}]

\* Mutant of Record: one candidate is already a choice.
RecordOffByOne(path, call, found) ==
    IF found = {} THEN {Unresolved(call.by, call.name)}
    ELSE {Ambiguous(call.by, call.name, found)}

\* What one call records; a call resolved to its own caller records nothing.
Record(path, call, found) ==
    IF found = {} THEN {Unresolved(call.by, call.name)}
    ELSE IF Cardinality(found) > 1 THEN {Ambiguous(call.by, call.name, found)}
    ELSE {Edge(call.by, s) : s \in found \ {CallerId(path, call.by)}}

Single(s) == Cardinality(s) = 1

\* Nothing has the call's own name: it may be an import alias.
AliasCandidates(tree, config, path, name) ==
    LET origins == Origins(tree, config, path, name)
        found   == UNION {{c \in Index(tree, i.original) : ModuleMatches(i.from, c.path)} :
                              i \in Bindings(tree, path, name)}
    IN  IF Single(origins) \/ found = {} THEN origins ELSE found

\* The rungs below the file's own symbols, each as the candidates it leaves.
HintMatch(tree, path, name, candidates) ==
    {c \in candidates :
        \E i \in Bindings(tree, path, name) : ModuleMatches(i.from, c.path)}

ShadowedByExternalImport(tree, path, name) ==
    \E i \in Bindings(tree, path, name) : i.from = External

BareCallNonMethods(candidates) == {c \in candidates : c.kind # Method}

\* The candidate ladder, as the set of symbols the call is left with.
PickCandidate(tree, config, path, call) ==
    LET candidates == Index(tree, call.name)
        sameFile   == {c \in candidates : c.path = path}
        origins    == Origins(tree, config, path, call.name)
        hinted     == HintMatch(tree, path, call.name, candidates)
        nonMethods == BareCallNonMethods(candidates)
    IN  IF Single(sameFile) /\ CallerId(path, call.by) \notin sameFile THEN sameFile
        ELSE IF Single(origins) THEN origins
        ELSE IF Single(hinted) THEN hinted
        ELSE IF ShadowedByExternalImport(tree, path, call.name) THEN {}
        ELSE IF Single(nonMethods) /\ ~Single(candidates) THEN nonMethods
        ELSE candidates

ResolveCall(tree, config, path, call) ==
    Record(path, call, IF Index(tree, call.name) = {}
                       THEN AliasCandidates(tree, config, path, call.name)
                       ELSE PickCandidate(tree, config, path, call))

\* Everything the calls of one file resolve to.
ResolveFile(tree, config, path) ==
    UNION {ResolveCall(tree, config, path, call) : call \in tree[path].calls}

ResolveAll(tree, config) ==
    [path \in DOMAIN tree |-> ResolveFile(tree, config, path)]

-----------------------------------------------------------------------------
(* What an edit of one file, from old to new, can change for other files. *)

Differ(a, b) == (a \ b) \cup (b \ a)

Rows(content, name)  == {d \in content.defs : d.name = name}
Defined(content)     == {d.name : d \in content.defs}

\* name_delta: names whose declarations differ; those with none before.
ChangedNames(old, new) ==
    {n \in Defined(old) \cup Defined(new) : Rows(old, n) # Rows(new, n)}
NewlyDefined(old, new) == {n \in ChangedNames(old, new) : Rows(old, n) = {}}

\* Mutant of BlocksReuse: a star re-export is taken to be bounded.
TypesOnly(old, new) ==
    \E n \in ChangedNames(old, new) :
        \E d \in Rows(old, n) \cup Rows(new, n) : d.kind = Class

\* The edits whose reach no set of names bounds: a type appears, goes or
\* changes, or a star re-export is gained or lost.
BlocksReuse(old, new) ==
    \/ \E n \in ChangedNames(old, new) :
          \E d \in Rows(old, n) \cup Rows(new, n) : d.kind = Class
    \/ \E r \in Differ(old.reexports, new.reexports) : r.name = Star

\* reexport_delta_names: the names whose onward path the edit moves.
ReexportDeltaNames(old, new) ==
    (UNION {{r.name, r.original} : r \in Differ(old.reexports, new.reexports)})
      \cup (UNION {{i.local, i.original} :
                      i \in {x \in Differ(old.imports, new.imports) : x.from # External}})

\* Every [was, now] under which some file passes a name on.
Renames(tree) ==
    UNION {{[was |-> r.original, now |-> r.name] :
                r \in {x \in tree[path].reexports : x.name # Star}}
             \cup {[was |-> i.original, now |-> i.local] : i \in tree[path].imports} :
           path \in DOMAIN tree}

\* The names an edit reaches once they are passed on under other ones.
ReexportClosure(tree, names) ==
    LET renames == Renames(tree)
        grown[k \in 0..Cardinality(renames)] ==
            IF k = 0 THEN names
            ELSE grown[k - 1] \cup
                 {r.now : r \in {x \in renames : x.was \in grown[k - 1]}}
    IN  grown[Cardinality(renames)]
===============================================================================
