---------------------------- MODULE MCResolveReuse ----------------------------
(***************************************************************************)
(* Small instances of ResolveReuse for TLC: a file that calls, a file that *)
(* declares or passes names on, and a file that declares them.             *)
(***************************************************************************)
EXTENDS ResolveReuse, TLC

Fun(n)    == [name |-> n, kind |-> Function]
Call(b, n) == [by |-> b, name |-> n]
Import(l, o, f)   == [local |-> l, original |-> o, from |-> f]
Reexport(n, o, f) == [name |-> n, original |-> o, from |-> f]
Says(defs, calls, imports, reexports) ==
    [defs |-> defs, calls |-> calls, imports |-> imports, reexports |-> reexports]

\* Two that know g as f, from b and through the alias (the second's h is a
\* package's), and one that takes b's default export.
Callers ==
    {Says({}, {Call(Module, "f"), Call(Module, "h")}, {Import("f", "g", "b")}, {}),
     Says({}, {Call(Module, "f"), Call(Module, "h")},
          {Import("f", "g", Alias), Import("h", "h", External)}, {}),
     Says({}, {Call(Module, "k")}, {Import("k", Default, "b")}, {})}

Barrels ==
    {Says({Fun("f")}, {Call("f", "g")}, {}, {}),
     Says({}, {}, {}, {Reexport("f", "g", "c")}),
     Says({}, {}, {}, {Reexport(Star, Star, "c")}),
     Says({}, {}, {Import("g", "g", "c")}, {Reexport(Default, "g", Here)}),
     Says({Fun("g")}, {}, {}, {Reexport(Default, "g", Here)}),
     Says({}, {Call(Module, "g")}, {}, {})}

Libraries ==
    {Says({Fun("f")}, {}, {}, {}),
     Says({Fun("g"), [name |-> "h", kind |-> Method]}, {}, {}, {}),
     Says({[name |-> "f", kind |-> Class], Fun("g")}, {Call("g", "f")}, {}, {})}

ProcSymmetry == Permutations(Procs)

MCPaths    == {"a", "b", "c"}
MCContents == [p \in MCPaths |-> CASE p = "a" -> Callers
                                   [] p = "b" -> Barrels
                                   [] p = "c" -> Libraries]
\* Histories start from the library with a method; edits bring the others.
MCStarts   == {[tree |-> t, config |-> "b"] :
                  t \in {u \in [MCPaths -> Callers \cup Barrels \cup Libraries] :
                            /\ \A p \in MCPaths : u[p] \in MCContents[p]
                            /\ Fun("g") \in u["c"].defs /\ u["c"].calls = {}}}
=============================================================================
