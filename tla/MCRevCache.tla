----------------------------- MODULE MCRevCache -----------------------------
(***************************************************************************)
(* Small instances of RevCache for TLC.                                    *)
(***************************************************************************)
EXTENDS RevCache, TLC

\* Commands, revisions, options and builds are each interchangeable.
Symmetry ==
    Permutations(Commands) \cup Permutations(Revs)
        \cup Permutations(Options) \cup Permutations(Builds)
=============================================================================
