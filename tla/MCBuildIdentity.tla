--------------------------- MODULE MCBuildIdentity ---------------------------
(***************************************************************************)
(* Small instances of BuildIdentity for TLC.                               *)
(***************************************************************************)
EXTENDS BuildIdentity, TLC

\* Processes of a kind are interchangeable, and so are releases.
Symmetry ==
    Permutations(LongLived) \cup Permutations(Commands) \cup Permutations(Releases)
=============================================================================
