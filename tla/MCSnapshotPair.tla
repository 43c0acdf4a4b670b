--------------------------- MODULE MCSnapshotPair ---------------------------
(***************************************************************************)
(* Small instances of SnapshotPair for TLC.                                *)
(***************************************************************************)
EXTENDS SnapshotPair, TLC

\* Paths, contents and commits are each interchangeable.
Symmetry ==
    Permutations(Paths) \cup Permutations(Contents) \cup Permutations(Commits)
=============================================================================
