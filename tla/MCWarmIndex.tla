----------------------------- MODULE MCWarmIndex -----------------------------
(***************************************************************************)
(* Small instances of WarmIndex for TLC.                                   *)
(***************************************************************************)
EXTENDS WarmIndex, TLC

\* Notes are interchangeable.
Symmetry == Permutations(Notes)
=============================================================================
