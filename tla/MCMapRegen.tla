----------------------------- MODULE MCMapRegen -----------------------------
(***************************************************************************)
(* Small instances of MapRegen for TLC.                                    *)
(***************************************************************************)
EXTENDS MapRegen, TLC

\* Processes are interchangeable: no action or safety property names one.
ProcSymmetry == Permutations(Procs)
=============================================================================
