--------------------------- MODULE MCDaemonRequest ---------------------------
(***************************************************************************)
(* Small instances of DaemonRequest for TLC.                               *)
(***************************************************************************)
EXTENDS DaemonRequest, TLC

\* Clients are interchangeable.
ClientSymmetry == Permutations(Clients)
=============================================================================
