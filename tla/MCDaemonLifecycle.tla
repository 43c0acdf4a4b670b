-------------------------- MODULE MCDaemonLifecycle --------------------------
(***************************************************************************)
(* Small instances of DaemonLifecycle for TLC.                             *)
(***************************************************************************)
EXTENDS DaemonLifecycle, TLC

\* Daemons are interchangeable, and so are the clients: no action or safety
\* property names one.
DaemonSymmetry == Permutations(Daemons) \cup Permutations(Clients)
=============================================================================
