------------------------------- MODULE MCPidfile -------------------------------
(***************************************************************************)
(* Pidfile for TLC.                                                        *)
(***************************************************************************)
EXTENDS Pidfile, TLC

\* Daemon processes are alike before they are started; not for runs with liveness.
Symmetry == Permutations(Daemon)
===============================================================================
