--------------------------- MODULE MCDaemonConfig ---------------------------
(* The processes are interchangeable, and nothing but safety is checked.     *)
EXTENDS DaemonConfig, TLC
Symmetry == Permutations(Procs)
=============================================================================
