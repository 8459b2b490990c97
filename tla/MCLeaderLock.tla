---------------------------- MODULE MCLeaderLock ----------------------------
(***************************************************************************)
(* TLC instances of LeaderLock.                                            *)
(***************************************************************************)
EXTENDS LeaderLock, TLC

\* Daemons are interchangeable, and so are doctors.
Symmetry == Permutations(Daemons) \cup Permutations(Doctors)
=============================================================================
