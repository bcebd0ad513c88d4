---------------------------- MODULE MCRollingOps ----------------------------
(* Model values for RollingOps.                                            *)
EXTENDS RollingOps, TLC

Symmetry == Permutations(Unit)
=============================================================================
