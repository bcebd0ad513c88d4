---------------------------- MODULE MCTlsRotation ----------------------------
(* Model values for TlsRotation.                                            *)
EXTENDS TlsRotation, TLC

CONSTANTS ib, ic

OwnCa == [a \in {"broker", "controller"} |-> IF a = "broker" THEN ib ELSE ic]
Symmetry == Permutations(Broker) \cup Permutations(Controller)
=============================================================================
