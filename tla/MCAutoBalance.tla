---------------------------- MODULE MCAutoBalance ----------------------------
(* Two racks for AutoBalance and a unit without: with the units of the first *)
(* deployment there are as many racks as replicas, with others there are not. *)
EXTENDS AutoBalance

CONSTANTS u1, u2, u3
MCRack == [u \in Unit |-> CASE u = u1 -> "r1" [] u = u2 -> "r2" [] u = u3 -> NoRack]
=============================================================================
