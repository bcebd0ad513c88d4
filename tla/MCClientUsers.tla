---------------------------- MODULE MCClientUsers ----------------------------
(* Model values for ClientUsers: one client with both roles.                *)
EXTENDS ClientUsers, TLC

\* The units are interchangeable, so one of them may be the first leader.
FirstLeader == leader = CHOOSE u \in Unit : TRUE
MCInit == Init /\ FirstLeader
MCSpec == MCInit /\ [][Next]_vars /\ Fairness

BothRoles == [c \in Request |-> {"producer", "consumer"}]
=============================================================================
