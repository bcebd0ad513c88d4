---------------------------- MODULE MCKRaftQuorum ----------------------------
(* KRaftQuorum for TLC.                                                     *)
EXTENDS KRaftQuorum

\* The units are interchangeable, so one of them may be the first leader.
FirstLeader == leader = CHOOSE u \in Unit : TRUE
MCInit == Init /\ FirstLeader
MCSpec == MCInit /\ [][Next]_vars /\ Fairness
=============================================================================
