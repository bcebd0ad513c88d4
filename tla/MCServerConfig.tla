--------------------------- MODULE MCServerConfig ---------------------------
(* Constants of the runs of ServerConfig.                                  *)
EXTENDS ServerConfig

MCRoleSets == {{"broker", "controller"}, {"broker", "balancer"}, {"controller"}, {"balancer"}}
MCBasePorts == {30000, 30001, 30101}
MCPlanned == {2, 4}
MCDeployed ==
  {[roles |-> r, expose |-> e, extra |-> IF e THEN <<30000, 30101>> ELSE <<>>,
    planned |-> 2, client |-> "none", oauth |-> FALSE, mtls |-> e /\ t, tls |-> t,
    peerBalancer |-> FALSE] : r \in MCRoleSets, e, t \in BOOLEAN}

=============================================================================
