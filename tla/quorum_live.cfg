SPECIFICATION MCSpec
CONSTANTS
  Unit = {u1, u2, u3}
  NoUnit = NoUnit
  Faults = {"crash"}
  MaxElections = 1
  MaxJoins = 1
  MaxCrashes = 1
CHECK_DEADLOCK FALSE
INVARIANTS TypeOK QuorumInv OneCluster
PROPERTIES OneBootstrap EveryControllerJoins EveryRemovalEnds
